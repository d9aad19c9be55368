------------------------------ MODULE DiskLayout ------------------------------
(***************************************************************************)
(* Where everything lives on the simulated disk: the constants of          *)
(* shared_types.h, the four get_starting_block_* functions at the top of   *)
(* block_group.cpp, the two "first empty" return values, and the byte      *)
(* offset arithmetic of Disk::populate_sector and Disk::write_sector.      *)
(*                                                                         *)
(* The disk is NUM_GROUPS group areas of GroupSize blocks, after           *)
(* RESERVED_OFFSET_GROUPS blocks at the front:                             *)
(*                                                                         *)
(*    descriptor | block bitmap | inode bitmap | inode table (unused)      *)
(*    | NUM_INODES_PER_GROUP inode slots | DATA_BLOCKS_PER_GROUP blocks    *)
(*                                                                         *)
(* The functions do not agree with that picture: an inode is looked up by  *)
(* dividing its number by BLOCKS_PER_INODE, so inode blocks are spread     *)
(* over far more areas than there are groups, and data blocks are handed   *)
(* out from one block too early.  The operators keep both.                 *)
(***************************************************************************)
EXTENDS Integers

CONSTANTS
  NUM_GROUPS,
  RESERVED_OFFSET_GROUPS,   \* 3 in the code
  BLOCKS_GROUP_RESERVED,    \* 4 in the code
  BLOCKS_PER_INODE,         \* 9 in the code
  NUM_INODES_PER_GROUP,     \* 7800 in the code
  DATA_BLOCKS_PER_GROUP,    \* 7800 in the code
  DISK_BLOCKS,              \* DISK_SIZE / BLOCK_SIZE, 1048579 in the code
  OFFSET_SPAN               \* 2^31 bytes in blocks, 2097152 in the code: the
                            \* byte offset is a 32-bit int

(* What the code's values satisfy and the theorems need.                   *)
ASSUME LayoutAssumption ==
  /\ NUM_GROUPS \in Nat \ {0}
  /\ RESERVED_OFFSET_GROUPS \in Nat \ {0, 1}
  /\ BLOCKS_GROUP_RESERVED \in Nat
  /\ BLOCKS_PER_INODE \in Nat \ {0}
  /\ NUM_INODES_PER_GROUP \in Nat \ {0}
  /\ DATA_BLOCKS_PER_GROUP \in Nat \ {0}
  /\ DISK_BLOCKS \in Nat
  /\ OFFSET_SPAN \in Nat
  /\ BLOCKS_GROUP_RESERVED >= 3
  /\ RESERVED_OFFSET_GROUPS <= BLOCKS_GROUP_RESERVED
  /\ BLOCKS_GROUP_RESERVED <= RESERVED_OFFSET_GROUPS + 1
  /\ NUM_GROUPS * BLOCKS_PER_INODE + 1 < NUM_INODES_PER_GROUP
  /\ RESERVED_OFFSET_GROUPS + NUM_GROUPS *
       (BLOCKS_GROUP_RESERVED + NUM_INODES_PER_GROUP + DATA_BLOCKS_PER_GROUP)
       <= DISK_BLOCKS
  /\ DISK_BLOCKS <= OFFSET_SPAN

Groups    == 0 .. NUM_GROUPS - 1
InodeBits == 0 .. NUM_INODES_PER_GROUP - 1
DataBits  == 0 .. DATA_BLOCKS_PER_GROUP - 1
Blocks    == 0 .. DISK_BLOCKS - 1

GroupSize ==
  BLOCKS_GROUP_RESERVED + NUM_INODES_PER_GROUP + DATA_BLOCKS_PER_GROUP

(* The inode numbers initialize_inodes writes a record for.                *)
FormattedInodes == 0 .. NUM_INODES_PER_GROUP * NUM_GROUPS - 1

-----------------------------------------------------------------------------

get_starting_block_group_descriptor(group_number) ==
  RESERVED_OFFSET_GROUPS + group_number * GroupSize

get_starting_block_bitmap(group_number) ==
  get_starting_block_group_descriptor(group_number) + 1

get_starting_block_inode_bitmap(group_number) ==
  get_starting_block_group_descriptor(group_number) + 2

(* Mutants: the reserved blocks of the area forgotten, the two divisors    *)
(* swapped, an area of one inode too few.                                  *)
get_starting_block_inode_unreserved(inode_number) ==
  (inode_number \div BLOCKS_PER_INODE) * GroupSize
    + RESERVED_OFFSET_GROUPS + (inode_number % NUM_INODES_PER_GROUP)

get_starting_block_inode_swapped(inode_number) ==
  (inode_number \div NUM_INODES_PER_GROUP) * GroupSize
    + BLOCKS_GROUP_RESERVED + RESERVED_OFFSET_GROUPS
    + (inode_number % BLOCKS_PER_INODE)

get_starting_block_inode_tight(inode_number) ==
  (inode_number \div (BLOCKS_PER_INODE - 1)) * GroupSize
    + BLOCKS_GROUP_RESERVED + RESERVED_OFFSET_GROUPS
    + (inode_number % NUM_INODES_PER_GROUP)

(* The area is inode_number / BLOCKS_PER_INODE, not / NUM_INODES_PER_GROUP. *)
get_starting_block_inode(inode_number) ==
  (inode_number \div BLOCKS_PER_INODE) * GroupSize
    + BLOCKS_GROUP_RESERVED + RESERVED_OFFSET_GROUPS
    + (inode_number % NUM_INODES_PER_GROUP)

(* Mutants: the group left out of a number; the inode slots not skipped.   *)
InodeNumber_groupless(group_number, bit) ==
  get_starting_block_group_descriptor(0) + RESERVED_OFFSET_GROUPS + bit

DataBlock_unskipped(group_number, bit) ==
  get_starting_block_group_descriptor(group_number) + RESERVED_OFFSET_GROUPS + bit

(* What find_first_empty_inode returns for a bit of a group: a number      *)
(* computed like a block number and used by every caller as inode number.  *)
InodeNumber(group_number, bit) ==
  get_starting_block_group_descriptor(group_number)
    + RESERVED_OFFSET_GROUPS + bit

(* What find_first_empty_data_block returns for a bit of a group: the      *)
(* offset added is RESERVED_OFFSET_GROUPS, one less than the               *)
(* BLOCKS_GROUP_RESERVED blocks that precede the inode slots.              *)
DataBlock(group_number, bit) ==
  get_starting_block_group_descriptor(group_number)
    + RESERVED_OFFSET_GROUPS + NUM_INODES_PER_GROUP + bit

(* get_least_significant_bit returns -1 on a full bitmap and neither       *)
(* caller tests it, so these two numbers are returned from then on.        *)
ExhaustedInode(group_number) == InodeNumber(group_number, -1)
ExhaustedBlock(group_number) == DataBlock(group_number, -1)

-----------------------------------------------------------------------------

(* The byte offset sector_number * SECTOR_SIZE is an int; measured in      *)
(* blocks (BLOCK_SIZE divides 2^32) it wraps at 2 * OFFSET_SPAN.           *)
Address(block_number) ==
  ((block_number + OFFSET_SPAN) % (2 * OFFSET_SPAN)) - OFFSET_SPAN

(* populate_sector refuses offsets past DISK_SIZE (a negative one compares *)
(* as a huge unsigned one); write_sector has no such test and only fails   *)
(* when lseek refuses a negative offset: past the end it grows the image.  *)
Readable(block_number)  == Address(block_number) \in Blocks
Writable(block_number)  == Address(block_number) >= 0

MetadataBlocks ==
  UNION { {get_starting_block_group_descriptor(g),
           get_starting_block_bitmap(g),
           get_starting_block_inode_bitmap(g)} : g \in Groups }

DataRegion(g) == { DataBlock(g, bit) : bit \in DataBits }

(* All a data block can be known by, with what a full bitmap gives.        *)
DataBlockNumbers ==
  { DataBlock(g, bit) : g \in Groups, bit \in -1 .. DATA_BLOCKS_PER_GROUP - 1 }

(* No data is written over the inode, and no descriptor read as zeros,     *)
(* which goes to block 0.                                                  *)
ClearOfData(inode_number) ==
  Address(get_starting_block_inode(inode_number)) \notin DataBlockNumbers \cup {0}
===============================================================================
