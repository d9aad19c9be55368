------------------------------ MODULE BlockGroup ------------------------------
(***************************************************************************)
(* The on-disk structures of block_group.h and what the member functions   *)
(* of BlockDescriptorManager do to a disk.  Nothing here is a state        *)
(* machine: every operator takes a disk d, a function from the blocks of   *)
(* the image to their contents, and gives the disk after the call, so that *)
(* the modules above can chain the calls a handler makes in their order.   *)
(*                                                                         *)
(* The structures are written back by their destructors: each knows where  *)
(* it belongs (block_number for descriptors and bitmaps, uid for inodes)   *)
(* and goes there whenever a local copy of it leaves its scope.            *)
(*                                                                         *)
(* A bitmap is kept as the set of its set bits.                            *)
(* Left out: time stamps, used_dirs_count, the inode's access_groups and   *)
(* file_name, none of which is ever read back.                             *)
(***************************************************************************)
EXTENDS DiskLayout, FiniteSets

CONSTANTS
  COUNT_SPAN,   \* 2^16: the free counts of a descriptor are uint16_t
  UID_SPAN,     \* 2^16: and so is the uid of an inode
  BLOCK_SIZE,   \* cells of a data block
  Cell,         \* what a cell can hold; 0 is the untouched cell
  Junk          \* a cell copied from memory nobody initialized

ASSUME BlockGroupAssumption ==
  /\ COUNT_SPAN \in Nat
  /\ NUM_INODES_PER_GROUP < COUNT_SPAN
  /\ DATA_BLOCKS_PER_GROUP < COUNT_SPAN
  /\ BLOCK_SIZE \in Nat \ {0}
  /\ 0 \in Cell
  /\ Junk \in Cell

(* All a uid can be: what initialize_inodes writes, what                   *)
(* find_first_empty_inode returns, what uninitialized memory holds.        *)
InodeNumbers == 0 .. UID_SPAN - 1

ASSUME UidAssumption ==
  /\ UID_SPAN \in Nat
  /\ FormattedInodes \subseteq InodeNumbers
  /\ \A g \in Groups, bit \in -1 .. NUM_INODES_PER_GROUP - 1 :
       InodeNumber(g, bit) \in InodeNumbers

(* No wrap of the 32-bit offset brings an inode onto a descriptor, a       *)
(* bitmap or the super block, or two inodes together, and the descriptor   *)
(* of the group an inode number seems to belong to is not wrapped to.      *)
(* SlotWalk checks this for the code's constants and all 2^16 uids.        *)
ASSUME SlotAssumption ==
  \A i \in InodeNumbers :
    /\ get_starting_block_group_descriptor(i \div NUM_INODES_PER_GROUP) < OFFSET_SPAN
    /\ Readable(get_starting_block_inode(i)) =>
         /\ Address(get_starting_block_inode(i)) \notin MetadataBlocks \cup {1}
         /\ \A j \in InodeNumbers :
              Address(get_starting_block_inode(j)) = Address(get_starting_block_inode(i))
                => i = j

Permissions == {"READ_BIT", "WRITE_BIT"}

Count == 0 .. COUNT_SPAN - 1

BlockIndex == 0 .. BLOCKS_PER_INODE - 1

Offsets == 0 .. BLOCK_SIZE - 1

BlockGroupDescriptor ==
  [kind : {"descriptor"}, free_blocks_count : Count,
   free_inodes_count : Count, block_number : Nat]

BitMapBlock == [kind : {"bitmap"}, bits : SUBSET Nat, block_number : Nat]

(* file_size is a uint32_t, and an int to every handler: negative from     *)
(* 2^31 on.                                                                *)
BlockGroupINode ==
  [kind : {"inode"}, uid : InodeNumbers, hard_link_count : Nat, file_size : Int,
   inode_mode : SUBSET Permissions, is_directory : BOOLEAN,
   blocks : [BlockIndex -> Int]]

DataContent == [kind : {"data"}, cells : [Offsets -> Cell]]

Content == BlockGroupDescriptor \cup BitMapBlock \cup BlockGroupINode
             \cup DataContent \cup {[kind |-> "super"]}

ZeroData == [kind |-> "data", cells |-> [o \in Offsets |-> 0]]

-----------------------------------------------------------------------------

(* write_block_disk_helper on an image that can grow: a block past the end *)
(* is stored where no read ever looks, a negative offset is refused, so in *)
(* both cases the readable part of the disk stays as it is.                *)
write_block_disk_helper(d, block_number, content) ==
  IF Readable(block_number)
  THEN [d EXCEPT ![Address(block_number)] = content]
  ELSE d

(* The cells retreive_block_disk_helper leaves in a data buffer.  When the *)
(* read fails, or the block holds a record, the cells mean nothing.        *)
retreive_block_disk_helper(d, block_number) ==
  IF Readable(block_number) /\ d[Address(block_number)].kind = "data"
  THEN d[Address(block_number)].cells
  ELSE [o \in Offsets |-> Junk]

(* A block that was formatted for an inode and holds one.                  *)
InodeReadable(d, inode_number) ==
  /\ Readable(get_starting_block_inode(inode_number))
  /\ d[Address(get_starting_block_inode(inode_number))].kind = "inode"

inode_at(d, inode_number) == d[Address(get_starting_block_inode(inode_number))]

(* What a handler can find in its local inode after read_inode_info, which *)
(* ignores a failed read; junk are the values of uninitialized memory.     *)
read_inode_info(d, inode_number, junk) ==
  IF InodeReadable(d, inode_number) THEN {inode_at(d, inode_number)} ELSE junk

write_inode_info(d, inode_number, inode) ==
  write_block_disk_helper(d, get_starting_block_inode(inode_number), inode)

(* Mutant: the destructor counts slots from one.                           *)
FlushInode_shifted(d, inode) ==
  write_block_disk_helper(d, get_starting_block_inode(inode.uid + 1), inode)

(* ~BlockGroupINode, ~BlockGroupDescriptor and the two bitmap destructors. *)
FlushInode(d, inode) ==
  write_block_disk_helper(d, get_starting_block_inode(inode.uid), inode)

FlushRecord(d, record) ==
  write_block_disk_helper(d, record.block_number, record)

(* Mutant: the place of a descriptor is filled in by whoever reads it.     *)
read_block_descriptor_placed(d, group_number) ==
  LET at == Address(get_starting_block_group_descriptor(group_number))
  IN  IF at \in Blocks /\ d[at].kind = "descriptor"
      THEN d[at]
      ELSE [kind |-> "descriptor", free_blocks_count |-> 0,
            free_inodes_count |-> 0,
            block_number |-> get_starting_block_group_descriptor(group_number)]

(* A block of a group that was never formatted reads as zeros.             *)
read_block_descriptor(d, group_number) ==
  LET at == Address(get_starting_block_group_descriptor(group_number))
  IN  IF at \in Blocks /\ d[at].kind = "descriptor"
      THEN d[at]
      ELSE [kind |-> "descriptor", free_blocks_count |-> 0,
            free_inodes_count |-> 0, block_number |-> 0]

-----------------------------------------------------------------------------

(* BitMap::get_least_significant_bit over the whole map.                   *)
get_least_significant_bit(bits, range) ==
  IF range \subseteq bits
  THEN -1
  ELSE CHOOSE bit \in range \ bits : \A other \in range \ bits : bit <= other

(* Mutant: no check_boundaries.                                            *)
set_bit_unchecked(bits, index, range) == bits \cup {index}

(* BitMap::set_bit refuses an index outside the map, -1 included.          *)
set_bit(bits, index, range) ==
  IF index \in range THEN bits \cup {index} ELSE bits

(* Take the lowest clear bit of the bitmap stored in a block; its          *)
(* destructor writes it back.                                              *)
TakeLowestBit(d, bitmap_block, range) ==
  LET bit_map == d[Address(bitmap_block)]
      bit     == get_least_significant_bit(bit_map.bits, range)
  IN  [disk |-> FlushRecord(d, [bit_map EXCEPT !.bits = set_bit(@, bit, range)]),
       bit  |-> bit]

(* Mutants: the bitmap changed by the call is never written back.          *)
find_first_empty_inode_unsaved(d, group_number, block_descriptor) ==
  IF block_descriptor.free_inodes_count = 0
  THEN [disk |-> d, ret |-> -1]
  ELSE LET taken == TakeLowestBit(d, get_starting_block_inode_bitmap(group_number),
                                  InodeBits)
       IN  [disk |-> d, ret |-> InodeNumber(group_number, taken.bit)]

find_first_empty_data_block_unsaved(d, inode_number) ==
  LET group_number     == inode_number \div NUM_INODES_PER_GROUP
      block_descriptor == read_block_descriptor(d, group_number)
      taken == TakeLowestBit(d, get_starting_block_bitmap(group_number), DataBits)
  IN  IF block_descriptor.free_blocks_count = 0
      THEN [disk |-> FlushRecord(d, block_descriptor), ret |-> -1]
      ELSE [disk |-> FlushRecord(d, block_descriptor),
            ret  |-> DataBlock(group_number, taken.bit)]

(* Both return the disk after the call and the number the call returns.    *)
find_first_empty_inode(d, group_number, block_descriptor) ==
  IF block_descriptor.free_inodes_count = 0
  THEN [disk |-> d, ret |-> -1]
  ELSE LET taken == TakeLowestBit(d, get_starting_block_inode_bitmap(group_number),
                                  InodeBits)
       IN  [disk |-> taken.disk, ret |-> InodeNumber(group_number, taken.bit)]

(* The descriptor is a local here and goes back to disk unchanged, also    *)
(* when the group has no free blocks; the bitmap is written first.         *)
find_first_empty_data_block(d, inode_number) ==
  LET group_number     == inode_number \div NUM_INODES_PER_GROUP
      block_descriptor == read_block_descriptor(d, group_number)
      taken == TakeLowestBit(d, get_starting_block_bitmap(group_number), DataBits)
  IN  IF block_descriptor.free_blocks_count = 0
      THEN [disk |-> FlushRecord(d, block_descriptor), ret |-> -1]
      ELSE [disk |-> FlushRecord(taken.disk, block_descriptor),
            ret  |-> DataBlock(group_number, taken.bit)]

-----------------------------------------------------------------------------

(* What the three initialize_* functions leave in a block.                 *)
FreshDescriptor(group_number) ==
  [kind |-> "descriptor", free_blocks_count |-> DATA_BLOCKS_PER_GROUP,
   free_inodes_count |-> NUM_INODES_PER_GROUP,
   block_number |-> get_starting_block_group_descriptor(group_number)]

EmptyBitMap(block_number) ==
  [kind |-> "bitmap", bits |-> {}, block_number |-> block_number]

(* initialize_inode_helper leaves is_directory as it finds it.             *)
FreshInode(id) ==
  [kind |-> "inode", uid |-> id, hard_link_count |-> 0, file_size |-> 0,
   inode_mode |-> Permissions, is_directory |-> FALSE,
   blocks |-> [k \in BlockIndex |-> 0]]

(* The disk after all three, started on an image of zeros.                 *)
FormattedDisk ==
  [b \in Blocks |->
     IF \E g \in Groups : b = get_starting_block_group_descriptor(g)
     THEN FreshDescriptor(CHOOSE g \in Groups :
                            b = get_starting_block_group_descriptor(g))
     ELSE IF \E g \in Groups : b \in {get_starting_block_bitmap(g),
                                      get_starting_block_inode_bitmap(g)}
     THEN EmptyBitMap(b)
     ELSE IF \E i \in FormattedInodes : Address(get_starting_block_inode(i)) = b
     THEN FreshInode(CHOOSE i \in FormattedInodes :
                       Address(get_starting_block_inode(i)) = b)
     ELSE ZeroData]

-----------------------------------------------------------------------------

descriptor(d, g)   == d[get_starting_block_group_descriptor(g)]
inode_bitmap(d, g) == d[get_starting_block_inode_bitmap(g)]
block_bitmap(d, g) == d[get_starting_block_bitmap(g)]

(* Every descriptor and bitmap sits where the code looks for it and names  *)
(* that place as its own: its destructor will put it back there.           *)
MetadataAtHome(d) ==
  \A g \in Groups :
    /\ descriptor(d, g) \in BlockGroupDescriptor
    /\ descriptor(d, g).block_number = get_starting_block_group_descriptor(g)
    /\ inode_bitmap(d, g) \in BitMapBlock
    /\ inode_bitmap(d, g).bits \subseteq InodeBits
    /\ inode_bitmap(d, g).block_number = get_starting_block_inode_bitmap(g)
    /\ block_bitmap(d, g) \in BitMapBlock
    /\ block_bitmap(d, g).bits \subseteq DataBits
    /\ block_bitmap(d, g).block_number = get_starting_block_bitmap(g)

InodeMapFull(d, g) == InodeBits \subseteq inode_bitmap(d, g).bits
DataMapFull(d, g)  == DataBits \subseteq block_bitmap(d, g).bits
===============================================================================
