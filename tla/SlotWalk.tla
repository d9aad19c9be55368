------------------------------- MODULE SlotWalk -------------------------------
(***************************************************************************)
(* The loop of BlockDescriptorManager::initialize_inodes, walked with the  *)
(* constants the program is really built with: one state per inode number, *)
(* no disk contents.  What is checked is the address arithmetic alone,     *)
(* 32-bit wrap included, for all 31200 inode numbers.  The walk then goes  *)
(* on through the other values a uint16_t uid can have: ~BlockGroupINode   *)
(* computes an address from whatever uid an uninitialized inode holds.     *)
(***************************************************************************)
EXTENDS DiskLayout

CONSTANTS
  UID_SPAN,      \* 2^16
  SAFE_INODES    \* inode numbers below this one are claimed sound

VARIABLE inode_number

vars == inode_number

Uids == 0 .. UID_SPAN - 1

Init == inode_number = 0

initialize_inodes ==
  /\ inode_number + 1 \in FormattedInodes
  /\ inode_number' = inode_number + 1

StrayUid ==
  /\ inode_number + 1 \in Uids \ FormattedInodes
  /\ inode_number' = inode_number + 1

Next == initialize_inodes \/ StrayUid

Spec == Init /\ [][Next]_vars

-----------------------------------------------------------------------------

block == get_starting_block_inode(inode_number)

(* The write of an inode record, during formatting or by a destructor with *)
(* any uid at all, never lands on a descriptor, a bitmap or the super      *)
(* block (block 1), directly or through the wrap of the 32-bit offset; and *)
(* the descriptor looked up for any inode number is not a wrapped one.     *)
InodesSpareMetadata ==
  /\ Writable(block) => Address(block) \notin MetadataBlocks \cup {1}
  /\ get_starting_block_group_descriptor(inode_number \div NUM_INODES_PER_GROUP)
       < OFFSET_SPAN

(* Block numbers that get_starting_block_inode could have produced for the *)
(* same address, one per wrap of the offset.                               *)
Aliases ==
  { b \in { Address(block) + k * 2 * OFFSET_SPAN : k \in 0 .. 27 } :
      b >= RESERVED_OFFSET_GROUPS + BLOCKS_GROUP_RESERVED }

InodesStoredIn(b) ==
  LET area == (b - RESERVED_OFFSET_GROUPS - BLOCKS_GROUP_RESERVED) \div GroupSize
  IN  { i \in area * BLOCKS_PER_INODE .. (area + 1) * BLOCKS_PER_INODE - 1 :
          i \in Uids /\ get_starting_block_inode(i) = b }

(* Two inode numbers never share a block: the records that are written at  *)
(* all are written to pairwise different places, wrapped ones included.    *)
InodeSlotsDistinct ==
  Writable(block) => UNION { InodesStoredIn(b) : b \in Aliases } = {inode_number}

(* The inodes below SAFE_INODES can be read back and are clear of every    *)
(* data block; the next one, and the first that any group but 0 gives out, *)
(* can not be read at all: this is the number of files the image really    *)
(* holds, of the 31200 that main.cpp:15 announces, and no number handed    *)
(* out before an unreadable one shares its block with data.                *)
SafeInodesSound ==
  /\ inode_number < SAFE_INODES => Readable(block) /\ ClearOfData(inode_number)
  /\ inode_number \in {SAFE_INODES} \cup { InodeNumber(g, 0) : g \in Groups \ {0} }
       => ~Readable(block)
===============================================================================
