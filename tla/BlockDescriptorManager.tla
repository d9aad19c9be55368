------------------------ MODULE BlockDescriptorManager ------------------------
(***************************************************************************)
(* BlockDescriptorManager over a formatted disk, as its only client,       *)
(* EX2FILESYSTEM, uses it: inodes and data blocks are handed out, inode    *)
(* records and data are stored in what was handed out, and the descriptor  *)
(* of a group is rewritten by delete_file.  Nothing is ever given back:    *)
(* no code clears a bit of either bitmap.                                  *)
(*                                                                         *)
(* The two histories say what the calls have returned so far.              *)
(***************************************************************************)
EXTENDS BlockGroup, Sequences, Functions

CONSTANTS
  MaxInodeCalls,   \* bounds on the length of the histories
  MaxBlockCalls

ASSUME ManagerAssumption == MaxInodeCalls \in Nat /\ MaxBlockCalls \in Nat

VARIABLES
  disk,
  inodes_given,   \* inodes_given[g]: results of find_first_empty_inode for g
  blocks_given    \* blocks_given[g]: results of find_first_empty_data_block

vars == <<disk, inodes_given, blocks_given>>

GivenInodes == UNION { Range(inodes_given[g]) : g \in Groups }
GivenBlocks == UNION { Range(blocks_given[g]) : g \in Groups }

TypeOK ==
  /\ disk \in [Blocks -> Content]
  /\ inodes_given \in [Groups -> Seq(Nat)]
  /\ blocks_given \in [Groups -> Seq(Nat)]

Init ==
  /\ disk = FormattedDisk
  /\ inodes_given = [g \in Groups |-> <<>>]
  /\ blocks_given = [g \in Groups |-> <<>>]

-----------------------------------------------------------------------------

(* One turn of the loop of create_file: read the descriptor, try the       *)
(* group; the descriptor goes back when create_file returns.               *)
AllocateInode(g) ==
  LET block_descriptor == read_block_descriptor(disk, g)
      found == find_first_empty_inode(disk, g, block_descriptor)
  IN  /\ Len(inodes_given[g]) < MaxInodeCalls
      /\ disk' = FlushRecord(found.disk, block_descriptor)
      /\ inodes_given' = IF found.ret = -1
                         THEN inodes_given
                         ELSE [inodes_given EXCEPT ![g] = Append(@, found.ret)]
      /\ UNCHANGED blocks_given

(* get_data_block asks for a block on behalf of an inode it holds; the     *)
(* group follows from the inode number and need not exist.                 *)
AllocateBlock(inode_number) ==
  LET g     == inode_number \div NUM_INODES_PER_GROUP
      found == find_first_empty_data_block(disk, inode_number)
  IN  /\ g \in Groups => Len(blocks_given[g]) < MaxBlockCalls
      /\ disk' = found.disk
      /\ blocks_given' = IF found.ret = -1
                         THEN blocks_given
                         ELSE [blocks_given EXCEPT ![g] = Append(@, found.ret)]
      /\ UNCHANGED inodes_given

(* write_inode_info and ~BlockGroupINode: a record that names itself goes  *)
(* to the block of its number.  Only its name matters here; what else the  *)
(* record says is EX2FILESYSTEM's business.                                *)
StoreInode(inode_number) ==
  /\ disk' = write_inode_info(disk, inode_number, FreshInode(inode_number))
  /\ UNCHANGED <<inodes_given, blocks_given>>

StoreData(block_number, cell) ==
  /\ disk' = write_block_disk_helper(disk, block_number,
               [kind |-> "data", cells |-> [o \in Offsets |-> cell]])
  /\ UNCHANGED <<inodes_given, blocks_given>>

(* Mutant: a signed count.                                                 *)
CountDeletion_unwrapped(inode_number) ==
  LET block_descriptor ==
        read_block_descriptor(disk, inode_number \div NUM_INODES_PER_GROUP)
  IN  /\ disk' = FlushRecord(disk,
                   [block_descriptor EXCEPT !.free_inodes_count = @ - 1])
      /\ UNCHANGED <<inodes_given, blocks_given>>

(* The last link of an inode goes: delete_file takes one more off the free *)
(* inodes of the group, where it should add one; uint16_t wraps.           *)
CountDeletion(inode_number) ==
  LET block_descriptor ==
        read_block_descriptor(disk, inode_number \div NUM_INODES_PER_GROUP)
  IN  /\ disk' = FlushRecord(disk,
                   [block_descriptor EXCEPT
                      !.free_inodes_count = (@ + COUNT_SPAN - 1) % COUNT_SPAN])
      /\ UNCHANGED <<inodes_given, blocks_given>>

Next ==
  \/ \E g \in Groups : AllocateInode(g)
  \/ \E inode_number \in GivenInodes :
       \/ AllocateBlock(inode_number)
       \/ StoreInode(inode_number)
       \/ CountDeletion(inode_number)
  \/ \E block_number \in GivenBlocks, cell \in Cell : StoreData(block_number, cell)

Spec == Init /\ [][Next]_vars

-----------------------------------------------------------------------------

(* No sequence of allocations, inode and data writes ever lands on a       *)
(* descriptor or a bitmap, and each of them keeps pointing at itself, so   *)
(* that the next destructor does not carry it off to another block.        *)
MetadataIntact == MetadataAtHome(disk)

(* The bitmaps remember exactly what has been handed out: a number was     *)
(* returned if and only if its bit is set, and the overflow number is      *)
(* returned only by a full map.                                            *)
BitmapsRecordEveryCall ==
  \A g \in Groups :
    /\ Range(inodes_given[g]) \ {ExhaustedInode(g)}
         = { InodeNumber(g, bit) : bit \in inode_bitmap(disk, g).bits }
    /\ ExhaustedInode(g) \in Range(inodes_given[g]) => InodeMapFull(disk, g)
    /\ Range(blocks_given[g]) \ {ExhaustedBlock(g)}
         = { DataBlock(g, bit) : bit \in block_bitmap(disk, g).bits }
    /\ ExhaustedBlock(g) \in Range(blocks_given[g]) => DataMapFull(disk, g)

(* Inode numbers and data blocks of different groups never meet, overflow  *)
(* numbers included: one group cannot hand out what belongs to another.    *)
GroupsApart ==
  \A g, h \in Groups :
    g # h => /\ Range(inodes_given[g]) \cap Range(inodes_given[h]) = {}
             /\ Range(blocks_given[g]) \cap Range(blocks_given[h]) = {}

InodePool == INSTANCE FreshNumbers WITH
  given    <- inodes_given,
  Owners   <- Groups,
  Pool     <- [g \in Groups |-> { InodeNumber(g, bit) : bit \in InodeBits }],
  Overflow <- [g \in Groups |-> ExhaustedInode(g)]

BlockPool == INSTANCE FreshNumbers WITH
  given    <- blocks_given,
  Owners   <- Groups,
  Pool     <- [g \in Groups |-> { DataBlock(g, bit) : bit \in DataBits }],
  Overflow <- [g \in Groups |-> ExhaustedBlock(g)]

(* The allocator keeps its promise: every inode number, and every data     *)
(* block, is fresh until its group is full, and only then repeats.         *)
InodesFresh == InodePool!Spec
BlocksFresh == BlockPool!Spec
===============================================================================
