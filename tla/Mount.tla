--------------------------------- MODULE Mount ---------------------------------
(***************************************************************************)
(* The program's writes one sector at a time, main.cpp: the bitmaps of     *)
(* every group are written, then the descriptors, then the inodes, then    *)
(* the super block; a session follows, which writes blocks one by one; and *)
(* the process may end at any point, between two sectors of one block too, *)
(* and be started again on the image it leaves behind.  Every start        *)
(* formats: there is no other way to mount.                                *)
(*                                                                         *)
(* A block is two sectors; between the two writes it is torn.  What a      *)
(* session writes, where and in which order, is Ex2FileSystem's subject:   *)
(* here it writes anything of Garbage to any of SessionBlocks.             *)
(***************************************************************************)
EXTENDS BlockGroup, Sequences

CONSTANTS
  Garbage,      \* what blocks may hold before a start, and a session writes
  SessionBlocks,
  MaxRestarts   \* bound on the restarts that are looked at

VARIABLES
  disk,
  pending,    \* the remaining writes: sequence of [to, what]
  torn,       \* the first sector of Head(pending) has been written
  session,    \* formatting has ended
  restarts

vars == <<disk, pending, torn, session, restarts>>

Torn == [kind |-> "torn"]
SuperBlock == [kind |-> "super"]

ASSUME MountAssumption ==
  /\ Garbage \subseteq Content
  /\ SessionBlocks \subseteq Int
  /\ MaxRestarts \in Nat

write_to(block_number, content) == [to |-> block_number, what |-> content]

(* The three loops, each in the order of its writes, and initialize_helper.*)
initialize_block_group_bitmaps ==
  [n \in 1 .. 2 * NUM_GROUPS |->
     LET g == (n - 1) \div 2
         b == IF n % 2 = 1 THEN get_starting_block_inode_bitmap(g)
                           ELSE get_starting_block_bitmap(g)
     IN  write_to(b, EmptyBitMap(b))]

initialize_block_group_descriptors ==
  [n \in 1 .. NUM_GROUPS |->
     write_to(get_starting_block_group_descriptor(n - 1), FreshDescriptor(n - 1))]

(* The inode number and its slot; the destructor of the local inode writes *)
(* the same record to the same place again.                                *)
initialize_inodes ==
  [n \in 1 .. NUM_INODES_PER_GROUP * NUM_GROUPS |->
     write_to(get_starting_block_inode(n - 1), FreshInode(n - 1))]

initialize_helper == <<write_to(1, SuperBlock)>>

main ==
  initialize_block_group_bitmaps \o initialize_block_group_descriptors
    \o initialize_inodes \o initialize_helper

Init ==
  /\ \E content \in Garbage : disk = [b \in Blocks |-> content]
  /\ pending = main
  /\ torn = FALSE
  /\ session = FALSE
  /\ restarts = 0

-----------------------------------------------------------------------------

(* write_block_disk_helper stops at the first sector that fails, and no    *)
(* caller ends for that: a refused block is passed over.                   *)
WriteFirstSector ==
  /\ pending # <<>> /\ ~torn
  /\ disk' = write_block_disk_helper(disk, Head(pending).to, Torn)
  /\ torn' = TRUE
  /\ UNCHANGED <<pending, session, restarts>>

(* The session begins when main has nothing left to write.                 *)
Written ==
  /\ torn' = FALSE
  /\ pending' = Tail(pending)
  /\ session' = (session \/ Tail(pending) = <<>>)
  /\ UNCHANGED restarts

(* Mutants: the second half is lost; a refused block is tried for ever.    *)
WriteSecondSector_lost ==
  /\ torn
  /\ Written
  /\ UNCHANGED disk

WriteSecondSector_stubborn ==
  /\ torn
  /\ disk' = write_block_disk_helper(disk, Head(pending).to, Head(pending).what)
  /\ \/ Writable(Head(pending).to) /\ Written
     \/ /\ ~Writable(Head(pending).to)
        /\ torn' = FALSE
        /\ UNCHANGED <<pending, session, restarts>>

WriteSecondSector ==
  /\ torn
  /\ disk' = write_block_disk_helper(disk, Head(pending).to, Head(pending).what)
  /\ Written

(* The session writes its next block, in two sectors like main.            *)
UseDisk(block_number, content) ==
  /\ session
  /\ pending = <<>>
  /\ pending' = <<write_to(block_number, content)>>
  /\ UNCHANGED <<disk, torn, session, restarts>>

(* Mutant: formatting goes on behind the block that was being written.     *)
Restart_resuming ==
  /\ restarts < MaxRestarts
  /\ restarts' = restarts + 1
  /\ pending' = IF session THEN main ELSE IF torn THEN Tail(pending) ELSE pending
  /\ torn' = FALSE
  /\ session' = FALSE
  /\ UNCHANGED disk

(* exit(), a kill, an error or the end of main, and the next start.        *)
Restart ==
  /\ restarts < MaxRestarts
  /\ restarts' = restarts + 1
  /\ pending' = main
  /\ torn' = FALSE
  /\ session' = FALSE
  /\ UNCHANGED disk

WriteSector == WriteFirstSector \/ WriteSecondSector

Next ==
  \/ WriteSector
  \/ \E b \in SessionBlocks, content \in Garbage : UseDisk(b, content)
  \/ Restart

(* What is being written goes on while the process lives.                  *)
Spec == Init /\ [][Next]_vars /\ WF_vars(WriteSector)

-----------------------------------------------------------------------------

InodeBlocks ==
  { Address(get_starting_block_inode(i)) : i \in FormattedInodes } \cap Blocks

(* The step that ends main's formatting leaves every descriptor, bitmap,   *)
(* reachable inode and the super block as new, whatever the image held and *)
(* however the processes before were cut off: nothing torn, nothing used.  *)
FormatsEverything ==
  [][~session /\ session' =>
       /\ MetadataAtHome(disk')
       /\ disk'[1] = SuperBlock
       /\ \A b \in InodeBlocks : disk'[b] = FormattedDisk[b]]_vars

(* What main writes to.                                                    *)
FormattedBlocks == { Address(main[m].to) : m \in 1 .. Len(main) } \cap Blocks

TornBlocks(d) == { b \in Blocks : d[b] = Torn }

(* A crash leaves at most one block half written, so there are no more     *)
(* torn blocks than crashes, and the one being written.  A descriptor,     *)
(* bitmap or inode is never found torn in a session; a data block may be,  *)
(* from the session before: no start writes it anew.                       *)
FewTornBlocks ==
  /\ Cardinality(TornBlocks(disk)) <= restarts + IF torn THEN 1 ELSE 0
  /\ session => \A b \in TornBlocks(disk) \cap FormattedBlocks :
                  torn /\ Address(Head(pending).to) = b

(* If the crashes stop, a session begins and lasts.                        *)
EventuallyRunning == <>[]session
===============================================================================
