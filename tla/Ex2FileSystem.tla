---------------------------- MODULE Ex2FileSystem ----------------------------
(***************************************************************************)
(* EX2FILESYSTEM (ex2.cpp): files named by inode numbers, file descriptors *)
(* with a cached size, and the handlers create, open, close, read, write,  *)
(* write_at, seek, delete, rename and increment_hard_link_count.           *)
(*                                                                         *)
(* The program has one thread, so a handler is one step: every disk write  *)
(* it makes, the ones its locals' destructors make when it returns         *)
(* included, in their order.  A handler that calls exit() writes nothing   *)
(* more, its locals are not destroyed, and the process is gone.            *)
(*                                                                         *)
(* An inode that is read from a block that cannot be read, and the local   *)
(* inode of rename_file, are uninitialized memory.  JunkInodes are the     *)
(* values such memory may show: any inodes at all.  undefined says that    *)
(* such memory has been used.                                              *)
(*                                                                         *)
(* The model ends (OutOfModel) where a handler goes through an index       *)
(* outside inode.blocks, which takes a negative position or size, and      *)
(* where it writes data over a descriptor or bitmap, which takes a block   *)
(* list that was never initialized: what comes of it is left open.         *)
(* Bounds: write_at keeps to positions where its block index, computed     *)
(* with the wrong divisor, is an index of inode.blocks.                    *)
(* Left out: names, time stamps, messages, the bytes a read hands back.    *)
(***************************************************************************)
EXTENDS BlockGroup, Sequences

CONSTANTS
  Modes,        \* permissions files are created with and opened for
  Kinds,        \* is_directory flags files are created with
  Payloads,     \* buffers passed to my_file_system_write
  AtPayloads,   \* and to my_file_system_write_at
  Positions,    \* and positions passed to my_file_system_seek
  JunkInodes,   \* what an uninitialized BlockGroupINode can look like
  ExclusiveOpen,  \* the callers never open an inode that is open already
  MaxFiles,     \* bounds: inode numbers known to callers, descriptors ever
  MaxOpens,     \* opened, links of one inode, last links taken away in
  MaxLinks,     \* one group
  MaxDeletions

SizeLimit == BLOCKS_PER_INODE * BLOCK_SIZE

ASSUME Ex2Assumption ==
  /\ Modes \subseteq SUBSET Permissions
  /\ Kinds \subseteq BOOLEAN
  /\ \A payload \in Payloads \cup AtPayloads :
       /\ payload \in Seq(Cell)
       /\ Len(payload) \in 1 .. SizeLimit
  /\ Positions \subseteq Int
  /\ JunkInodes \subseteq BlockGroupINode
  /\ ExclusiveOpen \in BOOLEAN
  /\ MaxFiles \in Nat /\ MaxOpens \in Nat /\ MaxLinks \in Nat /\ MaxDeletions \in Nat

(* A group gives its numbers out in order, and that of bit -1 when all are *)
(* given.  As long as every number so far could be read its inode is clear *)
(* of data blocks, and counted in a group that exists; for the code's      *)
(* constants this is not so of all later ones, from number 4842 on.        *)
(* SlotWalk has what this says of the code's constants.                    *)
ASSUME DataAssumption ==
  \A g \in Groups, bit \in -1 .. NUM_INODES_PER_GROUP - 1 :
    (/\ Readable(get_starting_block_inode(InodeNumber(g, bit)))
     /\ \A lower \in InodeBits :
          bit = -1 \/ lower < bit
            => Readable(get_starting_block_inode(InodeNumber(g, lower))))
      => /\ ClearOfData(InodeNumber(g, bit))
         /\ InodeNumber(g, bit) \div NUM_INODES_PER_GROUP \in Groups

VARIABLES
  disk,
  mp,                         \* open descriptors and their MyFile
  created_file_descriptors,
  known,      \* inode numbers create_file has returned to its callers
  alive,      \* no handler has called exit()
  undefined   \* an uninitialized inode has been used

vars == <<disk, mp, created_file_descriptors, known, alive, undefined>>

MyFile ==
  [inode_number : Nat, position : Int, file_size : Int, is_directory : BOOLEAN]

(* A position is never past the cached size, but it may be negative.       *)
TypeOK ==
  /\ disk \in [Blocks -> Content]
  /\ DOMAIN mp \subseteq 0 .. created_file_descriptors - 1
  /\ \A fd \in DOMAIN mp :
       /\ mp[fd] \in MyFile
       /\ ~undefined => /\ mp[fd].position <= mp[fd].file_size
                        /\ mp[fd].file_size \in 0 .. SizeLimit
  /\ created_file_descriptors \in Nat
  /\ known \subseteq Nat
  /\ alive \in BOOLEAN
  /\ undefined \in BOOLEAN

-----------------------------------------------------------------------------

(* What a handler finds in its local inode.                                *)
InodeRead(d, inode_number) == read_inode_info(d, inode_number, JunkInodes)

exit ==
  /\ alive' = FALSE
  /\ UNCHANGED <<disk, mp, created_file_descriptors, known>>

OutOfModel == exit

(* The read of inode_number went well, or memory nobody wrote is used.     *)
NoteRead(inode_number) ==
  undefined' = (undefined \/ ~InodeReadable(disk, inode_number))

(* set_vacant_inode; the block list is left as it is found.                *)
set_vacant_inode(inode, file_permissions, is_directory) ==
  [inode EXCEPT !.hard_link_count = @ + 1, !.file_size = 0,
                !.inode_mode = file_permissions, !.is_directory = is_directory]

(* The first group whose count of free inodes is not 0 gives the inode:    *)
(* number and disk after find_first_empty_inode, or none.                  *)
GroupsWithInodes(d) ==
  { g \in Groups : read_block_descriptor(d, g).free_inodes_count # 0 }

FirstGroup(d) ==
  CHOOSE g \in GroupsWithInodes(d) : \A h \in GroupsWithInodes(d) : g <= h

VacantInode(d) ==
  find_first_empty_inode(d, FirstGroup(d), read_block_descriptor(d, FirstGroup(d)))

(* create_file's disk when its inode reads as given: the bitmap is written *)
(* first, then the inode, then the descriptor read last.                   *)
CreatedDisk(d, inode, file_permissions, is_directory) ==
  FlushRecord(
    FlushInode(VacantInode(d).disk,
               set_vacant_inode(inode, file_permissions, is_directory)),
    read_block_descriptor(d, FirstGroup(d)))

-----------------------------------------------------------------------------

(* main has formatted the disk and EX2FILESYSTEM's constructor has created *)
(* the root directory in the first inode.                                  *)
Init ==
  LET root == VacantInode(FormattedDisk).ret
  IN  /\ \E inode \in InodeRead(FormattedDisk, root) :
           disk = CreatedDisk(FormattedDisk, inode, Permissions, TRUE)
      /\ mp = << >>
      /\ created_file_descriptors = 0
      /\ known = {root}
      /\ alive = TRUE
      /\ undefined = ~InodeReadable(FormattedDisk, root)

(* When every group's count is 0 the handler returns -1, with no change.   *)
create_file(file_permissions, is_directory) ==
  LET found == VacantInode(disk)
  IN  /\ alive
      /\ GroupsWithInodes(disk) # {}
      /\ Cardinality(known \cup {found.ret}) <= MaxFiles
      /\ \E inode \in InodeRead(disk, found.ret) :
           /\ inode.hard_link_count < MaxLinks
           /\ disk' = CreatedDisk(disk, inode, file_permissions, is_directory)
      /\ known' = known \cup {found.ret}
      /\ NoteRead(found.ret)
      /\ UNCHANGED <<mp, created_file_descriptors, alive>>

my_open(inode_number, mask_permissions) ==
  /\ alive
  /\ created_file_descriptors < MaxOpens
  /\ ExclusiveOpen => \A fd \in DOMAIN mp : mp[fd].inode_number # inode_number
  /\ NoteRead(inode_number)
  /\ \E inode \in InodeRead(disk, inode_number) :
       \/ /\ \/ inode.hard_link_count = 0
             \/ ~(mask_permissions \subseteq inode.inode_mode)
          /\ exit
       \/ /\ inode.hard_link_count > 0
          /\ mask_permissions \subseteq inode.inode_mode
          /\ mp' = [fd \in DOMAIN mp \cup {created_file_descriptors} |->
                      IF fd = created_file_descriptors
                      THEN [inode_number |-> inode_number, position |-> 0,
                            file_size |-> inode.file_size,
                            is_directory |-> inode.is_directory]
                      ELSE mp[fd]]
          /\ created_file_descriptors' = created_file_descriptors + 1
          /\ disk' = FlushInode(disk, inode)
          /\ UNCHANGED <<known, alive>>

(* An unknown descriptor is answered with -1.                              *)
my_close(fd) ==
  /\ alive
  /\ fd \in DOMAIN mp
  /\ mp' = [other \in DOMAIN mp \ {fd} |-> mp[other]]
  /\ UNCHANGED <<disk, created_file_descriptors, known, alive, undefined>>

(* read, write and seek end the process over a descriptor they don't know. *)
BadDescriptor(fd) ==
  /\ alive
  /\ fd \notin DOMAIN mp
  /\ exit
  /\ UNCHANGED undefined

(* Mutant: seek anywhere.                                                  *)
my_file_system_seek_anywhere(fd, position) ==
  /\ alive
  /\ fd \in DOMAIN mp
  /\ mp' = [mp EXCEPT ![fd].position = position]
  /\ UNCHANGED <<disk, created_file_descriptors, known, alive, undefined>>

my_file_system_seek(fd, position) ==
  /\ alive
  /\ fd \in DOMAIN mp
  /\ UNCHANGED undefined
  /\ \/ /\ mp[fd].file_size < position
        /\ exit
     \/ /\ mp[fd].file_size >= position
        /\ mp' = [mp EXCEPT ![fd].position = position]
        /\ UNCHANGED <<disk, created_file_descriptors, known, alive>>

-----------------------------------------------------------------------------

(* The indices a transfer goes through, whose ends are computed apart, and *)
(* those whose failed read ends the process: all a read goes through but   *)
(* the last of several, whose status nobody looks at.                      *)
IndicesTouched(starting_block, ending_block) ==
  {starting_block, ending_block} \cup starting_block .. ending_block

IndicesChecked(starting_block, ending_block) ==
  {starting_block} \cup starting_block .. ending_block - 1

(* Beyond the cached size the answer is -1.  An inode without links is     *)
(* called corrupted, but not before it could be written back.              *)
my_file_system_read(fd, size) ==
  LET starting_block == mp[fd].position \div BLOCK_SIZE
      ending_block   == (mp[fd].position + size - 1) \div BLOCK_SIZE
      touched        == IndicesTouched(starting_block, ending_block)
      checked        == IndicesChecked(starting_block, ending_block)
  IN  /\ alive
      /\ fd \in DOMAIN mp
      /\ mp[fd].position + size <= mp[fd].file_size
      /\ NoteRead(mp[fd].inode_number)
      /\ \E inode \in InodeRead(disk, mp[fd].inode_number) :
           \/ /\ inode.hard_link_count = 0
              /\ disk' = FlushInode(disk, inode)
              /\ UNCHANGED <<mp, created_file_descriptors, known, alive>>
           \/ /\ inode.hard_link_count > 0
              /\ ~(touched \subseteq BlockIndex)
              /\ OutOfModel
           \/ /\ inode.hard_link_count > 0
              /\ touched \subseteq BlockIndex
              /\ \E k \in checked : ~Readable(inode.blocks[k])
              /\ exit
           \/ /\ inode.hard_link_count > 0
              /\ touched \subseteq BlockIndex
              /\ \A k \in checked : Readable(inode.blocks[k])
              /\ disk' = FlushInode(disk, inode)
              /\ mp' = [mp EXCEPT ![fd].position = @ + size]
              /\ UNCHANGED <<created_file_descriptors, known, alive>>

-----------------------------------------------------------------------------

(* A handler in the middle of a transfer: its disk, its local inode, and   *)
(* how much of the caller's buffer write_helper has gone through.          *)
get_data_block(t, inode_number, block_idx) ==
  IF t.inode.blocks[block_idx] # 0
  THEN t
  ELSE LET found == find_first_empty_data_block(t.disk, inode_number)
       IN  [t EXCEPT !.disk = found.disk, !.inode.blocks[block_idx] = found.ret]

(* write_helper(from, to) on the cells of a block; past the end of the     *)
(* caller's buffer it copies whatever memory is there.                     *)
write_helper(cells, from, to, payload, used) ==
  [o \in Offsets |->
     IF o \notin from .. to - 1 THEN cells[o]
     ELSE IF used + (o - from) + 1 \in DOMAIN payload
          THEN payload[used + (o - from) + 1]
          ELSE Junk]

(* Mutant: get_data_block is given a copy of the block list.               *)
WriteBlock_unlisted(t, inode_number, block_idx, from, to, payload) ==
  LET held         == get_data_block(t, inode_number, block_idx)
      block_number == held.inode.blocks[block_idx]
      cells == write_helper(retreive_block_disk_helper(held.disk, block_number),
                            from, to, payload, t.used)
  IN  [t EXCEPT
         !.disk = write_block_disk_helper(held.disk, block_number,
                                          [kind |-> "data", cells |-> cells]),
         !.used = @ + (to - from)]

(* get_data_block, write_helper, write_block_disk_helper: the three calls  *)
(* every write handler makes for each block it touches.                    *)
WriteBlock(t, inode_number, block_idx, from, to, payload) ==
  LET held         == get_data_block(t, inode_number, block_idx)
      block_number == held.inode.blocks[block_idx]
      cells == write_helper(retreive_block_disk_helper(held.disk, block_number),
                            from, to, payload, t.used)
  IN  [held EXCEPT
         !.disk = write_block_disk_helper(held.disk, block_number,
                                          [kind |-> "data", cells |-> cells]),
         !.used = @ + (to - from)]

(* Mutants: a write within a block goes to the position, not to the end;   *)
(* the file ends where the write does.                                     *)
Transfer_at_position(d, inode, my_file, payload) ==
  LET starting_block == my_file.file_size \div BLOCK_SIZE
      starting_byte  == my_file.position % BLOCK_SIZE
      t0 == [disk |-> d, used |-> 0,
             inode |-> [inode EXCEPT !.file_size = my_file.file_size + Len(payload)]]
  IN  WriteBlock(t0, my_file.inode_number, starting_block, starting_byte,
                 starting_byte + Len(payload), payload)

Transfer_sized_by_position(d, inode, my_file, payload) ==
  LET starting_block == my_file.file_size \div BLOCK_SIZE
      starting_byte  == my_file.file_size % BLOCK_SIZE
      t0 == [disk |-> d, used |-> 0,
             inode |-> [inode EXCEPT !.file_size = my_file.position + Len(payload)]]
  IN  WriteBlock(t0, my_file.inode_number, starting_block, starting_byte,
                 starting_byte + Len(payload), payload)

(* WriteBlock of all of the blocks first .. last, one after the other.     *)
WriteWholeBlocks(t, inode_number, first, last, payload) ==
  LET written[k \in first - 1 .. last] ==
        IF k = first - 1
        THEN t
        ELSE WriteBlock(written[k - 1], inode_number, k, 0, BLOCK_SIZE, payload)
  IN  IF first > last THEN t ELSE written[last]

(* Where descriptors and bitmaps are, or would be if there were as many    *)
(* groups as inode numbers seem to say.                                    *)
ReadAsMetadata ==
  MetadataBlocks \cup
    { get_starting_block_group_descriptor(i \div NUM_INODES_PER_GROUP) : i \in InodeNumbers }

(* The model has what comes of writing data through these indices: they    *)
(* exist, and what they name is not read as a descriptor or bitmap.        *)
Writes(inode, indices) ==
  /\ indices \subseteq BlockIndex
  /\ \A k \in indices : Address(inode.blocks[k]) \notin ReadAsMetadata

(* The size decides where the first block is, the position, which a write  *)
(* does not move, where the last one is.  When they differ the bytes go to *)
(* the position's place in the first block, and the first block is written *)
(* over once more with those between it and the last one.                  *)
Transfer(d, inode, my_file, payload) ==
  LET last_byte      == my_file.position + Len(payload) - 1
      starting_block == my_file.file_size \div BLOCK_SIZE
      ending_block   == last_byte \div BLOCK_SIZE
      starting_byte  == my_file.file_size % BLOCK_SIZE
      n  == my_file.inode_number
      t0 == [disk |-> d, used |-> 0,
             inode |-> [inode EXCEPT !.file_size = my_file.file_size + Len(payload)]]
      t1 == WriteBlock(t0, n, starting_block, my_file.position % BLOCK_SIZE,
                       BLOCK_SIZE, payload)
      t2 == WriteWholeBlocks(t1, n, starting_block, ending_block - 1, payload)
  IN  IF starting_block = ending_block
      THEN WriteBlock(t0, n, starting_block, starting_byte,
                      starting_byte + Len(payload), payload)
      ELSE WriteBlock(t2, n, ending_block, 0, (last_byte % BLOCK_SIZE) + 1, payload)

IndicesWritten(my_file, payload) ==
  IndicesTouched(my_file.file_size \div BLOCK_SIZE,
                 (my_file.position + Len(payload) - 1) \div BLOCK_SIZE)

(* Mutant: the cached size is left behind.                                 *)
my_file_system_write_uncached(fd, payload) ==
  /\ alive
  /\ fd \in DOMAIN mp
  /\ mp[fd].file_size + Len(payload) <= SizeLimit
  /\ IndicesWritten(mp[fd], payload) \subseteq BlockIndex
  /\ NoteRead(mp[fd].inode_number)
  /\ \E inode \in InodeRead(disk, mp[fd].inode_number) :
       /\ inode.hard_link_count > 0
       /\ LET t == Transfer(disk, inode, mp[fd], payload)
          IN  disk' = FlushInode(t.disk, t.inode)
  /\ UNCHANGED <<mp, created_file_descriptors, known, alive>>

(* The limit is an unsigned number: a negative size is past it.            *)
my_file_system_write(fd, payload) ==
  /\ alive
  /\ fd \in DOMAIN mp
  /\ \/ /\ mp[fd].file_size + Len(payload) \notin 0 .. SizeLimit
        /\ exit
        /\ UNCHANGED undefined
     \/ /\ mp[fd].file_size + Len(payload) \in 0 .. SizeLimit
        /\ NoteRead(mp[fd].inode_number)
        /\ \E inode \in InodeRead(disk, mp[fd].inode_number) :
             \/ /\ inode.hard_link_count = 0
                /\ disk' = FlushInode(disk, inode)
                /\ UNCHANGED <<mp, created_file_descriptors, known, alive>>
             \/ /\ inode.hard_link_count > 0
                /\ ~Writes(inode, IndicesWritten(mp[fd], payload))
                /\ OutOfModel
             \/ /\ inode.hard_link_count > 0
                /\ Writes(inode, IndicesWritten(mp[fd], payload))
                /\ LET t == Transfer(disk, inode, mp[fd], payload)
                   IN  disk' = FlushInode(t.disk, t.inode)
                /\ mp' = [mp EXCEPT ![fd].file_size = @ + Len(payload)]
                /\ UNCHANGED <<created_file_descriptors, known, alive>>

(* write_at counts blocks in units of BLOCKS_PER_INODE bytes, grows no     *)
(* file and asks for no link.  MyFile::permissions, which may make it give *)
(* up with -1, is never set: it may also go on.                            *)
my_file_system_write_at(fd, start_position, payload) ==
  LET end_position   == start_position + Len(payload)
      starting_block == start_position \div BLOCKS_PER_INODE
      ending_block   == (end_position - 1) \div BLOCKS_PER_INODE
      n == mp[fd].inode_number
  IN  /\ alive
      /\ fd \in DOMAIN mp
      /\ start_position < BLOCK_SIZE
      /\ ending_block \in BlockIndex
      /\ NoteRead(n)
      /\ \E inode \in InodeRead(disk, n) :
           LET t0 == [disk |-> disk, used |-> 0, inode |-> inode]
               t1 == WriteBlock(t0, n, starting_block, start_position, BLOCK_SIZE, payload)
               t2 == WriteWholeBlocks(t1, n, starting_block + 1, ending_block - 1, payload)
               t  == IF starting_block = ending_block
                     THEN WriteBlock(t0, n, starting_block, start_position,
                                     end_position, payload)
                     ELSE WriteBlock(t2, n, ending_block, 0,
                                     end_position % BLOCK_SIZE, payload)
               touched == IndicesTouched(starting_block, ending_block)
           IN  \/ /\ Writes(inode, touched)
                  /\ disk' = FlushInode(t.disk, t.inode)
                  /\ UNCHANGED <<mp, created_file_descriptors, known, alive>>
               \/ /\ ~Writes(inode, touched)
                  /\ OutOfModel

-----------------------------------------------------------------------------

(* Mutants: the last link goes without a word to the descriptor, or the    *)
(* data blocks are given back while the inode goes on naming them.         *)
delete_file_uncounted(inode_number) ==
  /\ alive
  /\ NoteRead(inode_number)
  /\ \E inode \in InodeRead(disk, inode_number) :
       disk' = FlushInode(disk, IF inode.hard_link_count = 0 THEN inode
                                ELSE [inode EXCEPT !.hard_link_count = @ - 1])
  /\ UNCHANGED <<mp, created_file_descriptors, known, alive>>

delete_file_releasing(inode_number) ==
  LET map_block == get_starting_block_bitmap(inode_number \div NUM_INODES_PER_GROUP)
      held(inode, bit) ==
        \E k \in BlockIndex :
          inode.blocks[k] = DataBlock(inode_number \div NUM_INODES_PER_GROUP, bit)
  IN  /\ alive
      /\ NoteRead(inode_number)
      /\ \E inode \in InodeRead(disk, inode_number) :
           /\ inode.hard_link_count = 1
           /\ disk' = FlushInode(
                        [disk EXCEPT ![map_block].bits =
                           { bit \in @ : ~held(inode, bit) }],
                        [inode EXCEPT !.hard_link_count = 0])
      /\ UNCHANGED <<mp, created_file_descriptors, known, alive>>

DeletionsIn(d, g) ==
  (NUM_INODES_PER_GROUP - read_block_descriptor(d, g).free_inodes_count) % COUNT_SPAN

(* With the last link gone the block list is forgotten, the descriptor of  *)
(* the inode's group loses one more free inode and goes back to disk, and  *)
(* then the inode does.  No bit is cleared in either bitmap.               *)
DeletedDisk(d, inode_number, inode) ==
  LET block_descriptor ==
        read_block_descriptor(d, inode_number \div NUM_INODES_PER_GROUP)
      counted ==
        [block_descriptor EXCEPT !.free_inodes_count = (@ + COUNT_SPAN - 1) % COUNT_SPAN]
      forgotten ==
        [inode EXCEPT !.hard_link_count = 0, !.blocks = [k \in BlockIndex |-> 0]]
  IN  CASE inode.hard_link_count = 0 -> FlushInode(d, inode)
        [] inode.hard_link_count = 1 -> FlushInode(FlushRecord(d, counted), forgotten)
        [] inode.hard_link_count > 1 ->
             FlushInode(d, [inode EXCEPT !.hard_link_count = @ - 1])

delete_file(inode_number) ==
  /\ alive
  /\ NoteRead(inode_number)
  /\ \E inode \in InodeRead(disk, inode_number) :
       /\ inode.hard_link_count = 1 =>
            DeletionsIn(disk, inode_number \div NUM_INODES_PER_GROUP) < MaxDeletions
       /\ disk' = DeletedDisk(disk, inode_number, inode)
  /\ UNCHANGED <<mp, created_file_descriptors, known, alive>>

(* Writes, where it means to read, the inode it has just declared.         *)
rename_file(inode_number) ==
  /\ alive
  /\ \E inode \in JunkInodes :
       disk' = FlushInode(write_inode_info(disk, inode_number, inode), inode)
  /\ undefined' = TRUE
  /\ UNCHANGED <<mp, created_file_descriptors, known, alive>>

(* Links are added whether or not there were any.                          *)
LinkedDisk(d, inode_number, inode) ==
  LET linked == [inode EXCEPT !.hard_link_count = @ + 1]
  IN  FlushInode(write_inode_info(d, inode_number, linked), linked)

increment_hard_link_count(inode_number) ==
  /\ alive
  /\ NoteRead(inode_number)
  /\ \E inode \in InodeRead(disk, inode_number) :
       /\ inode.hard_link_count < MaxLinks
       /\ disk' = LinkedDisk(disk, inode_number, inode)
  /\ UNCHANGED <<mp, created_file_descriptors, known, alive>>

Next ==
  \/ \E mode \in Modes, is_directory \in Kinds : create_file(mode, is_directory)
  \/ \E n \in known :
       \/ \E mode \in Modes : my_open(n, mode)
       \/ delete_file(n)
       \/ rename_file(n)
       \/ increment_hard_link_count(n)
  \/ \E fd \in 0 .. created_file_descriptors :
       \/ my_close(fd)
       \/ BadDescriptor(fd)
       \/ \E position \in Positions : my_file_system_seek(fd, position)
       \/ \E size \in 1 .. SizeLimit : my_file_system_read(fd, size)
       \/ \E payload \in Payloads : my_file_system_write(fd, payload)
       \/ \E payload \in AtPayloads, start_position \in Offsets :
            my_file_system_write_at(fd, start_position, payload)

Spec == Init /\ [][Next]_vars

-----------------------------------------------------------------------------

(* No inode and no descriptor that a handler writes back ever damages a    *)
(* descriptor or a bitmap, whatever uid and counts an uninitialized inode  *)
(* has and whatever its number.  The only thing that can is data written   *)
(* through such an inode's block list, and there the model has ended.      *)
MetadataHome == alive => MetadataAtHome(disk)

(* Every inode callers know of is on the disk under its own number, so     *)
(* that the destructor of a local copy returns it to where it was read.    *)
InodesNameThemselves ==
  ~undefined =>
    \A n \in known : InodeReadable(disk, n) /\ inode_at(disk, n).uid = n

OwnBlocks == UNION { DataRegion(g) : g \in Groups }

(* Two places in the block lists of files never name the same data block:  *)
(* what is not a block of its own is "none" (0), the answer of a group     *)
(* without free blocks (-1), or the overflow block of a full bitmap.       *)
NoSharedDataBlock ==
  ~undefined =>
    \A m, n \in known : \A j, k \in BlockIndex :
      LET b == inode_at(disk, m).blocks[j]
      IN  /\ \/ b \in OwnBlocks \cup {0, -1}
             \/ \E g \in Groups : b = ExhaustedBlock(g) /\ DataMapFull(disk, g)
          /\ (b \in OwnBlocks /\ b = inode_at(disk, n).blocks[k])
               => m = n /\ j = k

(* What a file holds is marked in the bitmaps, through deletion, further   *)
(* links and creation on top of it: no later allocation can hand it out.   *)
HeldIsMarked ==
  ~undefined =>
    \A n \in known, g \in Groups :
      /\ \A bit \in InodeBits :
           n = InodeNumber(g, bit) => bit \in inode_bitmap(disk, g).bits
      /\ \A bit \in DataBits, k \in BlockIndex :
           inode_at(disk, n).blocks[k] = DataBlock(g, bit)
             => bit \in block_bitmap(disk, g).bits

(* MyFile::file_size is "caching the file_size" (ex2.h:37), and every      *)
(* check of read, write and seek trusts it: the cached size is the size in *)
(* the inode as long as the bitmap has not overflowed.                     *)
CachedSizeIsCurrent ==
  ~undefined =>
    \A fd \in DOMAIN mp :
      LET n == mp[fd].inode_number
      IN  n \notin { ExhaustedInode(g) : g \in Groups }
            => mp[fd].file_size = inode_at(disk, n).file_size

(* Each call works on one file n: the records of all others stay as they   *)
(* are, and data only changes in blocks that n names now.  That is nothing *)
(* another file can see but for the overflow block: once the map is full   *)
(* files share that one, and a write to one changes what the others read.  *)
OneFileAtATime ==
  [][~undefined' =>
       \E n \in known' :
         /\ \A m \in known \ {n} : inode_at(disk', m) = inode_at(disk, m)
         /\ \A b \in DataBlockNumbers :
              disk'[b] # disk[b] => \E k \in BlockIndex : inode_at(disk', n).blocks[k] = b]_vars

Attached(d, n) == InodeReadable(d, n) /\ inode_at(d, n).hard_link_count > 0

(* A file is attached to its inode until delete_file takes the last link,  *)
(* and that is always accounted for in the descriptor of the group: no     *)
(* other handler ("This inode is not attached to a file!", ex2.cpp:464)    *)
(* lets an attached inode go.                                              *)
DetachedOnlyByDeletion ==
  [][\A n \in known :
       Attached(disk, n) /\ ~Attached(disk', n) =>
         LET g == n \div NUM_INODES_PER_GROUP
         IN  read_block_descriptor(disk', g) # read_block_descriptor(disk, g)]_vars

(* So it is of all handlers but rename_file, on every disk, until one of   *)
(* them works on an inode that it could not read.                          *)
FilesDetachedByDeletion ==
  [][~undefined' =>
       \A n \in known :
         Attached(disk, n) /\ ~Attached(disk', n) =>
           LET g == n \div NUM_INODES_PER_GROUP
           IN  read_block_descriptor(disk', g) # read_block_descriptor(disk, g)]_vars

(* A file loses bytes in two ways only: it is written through a descriptor *)
(* whose cached size is stale, and is then as long as that descriptor      *)
(* believes; or create_file takes the overflow inode once more.            *)
ShrinksOnlyWhenStale ==
  [][~undefined' =>
       \A n \in known :
         LET old_size == inode_at(disk, n).file_size
             new_size == inode_at(disk', n).file_size
         IN  new_size < old_size =>
               \/ \E g \in Groups : n = ExhaustedInode(g)
               \/ \E fd \in DOMAIN mp :
                    /\ mp[fd].inode_number = n
                    /\ mp[fd].file_size < new_size
                    /\ mp'[fd].file_size = new_size]_vars

Byte(d, n, at) ==
  retreive_block_disk_helper(d, inode_at(d, n).blocks[at \div BLOCK_SIZE])
    [at % BLOCK_SIZE]

(* A write that starts and ends in the block of the end of the file, seen  *)
(* from a current cached size and a position in that block, appends: all   *)
(* that the file held is still there and the buffer follows it.  A block a *)
(* write has skipped holds nothing, whatever is in it when it is taken.    *)
AppendsWithinBlock ==
  [][\A fd \in DOMAIN mp \cap DOMAIN mp' :
       LET n        == mp[fd].inode_number
           old_size == mp[fd].file_size
           new_size == mp'[fd].file_size
       IN  (/\ old_size < new_size
            /\ ~undefined'
            /\ old_size = inode_at(disk, n).file_size
            /\ old_size \div BLOCK_SIZE = (new_size - 1) \div BLOCK_SIZE
            /\ old_size \div BLOCK_SIZE
                 = (mp[fd].position + new_size - old_size - 1) \div BLOCK_SIZE
            /\ \/ old_size % BLOCK_SIZE = 0
               \/ inode_at(disk, n).blocks[old_size \div BLOCK_SIZE] # 0
            /\ inode_at(disk', n).blocks[old_size \div BLOCK_SIZE] \in OwnBlocks)
           => /\ \A at \in 0 .. old_size - 1 : Byte(disk', n, at) = Byte(disk, n, at)
              /\ \E payload \in Payloads :
                   /\ Len(payload) = new_size - old_size
                   /\ \A i \in DOMAIN payload :
                        Byte(disk', n, old_size + i - 1) = payload[i]]_vars

(* The inode of a file, without its place and its block list.              *)
FileRecord(inode) ==
  [links |-> inode.hard_link_count, size |-> inode.file_size,
   mode |-> inode.inode_mode, is_directory |-> inode.is_directory]

Store == INSTANCE FileStore
  WITH files  <- [n \in known |-> FileRecord(inode_at(disk, n))],
       opened <- { mp[fd].inode_number : fd \in DOMAIN mp }

(* Inodes, bitmaps and destructors: to callers that open no file twice the *)
(* file system is a store of files that change one at a time, whose sizes  *)
(* only grow, by writes, and whose numbers are never given out again.      *)
ImplementsFileStore == Store!Spec
===============================================================================
