# A formal model of the ex2 file system

The program in `src/` simulates an ext2-like file system on an image file: a
disk of 512-byte sectors, groups of inodes and data blocks with bitmaps and
descriptors, files with descriptors and cached sizes, and a small shell of
directories on top. This directory holds TLA+ modules that model it, TLC
configurations that check them, and theorems checked by TLAPS.

The program has one thread and handles one call at a time. What makes it hard is
elsewhere: structures are written to the disk by their destructors, at the end of
whatever scope they live in; memory is used that nobody has initialized; errors of the
layers below are mostly ignored; some handlers end the process with `exit()`; numbers
are computed in three different ways that have to agree; nothing is ever given back;
and every start formats the disk again, even after a crash in the middle of
formatting.

## Inventory

| part | source | state | operations |
|---|---|---|---|
| Disk, block helpers | `disk_simulator_manager/`, `helpers/` | the image file | read and write a sector; read and write a block of two sectors |
| Block group manager | `file_system_manager/block_group/` | none of its own: descriptors, two bitmaps per group, inodes, all on the disk | `find_first_empty_inode`, `find_first_empty_data_block`, `read_inode_info`, `write_inode_info`, `read_block_descriptor`, the write-back destructors, three `initialize_*` loops |
| EX2FILESYSTEM | `file_system_manager/ex2_interface/` | open descriptors (`mp`), the counter of descriptors | create, open, close, read, write, write_at, seek, delete, rename, add a link |
| Program start | `main.cpp` | none | format; run a demonstration session |
| BitMap | `data_structures/bitmap/` | words of 31 bits | set, unset, test, flip, lowest clear bit of a range |
| Shell | `shell_manager/` | the current directory | create a file or a directory, remove, hard link, soft link, change directory: directory entries are the contents of directory files |
| LinkedList | `data_structures/linked_list/` | two sentinels, links in the nodes | unlink, insert first or last, iterate, destroy |
| BufferPool | `buffer_pool/` | frames of memory, a free list, a map from blocks to frames | get, lock, free, flush; in no CMake target, called by nothing |

How they interact: the shell calls EX2FILESYSTEM, which calls the block group
manager and the block helpers; both reach the disk by the block number, and the
block number of an inode is computed from the inode number. The layers share no
memory but the disk. Calls are synchronous; the only way a lower layer reports
trouble is a return value that its caller, as a rule, does not look at. The
callbacks of the system are the destructors.

What makes each part correct:

* layout: two things with different names never have the same place;
* allocators: what is handed out has not been handed out before;
* manager: descriptors and bitmaps are never overwritten by anything else, and
  each continues to name its own place, since its destructor writes it there;
* files: no two share a block, a handler for one leaves the others alone, the
  cached size is the real one, a file is lost only by deletion;
* start: a session begins on a completely formatted disk, whatever was there, and
  what a kill leaves torn for good is a data block;
* bitmap: a set of indices;
* shell: an entry names the file it was made for and stays where it is; a file
  has a name; descriptors are closed; paths lead where their names say;
* list: links mirror each other, a node is in one list, loops keep to theirs;
* pool: a caller gets the block it asked for and finds in it what was read or
  written last, frames are neither shared nor lost.

`PROJECT.json` lists the hazards of the code line by line with the properties
that stand against each.

## Modules

| module | what it is |
|---|---|
| `DiskLayout` | constants of `shared_types.h`; where descriptors, bitmaps, inodes and data blocks live; 32-bit byte offsets and what reads and writes accept |
| `BlockGroup` | records on the disk and the manager's functions as operators from disk to disk |
| `SlotWalk` | the loop of `initialize_inodes` with the real constants, addresses only |
| `BlockDescriptorManager` | state machine over `BlockGroup`: disk, and histories of what both allocators returned |
| `FreshNumbers` | abstract specification: an allocator of numbered slots |
| `Ex2FileSystem` | state machine of the file system: disk, open descriptors |
| `FileStore` | abstract specification: files with links and sizes, open or not |
| `Shell` | state machine of the shell; extends `Ex2FileSystem`, whose operators on the disk its calls compose |
| `ListLinks` | LinkedList's functions on the links of all lists over a set of nodes |
| `LinkedList`, `NodeLists` | state machine of several lists and a loop; abstract specification: disjoint sequences |
| `BufferPool` | state machine of the pool; its free list is an instance of `ListLinks` |
| `BitMap`, `BitSet` | the template in words and masks; abstract specification: a set |
| `Mount` | formatting and the session's writes sector by sector, crashes and restarts |
| `MC...` | values for the constants of the runs |
| `...Theorems` | the proofs about `BlockGroup`, `BlockDescriptorManager`, `Ex2FileSystem`, `Shell`, `BitMap`, `LinkedList`, `Mount` and `BufferPool` |

**The disk** is a function from the readable blocks to records: a descriptor, a
bitmap (its set bits), an inode, or the cells of a data block. `Address` keeps
the width of the byte offset: in units of blocks it wraps at 2^22 and is
negative from 2^21 on. `populate_sector` compares with `DISK_SIZE`;
`write_sector` does not, so a write past the end grows the image where no read
looks, and a negative offset is refused by `lseek`. Both leave the readable
part alone, which is what `write_block_disk_helper` says.

**Destructors.** `FlushInode` and `FlushRecord` are the write-back destructors;
every handler applies them where a local leaves its scope, in C++ order, after
the writes made before. The bitmap of an allocation is written before the
descriptor that was read first.

**Handlers.** The program has one thread, so a handler is one action; its guard
lists the early returns and its disk is the chain of all writes it makes. A
handler that calls `exit()` sets `alive` to FALSE and, as `exit()` does not
unwind the stack, writes nothing.

**Uninitialized memory.** `read_inode_info` ignores a failed read, and
`rename_file` stores an inode it has just declared. What such an inode holds is
a choice from `JunkInodes`, on which nothing is assumed but the types of the fields:
any uid that fits its width, any size, negative ones included, any block list. The
variable `undefined` records that this has happened. Properties about files are
claimed for runs without it. The model itself ends, by `OutOfModel`, where a handler

* goes through an index outside `inode.blocks`, which a negative position or a
  negative size leads to, or
* would write data over a block that is a descriptor or bitmap, or is read as one
  (`Writes`, `ReadAsMetadata`), which a block list that was never initialized can name.

Both are open: what the program does from there on is anything. `MetadataHome` is
claimed of all writes up to there.

**Positions.** `my_file_system_seek` tests only `file_size < position`
(`ex2.cpp:361`), so negative positions are accepted; `Positions` may hold them and
`TypeOK` bounds positions from above only. `BLOCK_SIZE` is a `uint64_t`
(`shared_types.h:11`), so the position is converted before it is divided and the
quotient is cut back to an `int`: position -1 is in block -1 and at its last byte, as
`\div` and `%` say. A read from there, or a write that ends there, goes through
`inode.blocks[-1]`, which ends the model; a write that ends at 0 or behind it does not.

**Shell calls.** A call of the shell makes several calls of EX2FILESYSTEM. It is
one step as well, built as a record (`Call`) that goes through `Opened`, a read,
`Transfer`, `Closed`, `CreatedDisk`, `DeletedDisk` or `LinkedDisk` in the order
of the code, and stops at the one that ends the process. These are the operators
the handlers of `Ex2FileSystem` use: the shell works on the same disk, inode by
inode, and its entries are cells of data blocks that can be torn. A file name is
a number (`NameCode`) of a *path*, since a path is what the code stores.

**Lists and frames.** `ListLinks` does not know which list a node is in, just as
the code does not; sentinels are negative addresses, so that the null pointer,
nodes and sentinels can not be confused. `Looping` is `operator!=`
(`linked_list.tpp:156-159`), which compares addresses: a null pointer is not `end()`,
`operator++` keeps it (`:138`), and the loop stays there.

In `BufferPool` a frame's memory is the
header that the next frame's `MemoryBlock` has there: with frames `BLOCK_SIZE`
apart the two are the same bytes. Nodes come from `malloc` and no constructor is run
(`buffer_pool.cpp:27`, `:68`), so their `next` and `prev` are whatever was there, and
the first `unlink` follows them. They are null, or wild: `Init` and `GetForeign` have
both. `undefined` becomes TRUE when a wild pointer is followed, or a deleted node used
or left in the list, and the behaviour ends; so everything that is said of the pool is
said of runs in which `malloc` returned zeros for the nodes, as fresh memory from the
operating system is. The headers of the frames, from `malloc` too, are arbitrary.

**Names of numbers.** `InodeNumber` and `DataBlock` are the return expressions
of the two allocators, `ExhaustedInode` and `ExhaustedBlock` the same with the
bit -1 that a full bitmap gives and neither tests.

**Mutants.** An operator preceded by a comment that begins with "Mutant" is not
part of any specification: it is a changed form of the definition that follows
(a dropped guard, a lost write), kept to show that the properties notice.

## Runs

All runs explore their whole state space. Sizes are numbers of distinct states.

| run | checks | size |
|---|---|---|
| `slot_walk` | the addresses, with the code's constants, for every 16-bit uid | 65536 |
| `manager` | the manager: metadata, bookkeeping of the bitmaps, freshness; and `IInv`, the invariant of the proofs | 111356 |
| `two_files` | EX2FILESYSTEM with two files of three blocks that share one group's three data blocks, writes and `write_at`s of up to a whole file; against FileStore | 207550 |
| `two_descriptors` | EX2FILESYSTEM with one file open twice, links, both write handlers, positions from the byte before the file on | 483944 |
| `junk_inodes` | EX2FILESYSTEM where inode 5 and later can not be read and memory holds anything | 748664 |
| `bitmap` | BitMap against BitSet, all arguments | 14081 |
| `mount` | formatting and session writes with kills between any two sectors, twice | 77394 |
| `shell` | the shell: two names and a path, three creations, two links, two deletions; directories of one block of two entries | 14486 |
| `linked_list` | two lists over three nodes, loops with up to two changes in their bodies; against NodeLists; liveness | 3456 |
| `buffer_pool` | two frames, one from malloc, four blocks of which one can not be read | 2047996 |
| `rename`, `shell_block` | statements of the repository that the code does not keep (below) | |

**Bounds and why they are enough.** The small disk keeps the shape of the real one:
two groups (one in `two_files`); the front offset one less than the reserved blocks,
so that numbers are off by one in the same way; two inodes per area where a group has
six, so that areas outnumber groups, later inodes fall past the end of the image and
the last ones wrap to negative offsets (`OFFSET_SPAN` is 55 blocks for a disk of 45).
Bitmaps of six and two bits overflow within the bounds on calls, `COUNT_SPAN` is 7 so
that the count of free inodes wraps. `UID_SPAN` is what a uid's width is in the code:
24, more than the inodes there are. Blocks have two cells, so that a write of two
cells can cross a border, and cells have a value for "untouched", one for "written"
and one for "copied from who knows where". `MaxFiles`, `MaxOpens`, `MaxLinks`,
`MaxDeletions`, `MaxInodeCalls`, `MaxBlockCalls` and `MaxRestarts` bound counters that
have no bound of their own (or a very large one). Two files are enough for sharing,
two descriptors for staleness, two restarts for a crash in the repair of a crash.
`Positions`, what callers seek to, are -1 up to the largest size in `two_descriptors`,
from 0 in `two_files`, 0 elsewhere: -1 is in the block before the file, and positions
further down are in blocks before that one. In `junk_inodes` the disk has 32 blocks,
which puts the second file past its end. What memory shows there is a record of zeros,
one whose uid leads through the wrap of the offset to an empty slot, and one whose uid
leads to a data block, with a negative size; their block lists name a bitmap, a data
block, an inode that can be read, and a descriptor. `SessionBlocks` of `mount` are two
data blocks, an inode and a bitmap: what is written over at the next start and what is
not. `slot_walk` needs no small disk at all.

Assumptions of the runs: `two_files` sets `ExclusiveOpen`, callers that never
open a file twice. The shell is such a caller (`BetweenCalls`). Without it
neither `CachedSizeIsCurrent` nor `ImplementsFileStore` holds: a write through one
descriptor leaves the size cached by the other (`ex2.h:37`) behind, and the next
write through that one shrinks the file. `two_descriptors` is about what is left.
In `two_files` a write is three or six cells long, blocks have two: it may start in
one block and end two blocks later, and the group may run out in between. In the
other runs a write is one block at most, as in the program.
`write_at`, which nothing calls, is kept to positions where its block index, computed
with the wrong divisor, exists.

In `shell` an entry is two cells, and a directory is one block that holds two: no
entry crosses a block, the tree may be three levels deep, and a third creation in one
directory finds it full and ends the process (`ex2.cpp:215`). `shell_block` has blocks
of an entry and a half instead, as 1024 bytes hold 17 entries of 60 bytes and a
bit. The paths are `a`, `b` and `a/b`: a name found, a name missing, and a path
whose first name may be a file, a directory, a directory that was removed, or
nothing. The permissions include a directory nobody may read and a string with a
bad character. The maps of data blocks and inodes are not filled in this run.

Two nodes already show what unlinking a neighbour does, the third makes a list
that is longer on one side; two lists are what sharing takes. Two changes in a
loop's body are enough to take out the iterator's node and put it elsewhere.
Without the bound a body that puts the last node at the head for ever keeps the
loop going: bodies that do finitely much are assumed by `LoopEnds`. A body must not read the
data of its node once that is gone, for at a null pointer this is undefined; the
property says what the loop's own operators do.

Two frames, for eviction order, and three blocks that can be read, one more than
frames; block data ends in zeros or in six bytes that read as a header of a dirty
frame of the OS. The frames' memory starts with either, for malloc promises
nothing; nodes that hold anything but zeros end the behaviour.

**Deadlock.** It is checked in `manager`, `mount` and `bitmap`. The walk of
`SlotWalk` ends, EX2FILESYSTEM and the shell end with `exit()`, both lists may
have been destroyed, and nothing is said of a pool after undefined behaviour;
there it is not.

**Fairness.** `Mount` has `WF_vars(WriteSector)`. The formatting loops of
`main` and the loop over a block's sectors have no waiting in them, so while the
process lives they go on. Restarts
are not fair: crashes may or may not come, and the bound on them is what "if
the crashes stop" means in `EventuallyRunning`. `LinkedList` has
`WF_vars(Increment)`: a range-for loop that is running takes its next step once
its body is done, and bodies make finitely many changes. Nothing else in the
program waits for anything, so no other module claims liveness.

### Properties worth a second look

* `MetadataHome` says what write-backs can do: inodes that were never initialized are
  written to wherever their uid sends them, through the wrap of the offset too, and no
  uid of 16 bits reaches a descriptor or a bitmap (`InodesSpareMetadata`). It does not
  say that metadata is safe. Data written through the block list of such an inode can
  go over a bitmap, and there the model stops: `MetadataHome` names the only way.
* `OneFileAtATime` says that a call changes one file's record and data in that file's
  blocks only. That is not isolation: once a map of data blocks is full, all further
  files of the group are answered with the same block (`block_group.cpp:210`), and a
  write to one changes what the others read. `NoSharedDataBlock` names this block as
  the only one that is shared; the run `two_files` fills its map.
* `ShrinksOnlyWhenStale` is what is left of sizes that only grow when a file is open
  twice: exactly a write through a stale descriptor, or `create_file` on the overflow
  inode, takes bytes away.
* `FewTornBlocks` separates what the next start repairs from what it does not. A kill
  between the two sectors of a write leaves a block torn (`helpers.h:17-31`). Metadata
  and inodes are formatted before every session; a data block that a session was
  writing stays torn through all later starts.
* `HeldIsMarked` and `NoSharedDataBlock` rest on the fact that nothing is given
  back. `delete_file` could not be corrected by clearing bits alone: the mutant
  `delete_file_releasing` breaks them through `increment_hard_link_count`,
  which revives a deleted file.
* `BitmapsRecordEveryCall` says what the allocators do when the bitmap is full;
  `InodesFresh` and `BlocksFresh` include that as the abstract `GiveOverflow`.
* `SafeInodesSound` gives the number of files the image can hold: 612, not the
  31200 that `main.cpp:15` announces, for `get_starting_block_inode`
  (`block_group.cpp:5`) divides by `BLOCKS_PER_INODE`.
* `FormatsEverything` is about what formatting reaches. The data blocks are not
  among it: a new file's block holds an old file's bytes, which
  `my_file_system_write` keeps around what it writes.
* `ImplementsFileStore` is a claim about every handler at once: what it does with
  bitmaps, descriptors and destructors shows to callers as at most one of create,
  open, close, grow, link, unlink, or an end of the process that changes nothing.
* `OneNamePerFile` says what links are worth here: `create_hard_link` adds to a
  count, `create_soft_link` looks for the new name where it must not be and never
  gets to its entry, so no file ever has two names. A file without a name is what
  an `exit()` between the inode and the entry leaves.
* `BetweenCalls` holds although `read_directory_info` leaves a descriptor open for
  a file with contents that is no directory: no call of the shell reaches it with
  one, because what entries say of files stays true.
* `LoopKeepsToItsList` and `LoopEnds` are about the same loop. A body that takes the
  node away on which the iterator stands may lead the loop into another list, whose
  end sentinel has no next, or to a null pointer: it does not end there, it stays.
  Nothing else keeps a loop from its end.
* `DiesOnlyOverDirectories` is about the call that ends the process: `EndsTheWay` walks
  the names this call was given, and on that way a directory was removed, lacks a
  permission, or is full.
* `FoundByFreshName` holds in both directions, and so says two things nobody wants:
  what is created by a path of two names is stored under the whole path
  (`shell_manager.cpp:226`) and can not be found, and neither can a second file of
  a name, which nothing refuses.
* `LinkedByBothNames` says what `create_hard_link` looks for: the second path behind
  the first. A name that is missing gives a link to the directory it was looked for
  in (`shell_manager.cpp:383-385`), and the last name always is missing: nothing is
  ever found in a directory below the current one, for what is put there is stored
  under a path. So a file that is no directory never gets a link at all, and what
  was removed never comes back.
* `NoFrameLost` holds even when the map is wrong, and `FewBlocksCachedRight` says how
  long it is right: until more blocks have been asked for than there are frames. Then
  an evicted block's entry stays (`buffer_pool.cpp:86`), and the lock that "assumes
  that the block is currently cached" (`:39`) takes another block's frame. Being right
  includes the data: `contents` remembers what was last read or written for a frame's
  block, and all of it is still there but the one byte in which the next frame keeps
  its dirty flag. Frames overlap by a header (`:31`): `deleted` in `NoFrameLost` can
  be a frame of the pool that only looked as if it was the OS's.

### Disagreements found

* `rename`: `rename_file` (`ex2.cpp:460`) writes where it should read, and a file
  is gone.
* `shell_block`: "limited by the number of data blocks" (`block_group.h:80`), but
  from the 18th entry on a directory is damaged (`ex2.cpp:235`).

Others are stated by properties that hold, as the code has them: the number of
readable inodes (`SafeInodesSound`), the overflow of a full bitmap that is never
answered with "No vacant Inodes were found!" (`BitmapsRecordEveryCall`), the names
and links of the shell (`FoundByFreshName`, `LinkedByBothNames`).

## Proofs

Every theorem holds for all values of the constants that satisfy the assumptions
in the modules:

| assumption | says | evaluated by |
|---|---|---|
| `UidAssumption` | the numbers of all inodes fit the width of a uid | every run over `BlockGroup` |
| `LayoutAssumption`, `BlockGroupAssumption` | the areas fit on the disk, the front offset is at most one less than the reserved blocks, counts of free things fit their width | every run over `BlockGroup`; `slot_walk` for the code's values of the layout |
| `SlotAssumption` | no uid a field can hold, wrapped or not, reaches a descriptor, a bitmap, block 1 or the slot of another | runs over `BlockGroup`; `slot_walk` checks it for all 16-bit uids |
| `DataAssumption` | up to the first number of a group that can not be read, inodes are clear of data blocks and counted in a group that exists | runs over `Ex2FileSystem`; for the code's values these are the numbers up to 611, of which `SafeInodesSound` says it |
| `ShellAssumption` | paths are sequences of names that are paths themselves, and an entry fits into cells | the runs of `Shell` |
| `ManagerAssumption`, `Ex2Assumption`, `BitMapAssumption`, `ListsAssumption`, `ChangesAssumption`, `MountAssumption`, `PoolAssumption` | the sorts of the other constants | the runs of those modules |

What is proved, per module; in brackets the theorem.

**`BlockGroupTheorems`.** Two data blocks of different names, and two inode numbers,
are different (`DataBlocksApart`, `InodeNumbersApart`): a block has one area and one
place in it (`PlaceUnique`). The lemmas say what every operator does to a `Sound`
disk: a store elsewhere leaves the metadata alone, a flushed descriptor or bitmap
changes only itself, taking the lowest bit sets exactly that bit.

**`BlockDescriptorManagerTheorems`.** `IInv` (`Invariance`) gives the invariants of
the run, that no number is handed out by two groups (`GroupsStayApart`), and the two
refinements of `FreshNumbers`: a step of the manager is a `Give`, a `GiveOverflow` or
a stutter of each pool. The invariants that are checked are not inductive. `IInv` adds
`NoStrayDescriptor`: no block but a descriptor's holds a record that reads as one.
Without it the descriptor that `find_first_empty_data_block` reads for a group that
does not exist could carry the number of a real one's block, and its destructor would
write it there. (Block 0 is the exception: zeros read from such a group name block 0,
and go there.) It also ties the histories to the bitmaps through the numbering of bits
(`Recorded`).

**`Ex2FileSystemTheorems`.** `IInv` (`FileSystemInvariant`) has two halves. For every
run, `Records`: whatever record is on the disk names a place where it may be written,
so that no destructor reaches metadata that is not its own (`MetadataStaysHome`).
While nothing uninitialized was used, `Files`: the inode of a known number can be
read, is clear of data blocks and names itself, its blocks are holdable (0, -1, a
marked data block, or the overflow number of a full group) and nobody else's. It
gives `InodesStayHome`, `NoBlockIsShared` and `HeldStaysMarked`. There is a lemma per
handler; each says that the handler keeps `Records` and that it is one `Outcome`: at
most one file changes, and to what (`OneFileChanges` follows from `DiskStep`). Nothing
is assumed of `JunkInodes` but the types of the fields, and nothing of `Positions`:
`FileSystemTypes` and `MetadataStaysHome` are theorems about any memory and any seek,
up to the point where the model ends.

* `CachedSizesAreCurrent`, for `ExclusiveOpen`: the extra invariant is that no two
  descriptors are of one file. The property is not claimed of the number a full group
  answers with, which new files keep being written over.
* `FileSystemImplementsFileStore`, for `ExclusiveOpen`, `JunkInodes = {}` and
  `MaxFiles <= NUM_INODES_PER_GROUP`: callers that open nothing twice, disks on which
  the inodes asked for can be read, no more files than a group has inodes. These are
  the conditions of the run `two_files`, and the last two are what the code's own disk
  gives up to the 612th file. With `JunkInodes = {}` no `rename_file` is enabled: it
  always uses an inode that was never read.
* `OnlyDeletionDetaches` (`FilesDetachedByDeletion`), for any disk and any
  `JunkInodes`: until a handler uses memory nobody wrote, only a step that changes the
  count in the descriptor of the file's group takes its last link away, which is what
  `delete_file` does. The extra invariant is that every number in use has a group that
  exists: of a group that does not, `delete_file` would read zeros and count them down
  in block 0. The other handler that detaches a file is `rename_file`, which always
  uses such memory; with its steps counted in, the property is false (`rename`).
* `OnlyStaleWritesShrink` (`ShrinksOnlyWhenStale`), without any condition: it follows
  from what `Outcome` says of the size of the one file that a handler changes.
* `WritesAppend` (`AppendsWithinBlock`), without any condition: a write that starts and
  ends in the block of the end of the file puts the whole buffer behind what the file
  held, also through the second of two descriptors.
* The loops over blocks (`WriteWholeBlocks`, `Walk`) are recursive functions. What is
  needed of them for every number of blocks is proved without the induction theorems:
  if it fails for some number it fails for a least one (`LeastNatural`), which is not
  0 and whose predecessor contradicts it.

**`ShellTheorems`.** All six properties of the run `shell`, for any disk, paths,
permissions and sequence of calls: `ShellBetweenCalls`, `ShellOneNamePerFile`,
`ShellListingsKept`, `ShellDiesOnlyOverDirectories`, `ShellFindsFreshNames` and
`ShellLinkedByBothNames`. Their hypothesis is `EnoughRoom`: the entries of all files
there may be fit into one block, all inodes come from the first group, that group's
count of free inodes does not reach 0, and no group is asked for more data blocks than
it has. With the code's constants these are 18 files and 7799 deletions; with more
entries in one directory `ListingsKept` is false (`shell_block`). Under it no directory
is ever full, so that case of `DiesOnlyOverDirectories` does not occur in the theorem;
the run `shell`, with one file more than that and directories of a single block,
reaches it. That theorem is proved along the names of the call: where the way of a call
halts is a directory of which the property speaks (`HaltsOnTheWay`).

The invariant, `TreeInv` (`ShellKeepsTree`), adds to `Records` and `Files` of
`Ex2FileSystem` what the disk looks like to the shell:

* numbers were given out in order (`NumbersInOrder`), counts are not used up
  (`CountsLeft`), and a group has given no more data blocks than it has files with
  contents (`OneBlockEach`), so an allocation always finds what it looks for;
* a directory with a link is whole entries in a block of its own (`WholeEntries`);
* an entry is of a file made after its directory and says truly whether that is a
  directory (`EntriesHold`), no two are of one file (`EntriesApart`), and, unless a
  directory was removed, every file has one (`AllNamed`), up to the one that an
  `exit()` left between its inode and its entry;
* names alone are only in the directory the shell stands in and in those it came
  through, which have smaller numbers. This is why a lookup goes one directory deep at
  most: what is made further down is stored under its path. `FoundByFreshName` and
  `LinkedByBothNames` rest on it.

A call is proved along its record: each stage (an open, a read of a directory, a walk,
an appended entry, a new file, a deletion, a link) keeps `Tree` of the disk so far, and
the lemma of a call puts the stages in its order. What a new entry does to the cells of
its block follows from the lemmas about `Transfer` that `WritesAppend` uses.

**`BitMapTheorems`.** `SpareBitsStayClear`, `BitMapTypes`, and `BitMapImplementsBitSet`
for every size of the map and of its words: an index is a word and a position in it
and these are unique, and the search by words and masks finds the least clear index
of the range or -1, as the abstract set says.

**`LinkedListTheorems`.** `LInv` (`LinksInOrder`) says that there are an owner and a
rank for all nodes such that links mirror each other, lead within one owner, and the
rank grows along `next`. The three functions of the list keep it: unlinking takes the
owner away, insertion doubles all ranks to make room for one. From it, for any number
of lists and nodes: `LinkedListTypes`, `LinksMirrored`, `DestructorsFreeTheirOwn`
(`ListsApart`) and `LoopStaysInItsList`. The rank replaces the path that the recursive
definition of a list's contents follows.

**`MountTheorems`.** `MInv` (`FormattingInvariant`): what `main` has passed is as it
formats it, until the session writes it, unless it is being written at this moment;
what is torn and formatted is still to be written, or is being written; and torn blocks
are at most as many as restarts, and the one being written. `TornBlocksAreFew` and
`FormattingIsComplete` follow, whatever was on the disk, whatever a session writes
and however often the process is killed.

**`BufferPoolTheorems`.** `PInv` (`PoolInvariant`) takes `LinkedListTheorems` as an
instance for the free list. What it says of the list and the map is claimed as long as
`undefined` is FALSE, which takes nodes that malloc filled with zeros. A frame of the
pool is in the free list, or of a block still held, or `free` took it for the OS's,
even when the map is wrong (`NoFrameIsLost`). While no more blocks have been asked for
than there are frames, map and frames agree, frames hold what was last read or written
but for the byte of the next one's dirty flag, and the frames never used stay ahead of
all others in the order of eviction; that there is one left for a new block is the
pigeonhole principle. So blocks are cached right until then (`FewBlocksAreRight`).

`PROJECT.json` lists the theorems with the properties they state.

**Only model-checked.**

* Liveness (`EventuallyRunning`, `LoopEnds`): the prover does not handle fairness.
* `ImplementsNodeLists`: the mapping follows `next` to build a sequence and selects
  from it; it takes recursion on sequences.
* `SlotWalk`: its constants are the code's own and the run covers every uid, so there
  is nothing left to generalise.

## Not modelled, and why

* `write_file` and `read_file` of the shell: declared, not defined. Its names too
  long for an entry, and empty ones; `mask_permissions` of entries.
* `size()` of a list: its member is never set. The data in nodes.
* The demonstration of `main.cpp` as a program of its own: its calls are calls of
  the shell.
* Time stamps, `used_dirs_count`, access groups, names inside inodes: written,
  never read back by anything that decides.
* The super block's contents: written once and read once, used by nothing.
* Block indices outside `inode.blocks`: undefined behaviour. `write_at`, which has no
  caller, is kept away from them; other handlers end the model there.
* What data written over a descriptor or a bitmap does, through the block list of an
  inode that was never initialized: no property is claimed from there on.
* A pool whose nodes hold anything but zeros when malloc returns them.
* Tests and build files.

## What could come next

Every component that runs is modelled, and every safety property that the runs of its
state machine check is a theorem but `ImplementsNodeLists`. Three things would say more:

1. The shell's theorems for directories of several blocks, on disks whose blocks are a
   multiple of an entry. `WholeEntries` would have to say which block an entry is in,
   and `OneBlockEach` to count by size.
2. What the entries in a removed directory say: `OneNamePerFile` claims nothing once a
   directory was removed, and `TreeInv` speaks of directories that have a link.
3. `ImplementsNodeLists`, if the mapping is restated with the ranks of `LInv` in place
   of the recursion along `next`.
