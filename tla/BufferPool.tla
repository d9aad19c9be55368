------------------------------ MODULE BufferPool ------------------------------
(***************************************************************************)
(* BufferPool (buffer_pool.cpp): num_blocks frames of memory, a free list  *)
(* of them and a map from block numbers to the frames they were read into. *)
(* Blocks are got, written to by their holders, and freed.                 *)
(*                                                                         *)
(* Frames lie BLOCK_SIZE bytes apart, but a MemoryBlock has a header of    *)
(* six bytes before its data: the last six bytes of the data in frame f    *)
(* are the header of frame f + 1.  slot[f] is that memory, the rest of the *)
(* data is left out, and a block of the disk is known by its last bytes.   *)
(* Frames are numbered from 1; those malloc'd when the free list is empty  *)
(* come after the pool's, two numbers apart, for they have no neighbours.  *)
(* The node of frame f in the free list is f.                              *)
(*                                                                         *)
(* Memory fresh from malloc holds one of UninitializedHeaders.  A node's   *)
(* next and prev come from malloc too, no constructor is run, and the      *)
(* node's first unlink follows them: they are null, or wild.  undefined    *)
(* says that a wild pointer has been followed, or a deleted node used or   *)
(* left in the list, and ends the behaviour: what is said of the pool is   *)
(* said of runs in which malloc happened to return zeros for the nodes.    *)
(* Bound: MaxForeign, on the frames made when the free list is empty.      *)
(***************************************************************************)
EXTENDS Integers, FiniteSets

CONSTANTS
  num_blocks,
  NUM_DISK_BLOCKS,        \* NUM_SECTORS / (BLOCK_SIZE / SECTOR_SIZE)
  MissingBlocks,          \* those the image is too short for
  Headers,                \* what the last six bytes of a block can mean
  UninitializedHeaders,
  MaxForeign

DiskBlocks    == 0 .. NUM_DISK_BLOCKS - 1
PoolFrames    == 1 .. num_blocks
ForeignFrames == { num_blocks + 2 * i : i \in 1 .. MaxForeign }
Frames        == PoolFrames \cup ForeignFrames
Slots         == Frames \cup { f + 1 : f \in Frames }

MemoryHeader == [block_number : Int, os_operated : BOOLEAN, is_dirty : BOOLEAN]

ASSUME PoolAssumption ==
  /\ num_blocks \in Nat \ {0}
  /\ MaxForeign \in Nat
  /\ NUM_DISK_BLOCKS \in Nat \ {0}
  /\ MissingBlocks \subseteq DiskBlocks
  /\ Headers \subseteq MemoryHeader
  /\ UninitializedHeaders \subseteq Headers

free_list == 1

INSTANCE ListLinks WITH Lists <- {free_list}, Nodes <- Frames

VARIABLES
  disk,
  slot,
  links,                \* of the free list
  mp_block_list_node,
  held,                 \* blocks got and not freed since
  deleted,              \* frames whose node free has deleted
  cached,               \* history: the block last read into a frame, or none
  contents,             \* history: what a pool frame was last filled with
  undefined

vars == <<disk, slot, links, mp_block_list_node, held, deleted, cached, contents,
          undefined>>

none == -1

TypeOK ==
  /\ disk \in [DiskBlocks -> MemoryHeader]
  /\ slot \in [Slots -> MemoryHeader]
  /\ undefined \/ links \in Links
  /\ mp_block_list_node \in [DOMAIN mp_block_list_node -> Frames]
  /\ held \subseteq DOMAIN mp_block_list_node
  /\ DOMAIN mp_block_list_node \subseteq DiskBlocks \ MissingBlocks
  /\ deleted \subseteq Frames
  /\ cached \in [Frames -> DiskBlocks \cup {none}]
  /\ contents \in [PoolFrames -> MemoryHeader]
  /\ undefined \in BOOLEAN

-----------------------------------------------------------------------------

(* allocate_memory_regions                                                 *)
Init ==
  LET filled[f \in 0 .. num_blocks] ==
        IF f = 0 THEN NewLinks ELSE insert_tail(filled[f - 1], free_list, f)
  IN  /\ disk \in [DiskBlocks -> Headers]
      /\ slot \in [Slots -> UninitializedHeaders]
      /\ \/ links = filled[num_blocks] /\ undefined = FALSE
         \/ links = NewLinks /\ undefined = TRUE
      /\ mp_block_list_node = << >>
      /\ held = {}
      /\ deleted = {}
      /\ cached = [f \in Frames |-> none]
      /\ contents = [f \in PoolFrames |-> slot[f + 1]]

(* Mutant: the frame freed last is the first to be evicted.                *)
get_victim_newest == get_head(links, free_list)

get_victim == get_tail(links, free_list)

(* force_flush_memory_block: to the block the header names, unless that is *)
(* -1; a negative offset is refused, a block past the end grows the image. *)
Flushes(memory, f) == memory[f].block_number # -1 /\ memory[f].is_dirty

FlushedDisk(memory, f) ==
  IF Flushes(memory, f) /\ memory[f].block_number \in DiskBlocks
  THEN [disk EXCEPT ![memory[f].block_number] = memory[f + 1]]
  ELSE disk

FlushedSlots(memory, f) ==
  IF Flushes(memory, f) THEN [memory EXCEPT ![f].is_dirty = FALSE] ELSE memory

FlushFails(memory, f) == Flushes(memory, f) /\ memory[f].block_number < 0

Filled(f, header) ==
  contents' = IF f \in PoolFrames THEN [contents EXCEPT ![f] = header] ELSE contents

(* lock: unlink on the block's node, whether or not it is linked.          *)
lock(f) == links' = unlink(links, free_list, f)

(* A block in the map is where the map says, evicted or not.               *)
GetCached(block_number) ==
  LET f == mp_block_list_node[block_number]
  IN  /\ ~undefined
      /\ block_number \in DOMAIN mp_block_list_node
      /\ undefined' = (f \in deleted)
      /\ lock(f)
      /\ held' = held \cup {block_number}
      /\ UNCHANGED <<disk, slot, mp_block_list_node, deleted, cached, contents>>

(* Mutant: the status of the read is ignored.                              *)
Load_unchecked(block_number, f, memory, wild) ==
  /\ disk' = FlushedDisk(memory, f)
  /\ slot' = FlushedSlots(memory, f)
  /\ mp_block_list_node' =
       [b \in DOMAIN mp_block_list_node \cup {block_number} |->
          IF b = block_number THEN f ELSE mp_block_list_node[b]]
  /\ lock(f)
  /\ held' = held \cup {block_number}
  /\ cached' = [cached EXCEPT ![f] = block_number]
  /\ undefined' = wild
  /\ UNCHANGED <<deleted, contents>>

(* What get does to a frame of the pool or a foreign one, whose node has   *)
(* wild links or not.  A missing block is given up after the flush, the    *)
(* frame staying where it was.                                             *)
Load(block_number, f, memory, wild) ==
  LET flushed == FlushedDisk(memory, f)
  IN  /\ disk' = flushed
      /\ UNCHANGED deleted
      /\ \/ /\ block_number \in MissingBlocks
            /\ slot' = FlushedSlots(memory, f)
            /\ UNCHANGED <<links, mp_block_list_node, held, cached, contents, undefined>>
         \/ /\ block_number \notin MissingBlocks
            /\ slot' = [FlushedSlots(memory, f) EXCEPT ![f + 1] = flushed[block_number]]
            /\ mp_block_list_node' =
                 [b \in DOMAIN mp_block_list_node \cup {block_number} |->
                    IF b = block_number THEN f ELSE mp_block_list_node[b]]
            /\ lock(f)
            /\ held' = held \cup {block_number}
            /\ cached' = [cached EXCEPT ![f] = block_number]
            /\ Filled(f, flushed[block_number])
            /\ undefined' = wild

GetEvicting(block_number) ==
  /\ ~undefined
  /\ block_number \notin DOMAIN mp_block_list_node
  /\ get_victim # null
  /\ Load(block_number, get_victim, slot, FALSE)

GetForeign(block_number) ==
  /\ ~undefined
  /\ block_number \notin DOMAIN mp_block_list_node
  /\ get_victim = null
  /\ \E f \in ForeignFrames, wild \in BOOLEAN :
       /\ \A b \in DOMAIN mp_block_list_node : mp_block_list_node[b] # f
       /\ Load(block_number, f, [slot EXCEPT ![f].os_operated = TRUE], wild)

(* Mutant: what was got is not put back into the free list.                *)
free_forgetful(block_number) ==
  LET f == mp_block_list_node[block_number]
  IN  /\ ~undefined
      /\ block_number \in held
      /\ held' = held \ {block_number}
      /\ UNCHANGED <<mp_block_list_node, deleted, disk, slot, links, undefined, cached,
                     contents>>

(* A frame that says it is the OS's is flushed and its node deleted, the   *)
(* map keeping the pointer; any other goes to the front of the free list.  *)
free(block_number) ==
  LET f == mp_block_list_node[block_number]
  IN  /\ ~undefined
      /\ block_number \in held
      /\ UNCHANGED <<mp_block_list_node, cached, contents>>
      /\ \/ /\ f \in deleted
            /\ undefined' = TRUE
            /\ UNCHANGED <<disk, slot, links, held, deleted>>
         \/ /\ f \notin deleted /\ slot[f].os_operated
            /\ disk' = FlushedDisk(slot, f)
            /\ slot' = FlushedSlots(slot, f)
            /\ IF FlushFails(slot, f)
               THEN UNCHANGED <<held, deleted, undefined>>
               ELSE /\ held' = held \ {block_number}
                    /\ deleted' = deleted \cup {f}
                    /\ undefined' = (f \in Reached(links, head(free_list)))
            /\ UNCHANGED links
         \/ /\ f \notin deleted /\ ~slot[f].os_operated
            /\ links' = insert_head(links, free_list, f)
            /\ held' = held \ {block_number}
            /\ UNCHANGED <<disk, slot, deleted, undefined>>

(* A holder fills its block and says so: nothing in the pool ever does.    *)
WriteHeld(block_number) ==
  LET f == mp_block_list_node[block_number]
  IN  /\ ~undefined
      /\ block_number \in held
      /\ \E header \in Headers :
           /\ slot' = [slot EXCEPT ![f].is_dirty = TRUE, ![f + 1] = header]
           /\ Filled(f, header)
      /\ UNCHANGED <<disk, links, mp_block_list_node, held, deleted, cached, undefined>>

force_flush_memory_block(block_number) ==
  LET f == mp_block_list_node[block_number]
  IN  /\ ~undefined
      /\ block_number \in held
      /\ disk' = FlushedDisk(slot, f)
      /\ slot' = FlushedSlots(slot, f)
      /\ UNCHANGED <<links, mp_block_list_node, held, deleted, cached, contents,
                     undefined>>

Next ==
  \E b \in DiskBlocks :
    \/ GetCached(b)
    \/ GetEvicting(b)
    \/ GetForeign(b)
    \/ free(b)
    \/ WriteHeld(b)
    \/ force_flush_memory_block(b)

Spec == Init /\ [][Next]_vars

-----------------------------------------------------------------------------

Listed == Reached(links, head(free_list)) \cap Frames

(* The memory is as it was last filled, except for one byte: the next      *)
(* frame's dirty flag lies over it.                                        *)
HoldsContents(f) ==
  /\ slot[f + 1].block_number = contents[f].block_number
  /\ slot[f + 1].os_operated = contents[f].os_operated

(* As long as no more blocks have been asked for than there are frames the *)
(* map is right: every block has a frame of the pool to itself, was the    *)
(* last to be read into it, and its frame holds what was read from the     *)
(* disk or written by its holder last, but for that one byte.  It takes    *)
(* the frames never used to be evicted before those that were freed.       *)
FewBlocksCachedRight ==
  ~undefined /\ Cardinality(DOMAIN mp_block_list_node) <= num_blocks =>
    \A b \in DOMAIN mp_block_list_node :
      LET f == mp_block_list_node[b]
      IN  /\ f \in PoolFrames
          /\ cached[f] = b
          /\ \A c \in DOMAIN mp_block_list_node : mp_block_list_node[c] = f => c = b
          /\ HoldsContents(f)

(* No frame gets lost, not even through entries of the map that point to   *)
(* other blocks' frames: one that is not in the free list belongs to a     *)
(* block still held, whose free will bring it back, or free took it for    *)
(* the OS's.                                                               *)
NoFrameLost ==
  ~undefined =>
    \A f \in PoolFrames :
      \/ f \in Listed
      \/ f \in deleted
      \/ \E b \in held : mp_block_list_node[b] = f
===============================================================================
