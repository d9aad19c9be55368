-------------------------- MODULE BufferPoolTheorems --------------------------
(***************************************************************************)
(* BufferPool, for any number of frames and blocks: no frame gets lost,    *)
(* and the map is right until more blocks were asked for than there are    *)
(* frames.                                                                 *)
(***************************************************************************)
EXTENDS BufferPool, FiniteSetTheorems, TLAPS

(* The free list as the only one of LinkedList's, with nothing destroyed.  *)
FreeList == INSTANCE LinkedListTheorems
  WITH Lists <- {free_list}, Nodes <- Frames, MaxChanges <- 0, destroyed <- {}, freed <- {},
       iterated <- free_list, curr_node <- null, changes <- 0, disturbed <- FALSE

Ordered(k, owner, rank) == FreeList!InOrder(k, {}, {}, owner, rank)

(* The frames in the free list.                                            *)
Free(k, owner) == { f \in Frames : owner[f] = free_list /\ k.prev[f] # null }

LEMMA FramesNumbered ==
  /\ num_blocks \in Nat /\ num_blocks # 0 /\ MaxForeign \in Nat
  /\ PoolFrames \subseteq Frames /\ ForeignFrames \subseteq Frames
  /\ PoolFrames \cap ForeignFrames = {}
  /\ Frames \subseteq Nat \ {0}
  /\ \A f \in Frames : f \in Slots /\ f + 1 \in Slots /\ f # f + 1
  /\ IsFiniteSet(PoolFrames) /\ Cardinality(PoolFrames) = num_blocks
  /\ IsFiniteSet(Frames)
<1>1. num_blocks \in Nat /\ num_blocks # 0 /\ MaxForeign \in Nat
  BY PoolAssumption
<1>2. \A i \in 1 .. MaxForeign : num_blocks + 2 * i \in Nat /\ num_blocks + 2 * i > num_blocks
  BY <1>1
<1>3. \A f \in ForeignFrames : f \in Nat /\ f > num_blocks
  BY <1>2 DEF ForeignFrames
<1>4. \A f \in PoolFrames : f \in Nat /\ f # 0 /\ f <= num_blocks
  BY <1>1 DEF PoolFrames
<1>5. PoolFrames \cap ForeignFrames = {}
  BY <1>1, <1>3, <1>4
<1>6. Frames \subseteq Nat \ {0}
  BY <1>1, <1>3, <1>4 DEF Frames
<1>7. \A f \in Frames : f \in Slots /\ f + 1 \in Slots /\ f # f + 1
  BY <1>6 DEF Slots
<1>8. IsFiniteSet(PoolFrames) /\ Cardinality(PoolFrames) = num_blocks
  <2>1. 1 \in Int /\ num_blocks \in Int /\ 1 <= num_blocks + 1
    BY <1>1
  <2>2. IsFiniteSet(1 .. num_blocks) /\ Cardinality(1 .. num_blocks) = num_blocks - 1 + 1
    BY <1>1, <2>1, FS_Interval
  <2> QED BY <1>1, <2>2 DEF PoolFrames
<1>9. IsFiniteSet(ForeignFrames)
  <2>1. IsFiniteSet(1 .. MaxForeign)
    BY <1>1, FS_Interval
  <2>2. PICK f : f = [i \in 1 .. MaxForeign |-> num_blocks + 2 * i]
    OBVIOUS
  <2>3. f \in Surjection(1 .. MaxForeign, ForeignFrames)
    BY <2>2 DEF Surjection, ForeignFrames
  <2> QED BY <2>1, <2>3, FS_Surjection
<1>10. IsFiniteSet(Frames)
  BY <1>8, <1>9, FS_Union DEF Frames
<1> QED BY <1>1, <1>5, <1>6, <1>7, <1>8, <1>10 DEF Frames

-----------------------------------------------------------------------------

(* The free list is a list with the frames as its nodes, so the lemmas of  *)
(* LinkedListTheorems hold of it, and its functions are LinkedList's.      *)
LEMMA FreeListAssumption == FreeList!ListsAssumption
<1>1. FreeList!IsFiniteSet({free_list}) /\ FreeList!IsFiniteSet(Frames)
  BY FramesNumbered, FS_Singleton DEF FreeList!IsFiniteSet, IsFiniteSet
<1> QED BY <1>1, FramesNumbered DEF FreeList!ListsAssumption, free_list

(* So its lemmas hold, the one on least elements among them.               *)
LEMMA LeastNatural ==
  ASSUME NEW S, S \subseteq Nat, S # {}
  PROVE  \E n \in S : \A m \in S : n <= m
<1>1. FreeList!ListsAssumption /\ FreeList!ChangesAssumption
  BY FreeListAssumption DEF FreeList!ChangesAssumption
<1> QED BY <1>1, FreeList!LeastNatural

LEMMA FreeListFunctions ==
  ASSUME NEW k, NEW f
  PROVE  /\ FreeList!unlink(k, free_list, f) = unlink(k, free_list, f)
         /\ FreeList!insert_head(k, free_list, f) = insert_head(k, free_list, f)
         /\ FreeList!insert_tail(k, free_list, f) = insert_tail(k, free_list, f)
         /\ FreeList!get_tail(k, free_list) = get_tail(k, free_list)
         /\ FreeList!Reached(k, FreeList!head(free_list)) = Reached(k, head(free_list))
         /\ FreeList!NewLinks = NewLinks
         /\ FreeList!Links = Links
         /\ FreeList!Addresses = Addresses
         /\ FreeList!null = null
         /\ FreeList!head(free_list) = head(free_list)
         /\ FreeList!tail(free_list) = tail(free_list)
<1>1. /\ FreeList!unlink(k, free_list, f) = unlink(k, free_list, f)
      /\ FreeList!null = null
      /\ FreeList!head(free_list) = head(free_list)
      /\ FreeList!tail(free_list) = tail(free_list)
  BY DEF FreeList!unlink, unlink, FreeList!Stored, Stored, FreeList!null, null,
         FreeList!head, FreeList!tail, head, tail
<1>2. \A a, b, c, e : FreeList!insert_helper(a, b, c, e) = insert_helper(a, b, c, e)
  BY DEF FreeList!insert_helper, insert_helper, FreeList!null, null
<1>3. FreeList!insert_head(k, free_list, f) = insert_head(k, free_list, f)
  BY <1>1, <1>2 DEF FreeList!insert_head, insert_head
<1>4. FreeList!insert_tail(k, free_list, f) = insert_tail(k, free_list, f)
  BY <1>1, <1>2 DEF FreeList!insert_tail, insert_tail
<1>5. FreeList!get_tail(k, free_list) = get_tail(k, free_list)
  BY <1>1 DEF FreeList!get_tail, get_tail
<1>6. FreeList!Addresses = Addresses
  BY DEF FreeList!Addresses, Addresses, FreeList!Sentinels, Sentinels,
         FreeList!head, FreeList!tail, head, tail
<1>7. FreeList!Links = Links
  BY <1>1, <1>6 DEF FreeList!Links, Links
<1>8. FreeList!NewLinks = NewLinks
  BY <1>6 DEF FreeList!NewLinks, NewLinks, FreeList!head, FreeList!tail, head, tail,
              FreeList!null, null
<1>9. FreeList!Cardinality(Addresses) = Cardinality(Addresses)
  BY DEF FreeList!Cardinality, Cardinality
<1>10. FreeList!Reached(k, FreeList!head(free_list)) = Reached(k, head(free_list))
  BY <1>1, <1>6, <1>9 DEF FreeList!Reached, Reached, FreeList!Walk, Walk
<1> QED BY <1>1, <1>3, <1>4, <1>5, <1>6, <1>7, <1>8, <1>10

-----------------------------------------------------------------------------

(* lock takes a frame out of the free list.                                *)
LEMMA LockTakesOut ==
  ASSUME NEW k, NEW owner, NEW rank, Ordered(k, owner, rank), NEW f \in Frames,
         NEW u, u = unlink(k, free_list, f)
  PROVE  Ordered(u, owner, rank) /\ Free(u, owner) = Free(k, owner) \ {f}
<1>1. free_list \in {free_list} /\ f \in Frames \ {} /\ FreeList!ListsAssumption
  BY FreeListAssumption
<1>2. u = FreeList!unlink(k, free_list, f)
  BY FreeListFunctions
<1>3. /\ Ordered(u, owner, rank)
      /\ u.prev[f] = FreeList!null
      /\ \A a \in FreeList!Addresses \ ({} \cup {f}) :
           u.prev[a] = FreeList!null <=> k.prev[a] = FreeList!null
  BY <1>1, <1>2, FreeList!UnlinkInOrder DEF Ordered
<1>4. FreeList!null = null /\ Frames \subseteq FreeList!Addresses
  BY FreeListFunctions DEF FreeList!Addresses
<1> QED BY <1>3, <1>4 DEF Free

(* insert_head puts it in before all others and leaves their order.        *)
LEMMA FreePutsFirst ==
  ASSUME NEW k, NEW owner, NEW rank, Ordered(k, owner, rank), NEW f \in Frames,
         NEW u, u = insert_head(k, free_list, f)
  PROVE  \E o, r :
           /\ Ordered(u, o, r)
           /\ Free(u, o) = Free(k, owner) \cup {f}
           /\ \A x, y \in Frames \ {f} : r[x] < r[y] <=> rank[x] < rank[y]
           /\ \A x \in Free(k, owner) \ {f} : r[f] < r[x]
<1>1. /\ free_list \in {free_list} \ {} /\ f \in Frames \ {} /\ FreeList!ListsAssumption
      /\ FreeList!null = null /\ Frames \subseteq FreeList!Addresses
  BY FreeListAssumption, FreeListFunctions DEF FreeList!Addresses
<1>2. u = FreeList!insert_head(k, free_list, f)
  BY FreeListFunctions
<1>3. PICK o, r :
        /\ Ordered(u, o, r)
        /\ o[f] = free_list /\ u.prev[f] # FreeList!null
        /\ \A x \in FreeList!Addresses \ ({} \cup {f}) :
             o[x] = owner[x] /\ (u.prev[x] = FreeList!null <=> k.prev[x] = FreeList!null)
        /\ \A x, y \in FreeList!Addresses \ {f} : r[x] < r[y] <=> rank[x] < rank[y]
        /\ \A x \in FreeList!InList(k, {}, owner, free_list) \ {f} : r[f] < r[x]
  BY <1>1, <1>2, FreeList!InsertHeadFirst DEF Ordered
<1>4. Free(u, o) = Free(k, owner) \cup {f}
  BY <1>1, <1>3 DEF Free
<1>5. Free(k, owner) \subseteq FreeList!InList(k, {}, owner, free_list)
  BY <1>1 DEF Free, FreeList!InList
<1>6. \A x, y \in Frames \ {f} : r[x] < r[y] <=> rank[x] < rank[y]
  BY <1>1, <1>3
<1> QED BY <1>3, <1>4, <1>5, <1>6

(* insert_tail puts it in as well.                                       *)
LEMMA TailPutsIn ==
  ASSUME NEW k, NEW owner, NEW rank, Ordered(k, owner, rank), NEW f \in Frames,
         NEW u, u = insert_tail(k, free_list, f)
  PROVE  \E o, r : Ordered(u, o, r) /\ Free(u, o) = Free(k, owner) \cup {f}
<1>1. /\ free_list \in {free_list} \ {} /\ f \in Frames \ {} /\ FreeList!ListsAssumption
      /\ FreeList!null = null /\ Frames \subseteq FreeList!Addresses
  BY FreeListAssumption, FreeListFunctions DEF FreeList!Addresses
<1>2. u = FreeList!insert_tail(k, free_list, f)
  BY FreeListFunctions
<1>3. FreeList!Put(k, u, {}, {}, owner, free_list, f)
  BY <1>1, <1>2, FreeList!InsertTailPuts DEF Ordered
<1>4. PICK o, r :
        /\ Ordered(u, o, r)
        /\ o[f] = free_list /\ u.prev[f] # FreeList!null
        /\ \A x \in FreeList!Addresses \ ({} \cup {f}) :
             o[x] = owner[x] /\ (u.prev[x] = FreeList!null <=> k.prev[x] = FreeList!null)
  BY <1>3 DEF FreeList!Put, Ordered
<1>5. Free(u, o) = Free(k, owner) \cup {f}
  BY <1>1, <1>4 DEF Free
<1> QED BY <1>4, <1>5

(* The victim of an eviction is a free frame, the last of them, and there  *)
(* is none only when no frame is free.                                     *)
LEMMA VictimIsLast ==
  ASSUME NEW k, NEW owner, NEW rank, Ordered(k, owner, rank),
         NEW v, v = get_tail(k, free_list)
  PROVE  /\ v = null => Free(k, owner) = {}
         /\ v # null => /\ v \in Free(k, owner)
                        /\ \A f \in Free(k, owner) : rank[f] <= rank[v]
<1>1. /\ free_list \in {free_list} \ {} /\ FreeList!ListsAssumption
      /\ FreeList!null = null /\ Frames \subseteq FreeList!Addresses
  BY FreeListAssumption, FreeListFunctions DEF FreeList!Addresses
<1>2. v = FreeList!get_tail(k, free_list)
  BY FreeListFunctions
<1>3. PICK T, t : T = FreeList!InList(k, {}, owner, free_list) /\ t = FreeList!tail(free_list)
  OBVIOUS
<1>4. /\ v = null => T = {t}
      /\ v # null => v \in T \cap Frames /\ \A b \in T \ {t} : rank[b] <= rank[v]
  BY <1>1, <1>2, <1>3, FreeList!GetTailIsLast DEF Ordered
<1>5. t \notin Frames
  BY <1>3, FramesNumbered DEF FreeList!tail, free_list
<1>6. Free(k, owner) = T \cap Frames
  BY <1>1, <1>3 DEF Free, FreeList!InList
<1> QED BY <1>4, <1>5, <1>6

(* A walk along the list comes by every free frame.                        *)
LEMMA FreeIsListed ==
  ASSUME NEW k, NEW owner, NEW rank, Ordered(k, owner, rank)
  PROVE  Free(k, owner) \subseteq Reached(k, head(free_list))
<1>1. /\ free_list \in {free_list} \ {} /\ FreeList!ListsAssumption
      /\ FreeList!null = null /\ Frames \subseteq FreeList!Addresses
  BY FreeListAssumption, FreeListFunctions DEF FreeList!Addresses
<1>2. FreeList!InList(k, {}, owner, free_list)
        \subseteq FreeList!Reached(k, FreeList!head(free_list))
  BY <1>1, FreeList!DestructorReaches DEF Ordered
<1>3. Free(k, owner) \subseteq FreeList!InList(k, {}, owner, free_list)
  BY <1>1 DEF Free, FreeList!InList
<1> QED BY <1>2, <1>3, FreeListFunctions

LEMMA OrderedIsTyped ==
  ASSUME NEW k, NEW owner, NEW rank, Ordered(k, owner, rank)
  PROVE  k \in Links /\ \A f \in Frames : rank[f] \in Nat
  BY FreeListFunctions DEF Ordered, FreeList!InOrder, FreeList!Addresses

(* A new list has no frames in it.                                         *)
LEMMA NewListEmpty ==
  \E owner, rank : Ordered(NewLinks, owner, rank) /\ Free(NewLinks, owner) = {}
<1>1. PICK k : k = NewLinks
  OBVIOUS
<1>2. \E owner, rank : Ordered(k, owner, rank)
  BY <1>1, FreeListAssumption, FreeListFunctions, FreeList!NewLinksInOrder DEF Ordered
<1>3. \A f \in Frames : k.prev[f] = null
  <2> SUFFICES ASSUME NEW f \in Frames PROVE k.prev[f] = null
    OBVIOUS
  <2>1. f \in Addresses /\ f # tail(free_list) /\ f \in Nat
    BY FramesNumbered DEF Addresses, tail, free_list
  <2> QED BY <1>1, <2>1 DEF NewLinks
<1> QED BY <1>1, <1>2, <1>3 DEF Free

-----------------------------------------------------------------------------

(* What allocate_memory_regions has filled the list with after each frame. *)
IsFilling(g, top) ==
  g = [f \in 0 .. top |->
         IF f = 0 THEN NewLinks ELSE insert_tail(g[f - 1], free_list, f)]

LEMMA FillingExists ==
  ASSUME NEW top \in Nat
  PROVE  \E g : IsFilling(g, top)
<1> DEFINE Missing == { m \in Nat : ~ \E g : IsFilling(g, m) }
<1>1. ASSUME Missing # {} PROVE FALSE
  <2>1. PICK m \in Missing : \A other \in Missing : m <= other
    <3>1. Missing \subseteq Nat OBVIOUS
    <3> HIDE DEF Missing
    <3> QED BY <1>1, <3>1, LeastNatural
  <2>2. CASE m = 0
    <3>1. 0 .. m = {0}
      BY <2>2
    <3>2. PICK g : g = [f \in {0} |-> NewLinks]
      OBVIOUS
    <3>3. IsFilling(g, m)
      BY <3>1, <3>2 DEF IsFilling
    <3> QED BY <2>1, <3>3
  <2>3. CASE m # 0
    <3>1. m - 1 \in Nat /\ m - 1 \notin Missing
      BY <2>1, <2>3
    <3>2. PICK g : IsFilling(g, m - 1)
      BY <3>1
    <3>3. g = [f \in 0 .. m - 1 |->
                 IF f = 0 THEN NewLinks ELSE insert_tail(g[f - 1], free_list, f)]
      BY <3>2 DEF IsFilling
    <3>4. PICK h : h = [f \in 0 .. m |->
                          IF f = 0 THEN NewLinks ELSE insert_tail(g[f - 1], free_list, f)]
      OBVIOUS
    <3>5. ASSUME NEW f \in 0 .. m, f # 0
          PROVE  h[f - 1] = g[f - 1]
      <4>1. f - 1 \in 0 .. m - 1 /\ f - 1 \in 0 .. m
        BY <3>5
      <4>2. h[f - 1] = IF f - 1 = 0 THEN NewLinks
                       ELSE insert_tail(g[f - 1 - 1], free_list, f - 1)
        BY <3>4, <4>1
      <4>3. g[f - 1] = IF f - 1 = 0 THEN NewLinks
                       ELSE insert_tail(g[f - 1 - 1], free_list, f - 1)
        BY <3>3, <4>1
      <4> QED BY <4>2, <4>3
    <3>6. h = [f \in 0 .. m |->
                 IF f = 0 THEN NewLinks ELSE insert_tail(h[f - 1], free_list, f)]
      BY <3>4, <3>5
    <3>7. IsFilling(h, m)
      BY <3>6 DEF IsFilling
    <3> QED BY <2>1, <3>7
  <2> QED BY <2>2, <2>3
<1>2. top \notin Missing
  BY <1>1
<1> QED BY <1>2

(* So the new list is the filling's last.                                  *)
LEMMA FillingSteps ==
  ASSUME Init, ~undefined
  PROVE  \E g : /\ g[0] = NewLinks
                /\ \A f \in 1 .. num_blocks : g[f] = insert_tail(g[f - 1], free_list, f)
                /\ links = g[num_blocks]
<1>1. num_blocks \in Nat
  BY FramesNumbered
<1>2. PICK g : g = CHOOSE h : IsFilling(h, num_blocks)
  OBVIOUS
<1>3. IsFilling(g, num_blocks)
  BY <1>1, <1>2, FillingExists
<1>4. links = g[num_blocks]
  BY <1>2 DEF Init, IsFilling
<1>5. g = [f \in 0 .. num_blocks |->
             IF f = 0 THEN NewLinks ELSE insert_tail(g[f - 1], free_list, f)]
  BY <1>3 DEF IsFilling
<1>6. g[0] = NewLinks
  BY <1>1, <1>5
<1>7. ASSUME NEW f \in 1 .. num_blocks PROVE g[f] = insert_tail(g[f - 1], free_list, f)
  BY <1>1, <1>5
<1> QED BY <1>4, <1>6, <1>7

(* Every frame of the pool is free at the start.                           *)
LEMMA FillingHasAll ==
  ASSUME Init, ~undefined
  PROVE  \E owner, rank : Ordered(links, owner, rank) /\ Free(links, owner) = PoolFrames
<1>1. num_blocks \in Nat /\ PoolFrames \subseteq Frames
  BY FramesNumbered
<1>2. PICK g : /\ g[0] = NewLinks
               /\ \A f \in 1 .. num_blocks : g[f] = insert_tail(g[f - 1], free_list, f)
               /\ links = g[num_blocks]
  BY FillingSteps
<1> DEFINE Fine(m) == \E owner, rank : Ordered(g[m], owner, rank) /\ Free(g[m], owner) = 1 .. m
           Bad == { m \in Nat : m <= num_blocks /\ ~ Fine(m) }
<1>3. ASSUME Bad # {} PROVE FALSE
  <2>1. PICK m \in Bad : \A other \in Bad : m <= other
    <3>1. Bad \subseteq Nat OBVIOUS
    <3> HIDE DEF Bad
    <3> QED BY <1>3, <3>1, LeastNatural
  <2>2. Fine(0)
    <3>1. 1 .. 0 = {}
      OBVIOUS
    <3> QED BY <1>2, <3>1, NewListEmpty
  <2>3. m # 0
    BY <2>1, <2>2
  <2>4. m - 1 \in Nat /\ m - 1 <= num_blocks /\ m \in 1 .. num_blocks
    BY <1>1, <2>1, <2>3
  <2>5. m - 1 \notin Bad
    BY <2>1, <2>4
  <2>6. PICK k, owner, rank :
          k = g[m - 1] /\ Ordered(k, owner, rank) /\ Free(k, owner) = 1 .. m - 1
    BY <2>4, <2>5
  <2>7. m \in Frames
    BY <1>1, <2>4 DEF PoolFrames
  <2>8. PICK u : u = insert_tail(k, free_list, m)
    OBVIOUS
  <2>9. g[m] = u
    BY <1>2, <2>4, <2>6, <2>8
  <2>10. PICK o, r : Ordered(u, o, r) /\ Free(u, o) = Free(k, owner) \cup {m}
    <3> HIDE DEF Bad
    <3>1. Ordered(k, owner, rank)
      BY <2>6
    <3> QED BY <2>7, <2>8, <3>1, TailPutsIn
  <2>11. 1 .. m = (1 .. m - 1) \cup {m}
    BY <2>4
  <2>12. Fine(m)
    BY <2>6, <2>9, <2>10, <2>11
  <2> QED BY <2>1, <2>12
<1>4. Fine(num_blocks)
  BY <1>1, <1>3
<1> QED BY <1>2, <1>4 DEF PoolFrames

-----------------------------------------------------------------------------

(* A frame is free, taken for the OS's, or will come back with the free of *)
(* a block that is held.                                                   *)
NoneLost(owner) ==
  \A f \in PoolFrames :
    \/ f \in Free(links, owner)
    \/ f \in deleted
    \/ \E b \in held : mp_block_list_node[b] = f

(* The map and the frames agree: what is mapped was read last into a frame *)
(* of the pool, and what was read last into a frame is mapped.  Frames     *)
(* never used are free, behind all that were.                              *)
MapAgrees(owner, rank) ==
  Cardinality(DOMAIN mp_block_list_node) <= num_blocks =>
    /\ \A b \in DOMAIN mp_block_list_node : /\ mp_block_list_node[b] \in PoolFrames
                                            /\ cached[mp_block_list_node[b]] = b
    /\ \A f \in PoolFrames :
         IF cached[f] = none
         THEN f \in Free(links, owner)
         ELSE cached[f] \in DOMAIN mp_block_list_node /\ mp_block_list_node[cached[f]] = f
    /\ \A f, g \in Free(links, owner) :
         cached[f] # none /\ cached[g] = none => rank[f] < rank[g]
    /\ Free(links, owner) \subseteq PoolFrames

Agreed(owner, rank) ==
  Ordered(links, owner, rank) /\ NoneLost(owner) /\ MapAgrees(owner, rank)

ContentsHeld == \A f \in PoolFrames : HoldsContents(f)

(* Nothing is said of the list once a wild pointer has been followed.      *)
PInv ==
  /\ TypeOK
  /\ ContentsHeld
  /\ ~undefined => \E owner, rank : Agreed(owner, rank)

LEMMA InitPInv == Init => PInv
<1> SUFFICES ASSUME Init PROVE PInv
  OBVIOUS
<1>1. /\ disk \in [DiskBlocks -> Headers] /\ slot \in [Slots -> UninitializedHeaders]
      /\ mp_block_list_node = << >> /\ held = {} /\ deleted = {} /\ undefined \in BOOLEAN
      /\ cached = [f \in Frames |-> none] /\ contents = [f \in PoolFrames |-> slot[f + 1]]
  BY DEF Init
<1>2. DOMAIN mp_block_list_node = {} /\ mp_block_list_node \in [{} -> Frames]
  BY <1>1
<1>3. ASSUME ~undefined
      PROVE  \E owner, rank : Agreed(owner, rank)
  <2>1. PICK owner, rank : Ordered(links, owner, rank) /\ Free(links, owner) = PoolFrames
    BY <1>3, FillingHasAll
  <2>2. NoneLost(owner)
    BY <2>1 DEF NoneLost
  <2>3. MapAgrees(owner, rank)
    <3>1. \A f \in PoolFrames : cached[f] = none
      BY <1>1, FramesNumbered
    <3> QED BY <1>2, <2>1, <3>1 DEF MapAgrees
  <2> QED BY <2>1, <2>2, <2>3 DEF Agreed
<1>4. \A f \in PoolFrames : f + 1 \in Slots
  BY FramesNumbered
<1>5. TypeOK
  <2>1. undefined \/ links \in Links
    BY <1>3, OrderedIsTyped DEF Agreed
  <2>2. disk \in [DiskBlocks -> MemoryHeader] /\ slot \in [Slots -> MemoryHeader]
    BY <1>1, PoolAssumption
  <2>3. contents \in [PoolFrames -> MemoryHeader]
    BY <1>1, <1>4, <2>2
  <2> QED BY <1>1, <1>2, <2>1, <2>2, <2>3 DEF TypeOK
<1>6. ContentsHeld
  BY <1>1 DEF ContentsHeld, HoldsContents
<1> QED BY <1>3, <1>5, <1>6 DEF PInv

-----------------------------------------------------------------------------

LEMMA FlushTypes ==
  ASSUME TypeOK, NEW memory \in [Slots -> MemoryHeader], NEW f \in Frames
  PROVE  /\ FlushedDisk(memory, f) \in [DiskBlocks -> MemoryHeader]
         /\ FlushedSlots(memory, f) \in [Slots -> MemoryHeader]
<1>1. f \in Slots /\ f + 1 \in Slots
  BY FramesNumbered
<1>2. memory[f] \in MemoryHeader /\ memory[f + 1] \in MemoryHeader
      /\ disk \in [DiskBlocks -> MemoryHeader]
  BY <1>1 DEF TypeOK
<1>3. FlushedDisk(memory, f) \in [DiskBlocks -> MemoryHeader]
  BY <1>2 DEF FlushedDisk
<1>4. FlushedSlots(memory, f) \in [Slots -> MemoryHeader]
  <2>1. [memory[f] EXCEPT !.is_dirty = FALSE] \in MemoryHeader
    BY <1>2 DEF MemoryHeader
  <2> QED BY <1>1, <2>1 DEF FlushedSlots
<1> QED BY <1>3, <1>4

(* A flush changes the flag only.                                          *)
LEMMA FlushKeepsContents ==
  ASSUME NEW memory \in [Slots -> MemoryHeader], NEW f \in Frames, NEW g \in Slots
  PROVE  /\ FlushedSlots(memory, f)[g].block_number = memory[g].block_number
         /\ FlushedSlots(memory, f)[g].os_operated = memory[g].os_operated
<1>1. f \in Slots /\ memory[f] \in MemoryHeader
  BY FramesNumbered
<1>2. CASE f = g
  BY <1>1, <1>2 DEF FlushedSlots, MemoryHeader
<1>3. CASE f # g
  BY <1>1, <1>3 DEF FlushedSlots
<1> QED BY <1>2, <1>3

(* What neither the list nor the map notices.                              *)
LEMMA ContentsChange ==
  ASSUME PInv, disk' \in [DiskBlocks -> MemoryHeader], slot' \in [Slots -> MemoryHeader],
         contents' \in [PoolFrames -> MemoryHeader], ContentsHeld',
         UNCHANGED <<links, mp_block_list_node, held, deleted, cached, undefined>>
  PROVE  PInv'
<1>1. ASSUME NEW owner, NEW rank, Agreed(owner, rank)
      PROVE  Agreed(owner, rank)'
  BY <1>1 DEF Agreed, NoneLost, MapAgrees
<1>2. TypeOK'
  BY DEF PInv, TypeOK
<1> QED BY <1>1, <1>2 DEF PInv

(* A flush is one of these.                                                *)
LEMMA FlushChange ==
  ASSUME PInv, NEW f \in Frames, disk' = FlushedDisk(slot, f), slot' = FlushedSlots(slot, f),
         contents' = contents
  PROVE  /\ disk' \in [DiskBlocks -> MemoryHeader] /\ slot' \in [Slots -> MemoryHeader]
         /\ contents' \in [PoolFrames -> MemoryHeader] /\ ContentsHeld'
<1>1. TypeOK /\ slot \in [Slots -> MemoryHeader]
  BY DEF PInv, TypeOK
<1>2. \A g \in PoolFrames : g + 1 \in Slots
  BY FramesNumbered
<1>3. ContentsHeld'
  BY <1>1, <1>2, FlushKeepsContents DEF PInv, ContentsHeld, HoldsContents
<1> QED BY <1>1, <1>3, FlushTypes DEF TypeOK

(* A frame is filled, and its neighbour's header with it.                  *)
LEMMA FillChange ==
  ASSUME PInv, NEW f \in Frames, NEW header \in MemoryHeader,
         NEW memory \in [Slots -> MemoryHeader],
         \A g \in PoolFrames : /\ memory[g + 1].block_number = slot[g + 1].block_number
                               /\ memory[g + 1].os_operated = slot[g + 1].os_operated,
         slot' = [memory EXCEPT ![f + 1] = header], Filled(f, header)
  PROVE  /\ slot' \in [Slots -> MemoryHeader]
         /\ contents' \in [PoolFrames -> MemoryHeader] /\ ContentsHeld'
<1>1. contents \in [PoolFrames -> MemoryHeader]
  BY DEF PInv, TypeOK
<1>2. PoolFrames \subseteq Frames /\ Frames \subseteq Nat /\ \A g \in Frames : g + 1 \in Slots
  BY FramesNumbered
<1>3. slot' \in [Slots -> MemoryHeader]
  BY <1>2
<1>4. contents' \in [PoolFrames -> MemoryHeader]
  BY <1>1 DEF Filled
<1>5. ASSUME NEW g \in PoolFrames PROVE HoldsContents(g)'
  <2>1. CASE g = f
    BY <1>1, <1>2, <2>1 DEF Filled, HoldsContents
  <2>2. CASE g # f
    <3>1. g + 1 # f + 1 /\ g + 1 \in Slots
      BY <1>2, <2>2
    <3>2. slot'[g + 1] = memory[g + 1]
      BY <3>1
    <3>3. contents'[g] = contents[g]
      BY <1>1, <2>2 DEF Filled
    <3> QED BY <3>2, <3>3 DEF PInv, ContentsHeld, HoldsContents
  <2> QED BY <2>1, <2>2
<1> QED BY <1>3, <1>4, <1>5 DEF ContentsHeld

LEMMA WriteHeldKeeps ==
  ASSUME PInv, NEW b \in DiskBlocks, WriteHeld(b)
  PROVE  PInv'
<1>1. PICK f : f = mp_block_list_node[b]
  OBVIOUS
<1>2. f \in Frames /\ f \in Slots
  BY <1>1, FramesNumbered DEF WriteHeld, PInv, TypeOK
<1>3. PICK header \in Headers :
        slot' = [slot EXCEPT ![f].is_dirty = TRUE, ![f + 1] = header] /\ Filled(f, header)
  BY <1>1 DEF WriteHeld
<1>4. header \in MemoryHeader /\ slot \in [Slots -> MemoryHeader]
  BY PoolAssumption DEF PInv, TypeOK
<1>5. PICK memory : memory = [slot EXCEPT ![f].is_dirty = TRUE]
  OBVIOUS
<1>6. memory \in [Slots -> MemoryHeader]
  BY <1>2, <1>4, <1>5 DEF MemoryHeader
<1>7. ASSUME NEW g \in Slots
      PROVE  /\ memory[g].block_number = slot[g].block_number
             /\ memory[g].os_operated = slot[g].os_operated
  <2>1. CASE g = f
    BY <1>2, <1>4, <1>5, <2>1 DEF MemoryHeader
  <2>2. CASE g # f
    BY <1>4, <1>5, <2>2
  <2> QED BY <2>1, <2>2
<1>8. \A g \in PoolFrames : g + 1 \in Slots
  BY FramesNumbered
<1>9. slot' = [memory EXCEPT ![f + 1] = header]
  BY <1>3, <1>5
<1>10. /\ slot' \in [Slots -> MemoryHeader]
       /\ contents' \in [PoolFrames -> MemoryHeader] /\ ContentsHeld'
  BY <1>2, <1>3, <1>4, <1>6, <1>7, <1>8, <1>9, FillChange
<1>11. disk' \in [DiskBlocks -> MemoryHeader]
  BY DEF WriteHeld, PInv, TypeOK
<1> QED BY <1>10, <1>11, ContentsChange DEF WriteHeld

LEMMA ForceFlushKeeps ==
  ASSUME PInv, NEW b \in DiskBlocks, force_flush_memory_block(b)
  PROVE  PInv'
<1>1. PICK f : f = mp_block_list_node[b]
  OBVIOUS
<1>2. f \in Frames
  BY <1>1 DEF force_flush_memory_block, PInv, TypeOK
<1>3. disk' = FlushedDisk(slot, f) /\ slot' = FlushedSlots(slot, f)
      /\ UNCHANGED <<links, mp_block_list_node, held, deleted, cached, contents, undefined>>
  BY <1>1 DEF force_flush_memory_block
<1> QED BY <1>2, <1>3, FlushChange, ContentsChange

-----------------------------------------------------------------------------

(* get of a block in the map: its frame leaves the list, if it is there.   *)
LEMMA GetCachedKeeps ==
  ASSUME PInv, NEW b \in DiskBlocks, GetCached(b)
  PROVE  PInv'
<1>1. PICK owner, rank : Agreed(owner, rank)
  BY DEF PInv, GetCached
<1>2. PICK f : f = mp_block_list_node[b]
  OBVIOUS
<1>3. /\ b \in DOMAIN mp_block_list_node /\ f \in Frames
      /\ links' = unlink(links, free_list, f)
      /\ undefined' = (f \in deleted) /\ held' = held \cup {b}
      /\ UNCHANGED <<disk, slot, mp_block_list_node, deleted, cached, contents>>
      /\ ~undefined
  BY <1>2 DEF GetCached, lock, PInv, TypeOK
<1>4. /\ Ordered(links', owner, rank)
      /\ Free(links', owner) = Free(links, owner) \ {f}
  BY <1>1, <1>3, LockTakesOut DEF Agreed
<1>5. TypeOK'
  <2>1. links' \in Links
    BY <1>4, OrderedIsTyped
  <2>2. undefined' \in BOOLEAN
    BY <1>3
  <2> QED BY <1>3, <2>1, <2>2 DEF PInv, TypeOK
<1>6. NoneLost(owner)'
  BY <1>1, <1>2, <1>3, <1>4 DEF Agreed, NoneLost
<1>7. MapAgrees(owner, rank)'
  <2> SUFFICES ASSUME Cardinality(DOMAIN mp_block_list_node) <= num_blocks
               PROVE  MapAgrees(owner, rank)'
    BY <1>3 DEF MapAgrees
  <2>1. MapAgrees(owner, rank) /\ b # none
    BY <1>1, PoolAssumption DEF Agreed, none, DiskBlocks
  <2>2. cached[f] = b
    BY <1>2, <1>3, <2>1 DEF MapAgrees
  <2> QED BY <1>3, <1>4, <2>1, <2>2 DEF MapAgrees
<1>8. ContentsHeld'
  BY <1>3 DEF PInv, ContentsHeld, HoldsContents
<1> QED BY <1>4, <1>5, <1>6, <1>7, <1>8 DEF PInv, Agreed

-----------------------------------------------------------------------------

(* As long as fewer blocks have been asked for than there are frames there *)
(* is a frame no block was read into.                                      *)
LEMMA UnusedFrame ==
  ASSUME TypeOK, NEW owner, NEW rank, MapAgrees(owner, rank),
         Cardinality(DOMAIN mp_block_list_node) < num_blocks
  PROVE  \E g \in PoolFrames : cached[g] = none /\ g \in Free(links, owner)
<1>1. PICK D, N : D = DOMAIN mp_block_list_node /\ N = num_blocks
  OBVIOUS
<1>2. IsFiniteSet(D) /\ Cardinality(D) \in Nat /\ N \in Nat /\ Cardinality(D) < N
  <2>1. NUM_DISK_BLOCKS \in Nat
    BY PoolAssumption
  <2>2. IsFiniteSet(0 .. NUM_DISK_BLOCKS - 1)
    BY <2>1, FS_Interval
  <2>3. D \subseteq 0 .. NUM_DISK_BLOCKS - 1
    BY <1>1 DEF TypeOK, DiskBlocks
  <2>4. IsFiniteSet(D)
    BY <2>2, <2>3, FS_Subset
  <2> QED BY <1>1, <2>4, FS_CardinalityType, FramesNumbered
<1>3. SUFFICES ASSUME \A g \in PoolFrames : cached[g] # none
               PROVE  FALSE
  BY <1>1, <1>2 DEF MapAgrees
<1>4. \A g \in PoolFrames : cached[g] \in D /\ mp_block_list_node[cached[g]] = g
  BY <1>1, <1>2, <1>3 DEF MapAgrees
<1>5. PICK f : f = [g \in PoolFrames |-> cached[g]]
  OBVIOUS
<1>6. f \in [PoolFrames -> D]
  BY <1>4, <1>5
<1>7. PICK g \in PoolFrames, h \in PoolFrames : g # h /\ f[g] = f[h]
  <2>1. IsFiniteSet(PoolFrames) /\ Cardinality(D) < Cardinality(PoolFrames)
    BY <1>1, <1>2, FramesNumbered
  <2> QED BY <1>2, <1>6, <2>1, FS_PigeonHole
<1>8. cached[g] = cached[h]
  BY <1>5, <1>7
<1> QED BY <1>4, <1>7, <1>8

(* get of a block that is not in the map, into a frame that is unused as   *)
(* long as there are such.                                                 *)
LEMMA LoadKeeps ==
  ASSUME PInv, ~undefined, NEW owner, NEW rank, Agreed(owner, rank),
         NEW b \in DiskBlocks, b \notin DOMAIN mp_block_list_node,
         NEW f \in Frames, NEW memory \in [Slots -> MemoryHeader],
         \A g \in PoolFrames : /\ memory[g + 1].block_number = slot[g + 1].block_number
                               /\ memory[g + 1].os_operated = slot[g + 1].os_operated,
         NEW wild \in BOOLEAN, Load(b, f, memory, wild),
         Cardinality(DOMAIN mp_block_list_node) < num_blocks
           => f \in PoolFrames /\ cached[f] = none
  PROVE  PInv'
<1>1. /\ FlushedDisk(memory, f) \in [DiskBlocks -> MemoryHeader]
      /\ FlushedSlots(memory, f) \in [Slots -> MemoryHeader]
  BY FlushTypes DEF PInv
<1>2. disk' \in [DiskBlocks -> MemoryHeader] /\ UNCHANGED deleted
  BY <1>1 DEF Load
<1>3. CASE b \in MissingBlocks
  <2>1. /\ slot' = FlushedSlots(memory, f)
        /\ UNCHANGED <<links, mp_block_list_node, held, cached, contents, undefined>>
    BY <1>3 DEF Load
  <2>2. \A g \in PoolFrames : g + 1 \in Slots
    BY FramesNumbered
  <2>3. ContentsHeld'
    BY <2>1, <2>2, FlushKeepsContents DEF PInv, ContentsHeld, HoldsContents
  <2>4. contents' \in [PoolFrames -> MemoryHeader]
    BY <2>1 DEF PInv, TypeOK
  <2> QED BY <1>1, <1>2, <2>1, <2>3, <2>4, ContentsChange
<1>4. CASE b \notin MissingBlocks
  <2>1. PICK D, mp : D = DOMAIN mp_block_list_node /\ mp = mp_block_list_node
    OBVIOUS
  <2>2. /\ slot' = [FlushedSlots(memory, f) EXCEPT ![f + 1] = FlushedDisk(memory, f)[b]]
        /\ mp_block_list_node' = [c \in D \cup {b} |-> IF c = b THEN f ELSE mp[c]]
        /\ links' = unlink(links, free_list, f)
        /\ held' = held \cup {b}
        /\ cached' = [cached EXCEPT ![f] = b]
        /\ undefined' = wild
        /\ Filled(f, FlushedDisk(memory, f)[b])
    BY <1>4, <2>1 DEF Load, lock
  <2>3. /\ mp \in [D -> Frames] /\ held \subseteq D /\ D \subseteq DiskBlocks \ MissingBlocks
        /\ cached \in [Frames -> DiskBlocks \cup {none}] /\ b \notin D
    BY <2>1 DEF PInv, TypeOK
  <2>4. /\ DOMAIN mp_block_list_node' = D \cup {b}
        /\ mp_block_list_node'[b] = f
        /\ \A c \in D : mp_block_list_node'[c] = mp[c]
        /\ mp_block_list_node' \in [D \cup {b} -> Frames]
    BY <2>2, <2>3
  <2>5. /\ cached'[f] = b
        /\ \A g \in Frames \ {f} : cached'[g] = cached[g]
        /\ cached' \in [Frames -> DiskBlocks \cup {none}]
    BY <2>2, <2>3
  <2>6. /\ Ordered(links', owner, rank)
        /\ Free(links', owner) = Free(links, owner) \ {f}
    BY <2>2, LockTakesOut DEF Agreed
  <2>7. /\ slot' \in [Slots -> MemoryHeader]
        /\ contents' \in [PoolFrames -> MemoryHeader] /\ ContentsHeld'
    <3>1. PICK u, header : u = FlushedSlots(memory, f) /\ header = FlushedDisk(memory, f)[b]
      OBVIOUS
    <3>2. u \in [Slots -> MemoryHeader] /\ header \in MemoryHeader
      BY <1>1, <3>1
    <3>3. \A g \in PoolFrames : /\ u[g + 1].block_number = slot[g + 1].block_number
                                /\ u[g + 1].os_operated = slot[g + 1].os_operated
      BY <3>1, FramesNumbered, FlushKeepsContents
    <3>4. slot' = [u EXCEPT ![f + 1] = header] /\ Filled(f, header)
      BY <2>2, <3>1
    <3> QED BY <3>2, <3>3, <3>4, FillChange
  <2>8. TypeOK'
    <3>1. links' \in Links
      BY <2>6, OrderedIsTyped
    <3>2. held' \subseteq D \cup {b} /\ D \cup {b} \subseteq DiskBlocks \ MissingBlocks
      BY <1>4, <2>2, <2>3
    <3> QED BY <1>2, <2>2, <2>4, <2>5, <2>7, <3>1, <3>2 DEF PInv, TypeOK
  <2>9. NoneLost(owner)'
    <3> SUFFICES ASSUME NEW g \in PoolFrames
                 PROVE  \/ g \in Free(links', owner)
                        \/ g \in deleted
                        \/ \E c \in held' : mp_block_list_node'[c] = g
      BY <1>2 DEF NoneLost
    <3>1. \/ g \in Free(links, owner)
          \/ g \in deleted
          \/ \E c \in held : mp[c] = g
      BY <2>1 DEF Agreed, NoneLost
    <3> QED BY <2>2, <2>3, <2>4, <2>6, <3>1
  <2>10. MapAgrees(owner, rank)'
    <3> SUFFICES ASSUME Cardinality(D \cup {b}) <= num_blocks
                 PROVE  MapAgrees(owner, rank)'
      BY <2>4 DEF MapAgrees
    <3>1. Cardinality(D) < num_blocks /\ Cardinality(D) <= num_blocks
      <4>1. IsFiniteSet(0 .. NUM_DISK_BLOCKS - 1)
        BY PoolAssumption, FS_Interval
      <4>2. D \subseteq 0 .. NUM_DISK_BLOCKS - 1
        BY <2>3 DEF DiskBlocks
      <4>3. IsFiniteSet(D)
        BY <4>1, <4>2, FS_Subset
      <4>4. Cardinality(D \cup {b}) = Cardinality(D) + 1 /\ Cardinality(D) \in Nat
        BY <2>3, <4>3, FS_AddElement, FS_CardinalityType
      <4> QED BY <4>4, FramesNumbered
    <3>2. /\ \A c \in D : mp[c] \in PoolFrames /\ cached[mp[c]] = c
          /\ \A g \in PoolFrames :
               IF cached[g] = none
               THEN g \in Free(links, owner)
               ELSE cached[g] \in D /\ mp[cached[g]] = g
          /\ \A g, h \in Free(links, owner) :
               cached[g] # none /\ cached[h] = none => rank[g] < rank[h]
          /\ Free(links, owner) \subseteq PoolFrames
      BY <2>1, <3>1 DEF Agreed, MapAgrees
    <3>3. f \in PoolFrames /\ cached[f] = none /\ b # none /\ PoolFrames \subseteq Frames
          /\ none \notin D
      BY <2>1, <2>3, <3>1, PoolAssumption, FramesNumbered DEF none, DiskBlocks
    <3>4. \A c \in D : mp[c] # f
      BY <3>2, <3>3
    <3>5. ASSUME NEW c \in D \cup {b}
          PROVE  mp_block_list_node'[c] \in PoolFrames /\ cached'[mp_block_list_node'[c]] = c
      BY <2>4, <2>5, <3>2, <3>3, <3>4
    <3>6. ASSUME NEW g \in PoolFrames
          PROVE  IF cached'[g] = none
                 THEN g \in Free(links', owner)
                 ELSE cached'[g] \in D \cup {b} /\ mp_block_list_node'[cached'[g]] = g
      <4>1. CASE g = f
        BY <2>4, <2>5, <3>3, <4>1
      <4>2. CASE g # f
        BY <2>4, <2>5, <2>6, <3>2, <3>3, <4>2
      <4> QED BY <4>1, <4>2
    <3>7. ASSUME NEW g \in Free(links', owner), NEW h \in Free(links', owner),
                 cached'[g] # none, cached'[h] = none
          PROVE  rank[g] < rank[h]
      <4>1. g \in Free(links, owner) \ {f} /\ h \in Free(links, owner) \ {f}
            /\ g \in Frames /\ h \in Frames
        BY <2>6 DEF Free
      <4> QED BY <2>5, <3>2, <3>7, <4>1
    <3>8. Free(links', owner) \subseteq PoolFrames
      BY <2>6, <3>2
    <3> QED BY <2>4, <3>5, <3>6, <3>7, <3>8 DEF MapAgrees
  <2> QED BY <2>6, <2>8, <2>9, <2>10, <2>7 DEF PInv, Agreed
<1> QED BY <1>3, <1>4

(* get with an eviction: the last of the free frames is an unused one, as  *)
(* long as there are such.                                                 *)
LEMMA GetEvictingKeeps ==
  ASSUME PInv, NEW b \in DiskBlocks, GetEvicting(b)
  PROVE  PInv'
<1>1. PICK owner, rank : Agreed(owner, rank)
  BY DEF PInv, GetEvicting
<1>2. PICK f : f = get_victim
  OBVIOUS
<1>3. /\ ~undefined /\ b \notin DOMAIN mp_block_list_node /\ f # null
      /\ Load(b, f, slot, FALSE)
  BY <1>2 DEF GetEvicting
<1>4. /\ f \in Free(links, owner) /\ f \in Frames
      /\ \A g \in Free(links, owner) : rank[g] <= rank[f]
  <2>1. f = get_tail(links, free_list)
    BY <1>2 DEF get_victim
  <2> QED BY <1>1, <1>3, <2>1, VictimIsLast DEF Agreed, Free
<1>5. ASSUME Cardinality(DOMAIN mp_block_list_node) < num_blocks
      PROVE  f \in PoolFrames /\ cached[f] = none
  <2>1. PICK g \in PoolFrames : cached[g] = none /\ g \in Free(links, owner)
    BY <1>1, <1>5, UnusedFrame DEF PInv, Agreed
  <2>2. Cardinality(DOMAIN mp_block_list_node) <= num_blocks
    <3>1. IsFiniteSet(DOMAIN mp_block_list_node)
      <4>1. IsFiniteSet(0 .. NUM_DISK_BLOCKS - 1)
        BY PoolAssumption, FS_Interval
      <4>2. DOMAIN mp_block_list_node \subseteq 0 .. NUM_DISK_BLOCKS - 1
        BY DEF PInv, TypeOK, DiskBlocks
      <4> QED BY <4>1, <4>2, FS_Subset
    <3> QED BY <1>5, <3>1, FS_CardinalityType, FramesNumbered
  <2>3. /\ Free(links, owner) \subseteq PoolFrames
        /\ cached[f] # none => rank[f] < rank[g]
    BY <1>1, <1>4, <2>1, <2>2 DEF Agreed, MapAgrees
  <2>4. rank[g] <= rank[f] /\ rank[g] \in Nat /\ rank[f] \in Nat
    BY <1>1, <1>4, <2>1, OrderedIsTyped DEF Agreed, Free
  <2> QED BY <1>4, <2>3, <2>4
<1>6. slot \in [Slots -> MemoryHeader]
  BY DEF PInv, TypeOK
<1> QED BY <1>1, <1>3, <1>4, <1>5, <1>6, LoadKeeps

(* get when no frame is free: then all were used.                          *)
LEMMA GetForeignKeeps ==
  ASSUME PInv, NEW b \in DiskBlocks, GetForeign(b)
  PROVE  PInv'
<1>1. PICK owner, rank : Agreed(owner, rank)
  BY DEF PInv, GetForeign
<1>2. Free(links, owner) = {}
  <2>1. get_tail(links, free_list) = null
    BY DEF GetForeign, get_victim
  <2> QED BY <1>1, <2>1, VictimIsLast DEF Agreed
<1>3. PICK f \in ForeignFrames, wild \in BOOLEAN :
        Load(b, f, [slot EXCEPT ![f].os_operated = TRUE], wild)
  BY DEF GetForeign
<1>4. f \in Frames /\ f \in Slots /\ TypeOK /\ slot \in [Slots -> MemoryHeader]
  BY FramesNumbered DEF PInv, TypeOK
<1>5. PICK memory : memory = [slot EXCEPT ![f].os_operated = TRUE]
  OBVIOUS
<1>6. memory \in [Slots -> MemoryHeader]
  <2>1. [slot[f] EXCEPT !.os_operated = TRUE] \in MemoryHeader
    BY <1>4 DEF MemoryHeader
  <2> QED BY <1>4, <1>5, <2>1
<1>7. ~ Cardinality(DOMAIN mp_block_list_node) < num_blocks
  BY <1>1, <1>2, <1>4, UnusedFrame DEF Agreed
<1>8. ~undefined /\ b \notin DOMAIN mp_block_list_node /\ Load(b, f, memory, wild)
  BY <1>3, <1>5 DEF GetForeign
<1>9. ASSUME NEW g \in PoolFrames PROVE memory[g + 1] = slot[g + 1]
  <2>1. g + 1 # f /\ g + 1 \in Slots
    <3>1. PICK i \in 1 .. MaxForeign : f = num_blocks + 2 * i
      BY <1>3 DEF ForeignFrames
    <3> QED BY <3>1, FramesNumbered DEF PoolFrames
  <2> QED BY <1>4, <1>5, <2>1
<1> QED BY <1>1, <1>4, <1>6, <1>7, <1>8, <1>9, LoadKeeps

(* free: a frame of the OS's is deleted, any other is put first.           *)
LEMMA FreeKeeps ==
  ASSUME PInv, NEW b \in DiskBlocks, free(b)
  PROVE  PInv'
<1>1. PICK owner, rank : Agreed(owner, rank)
  BY DEF PInv, free
<1>2. PICK f : f = mp_block_list_node[b]
  OBVIOUS
<1>3. /\ ~undefined /\ b \in held /\ b \in DOMAIN mp_block_list_node
      /\ UNCHANGED <<mp_block_list_node, cached, contents>>
      /\ f \in Frames /\ slot \in [Slots -> MemoryHeader] /\ TypeOK
  BY <1>2 DEF free, PInv, TypeOK
<1>4. CASE f \in deleted
  <2>1. undefined' = TRUE /\ UNCHANGED <<disk, slot, links, held, deleted>>
    BY <1>2, <1>4 DEF free
  <2>2. TypeOK'
    BY <1>3, <2>1 DEF TypeOK
  <2>3. Agreed(owner, rank)'
    BY <1>1, <1>3, <2>1 DEF Agreed, NoneLost, MapAgrees
  <2>4. ContentsHeld'
    BY <1>3, <2>1 DEF PInv, ContentsHeld, HoldsContents
  <2> QED BY <2>2, <2>3, <2>4 DEF PInv
<1>5. CASE f \notin deleted /\ slot[f].os_operated
  <2>1. /\ disk' = FlushedDisk(slot, f) /\ slot' = FlushedSlots(slot, f)
        /\ links' = links
        /\ \/ UNCHANGED <<held, deleted, undefined>>
           \/ /\ held' = held \ {b} /\ deleted' = deleted \cup {f}
              /\ undefined' = (f \in Reached(links, head(free_list)))
    BY <1>2, <1>5 DEF free
  <2>2. /\ disk' \in [DiskBlocks -> MemoryHeader] /\ slot' \in [Slots -> MemoryHeader]
        /\ contents' \in [PoolFrames -> MemoryHeader] /\ ContentsHeld'
    BY <1>3, <2>1, FlushChange
  <2>3. CASE UNCHANGED <<held, deleted, undefined>>
    BY <1>3, <2>1, <2>2, <2>3, ContentsChange
  <2>4. CASE /\ held' = held \ {b} /\ deleted' = deleted \cup {f}
             /\ undefined' = (f \in Reached(links, head(free_list)))
    <3>1. TypeOK'
      BY <1>3, <2>1, <2>2, <2>4 DEF TypeOK
    <3>2. NoneLost(owner)'
      BY <1>1, <1>2, <1>3, <2>1, <2>4 DEF Agreed, NoneLost
    <3>3. Agreed(owner, rank)'
      BY <1>1, <1>3, <2>1, <3>2 DEF Agreed, MapAgrees
    <3> QED BY <2>2, <3>1, <3>3 DEF PInv
  <2> QED BY <2>1, <2>3, <2>4
<1>6. CASE f \notin deleted /\ ~slot[f].os_operated
  <2>1. /\ links' = insert_head(links, free_list, f)
        /\ held' = held \ {b}
        /\ UNCHANGED <<disk, slot, deleted, undefined>>
    BY <1>2, <1>6 DEF free
  <2>2. PICK o, r :
          /\ Ordered(links', o, r)
          /\ Free(links', o) = Free(links, owner) \cup {f}
          /\ \A x, y \in Frames \ {f} : r[x] < r[y] <=> rank[x] < rank[y]
          /\ \A x \in Free(links, owner) \ {f} : r[f] < r[x]
    BY <1>1, <1>3, <2>1, FreePutsFirst DEF Agreed
  <2>3. TypeOK'
    <3>1. links' \in Links
      BY <2>2, OrderedIsTyped
    <3> QED BY <1>3, <2>1, <3>1 DEF TypeOK
  <2>4. NoneLost(o)'
    BY <1>1, <1>2, <1>3, <2>1, <2>2 DEF Agreed, NoneLost
  <2>5. MapAgrees(o, r)'
    <3> SUFFICES ASSUME Cardinality(DOMAIN mp_block_list_node) <= num_blocks
                 PROVE  MapAgrees(o, r)'
      BY <1>3 DEF MapAgrees
    <3>1. MapAgrees(owner, rank)
      BY <1>1 DEF Agreed
    <3>2. f \in PoolFrames /\ cached[f] = b /\ b # none
      BY <1>2, <1>3, <3>1, PoolAssumption DEF MapAgrees, none, DiskBlocks
    <3>3. ASSUME NEW g \in Free(links', o), NEW h \in Free(links', o),
                 cached[g] # none, cached[h] = none
          PROVE  r[g] < r[h]
      <4>1. h \in Free(links, owner) \ {f} /\ h \in Frames
        BY <2>2, <3>2, <3>3 DEF Free
      <4>2. CASE g = f
        BY <2>2, <4>1, <4>2
      <4>3. CASE g # f
        <5>1. g \in Free(links, owner) /\ g \in Frames
          BY <2>2, <4>3 DEF Free
        <5>2. rank[g] < rank[h]
          BY <3>1, <3>3, <4>1, <5>1 DEF MapAgrees
        <5> QED BY <2>2, <4>1, <4>3, <5>1, <5>2
      <4> QED BY <4>2, <4>3
    <3> QED BY <1>3, <2>2, <3>1, <3>2, <3>3 DEF MapAgrees
  <2>6. ContentsHeld'
    BY <1>3, <2>1 DEF PInv, ContentsHeld, HoldsContents
  <2> QED BY <2>2, <2>3, <2>4, <2>5, <2>6 DEF PInv, Agreed
<1> QED BY <1>4, <1>5, <1>6

-----------------------------------------------------------------------------

(* Every call of the pool keeps the list in order, no frame is lost, and   *)
(* the map agrees with the frames as long as they suffice.                 *)
THEOREM PoolInvariant == Spec => []PInv
<1>1. ASSUME PInv, [Next]_vars PROVE PInv'
  <2>1. CASE UNCHANGED vars
    <3>1. ASSUME NEW owner, NEW rank, Agreed(owner, rank)
          PROVE  Agreed(owner, rank)'
      BY <2>1, <3>1 DEF vars, Agreed, NoneLost, MapAgrees
    <3>2. TypeOK' /\ ContentsHeld'
      BY <1>1, <2>1 DEF vars, PInv, TypeOK, ContentsHeld, HoldsContents
    <3> QED BY <1>1, <2>1, <3>1, <3>2 DEF PInv, vars
  <2>2. CASE Next
    <3>1. PICK b \in DiskBlocks :
            \/ GetCached(b) \/ GetEvicting(b) \/ GetForeign(b)
            \/ free(b) \/ WriteHeld(b) \/ force_flush_memory_block(b)
      BY <2>2 DEF Next
    <3> QED BY <1>1, <3>1, GetCachedKeeps, GetEvictingKeeps, GetForeignKeeps, FreeKeeps,
               WriteHeldKeeps, ForceFlushKeeps
  <2> QED BY <1>1, <2>1, <2>2
<1> QED BY <1>1, InitPInv, PTL DEF Spec

(* For any number of frames and blocks, and whatever malloc hands out: the *)
(* state stays well formed, the list until a wild pointer is followed, and *)
(* no block that could not be read enters the map.                         *)
THEOREM PoolTypes == Spec => []TypeOK
<1>1. PInv => TypeOK
  BY DEF PInv
<1> QED BY <1>1, PoolInvariant, PTL

(* As long as malloc returns zeros for the nodes no frame of the pool is   *)
(* lost, whatever the map says: it is in the free list, or a block that is *)
(* held will bring it back, or free deleted it.                            *)
THEOREM NoFrameIsLost == Spec => []NoFrameLost
<1>1. ASSUME PInv, ~undefined PROVE NoFrameLost
  <2>1. PICK owner, rank : Agreed(owner, rank)
    BY <1>1 DEF PInv
  <2>2. Free(links, owner) \subseteq Listed
    BY <2>1, FreeIsListed DEF Agreed, Listed, Free
  <2> QED BY <2>1, <2>2 DEF Agreed, NoneLost, NoFrameLost
<1>2. PInv => NoFrameLost
  BY <1>1 DEF NoFrameLost
<1> QED BY <1>2, PoolInvariant, PTL

(* As long as malloc returns zeros for the nodes the map is right, every   *)
(* block alone in its frame and its contents intact but for one byte,      *)
(* until more blocks were asked for than there are frames.                 *)
THEOREM FewBlocksAreRight == Spec => []FewBlocksCachedRight
<1>1. ASSUME PInv PROVE FewBlocksCachedRight
  <2> SUFFICES ASSUME ~undefined, Cardinality(DOMAIN mp_block_list_node) <= num_blocks,
                      NEW b \in DOMAIN mp_block_list_node, NEW f, f = mp_block_list_node[b]
               PROVE  /\ f \in PoolFrames
                      /\ cached[f] = b
                      /\ \A c \in DOMAIN mp_block_list_node :
                           mp_block_list_node[c] = f => c = b
                      /\ HoldsContents(f)
    BY DEF FewBlocksCachedRight
  <2>1. PICK owner, rank : Agreed(owner, rank)
    BY <1>1 DEF PInv
  <2>2. \A c \in DOMAIN mp_block_list_node : /\ mp_block_list_node[c] \in PoolFrames
                                             /\ cached[mp_block_list_node[c]] = c
    BY <2>1 DEF Agreed, MapAgrees
  <2>3. HoldsContents(f)
    BY <1>1, <2>2 DEF PInv, ContentsHeld
  <2> QED BY <2>2, <2>3
<1> QED BY <1>1, PoolInvariant, PTL
===============================================================================
