---------------------------- MODULE MountTheorems ----------------------------
(***************************************************************************)
(* The formatting at every start, for every layout and any number of       *)
(* crashes: what it has written stays as written until it ends, and a      *)
(* crash leaves one block half written at most.                            *)
(***************************************************************************)
EXTENDS Mount, BlockGroupTheorems, SequenceTheorems

(* What main writes, in no order.                                          *)
BitMapWrites ==
  { write_to(b, EmptyBitMap(b)) :
      b \in UNION { {get_starting_block_bitmap(g), get_starting_block_inode_bitmap(g)} :
                    g \in Groups } }

DescriptorWrites ==
  { write_to(get_starting_block_group_descriptor(g), FreshDescriptor(g)) : g \in Groups }

InodeWrites ==
  { write_to(get_starting_block_inode(i), FreshInode(i)) : i \in FormattedInodes }

Writes == BitMapWrites \cup DescriptorWrites \cup InodeWrites \cup {write_to(1, SuperBlock)}

Members(s) == { s[j] : j \in 1 .. Len(s) }

-----------------------------------------------------------------------------

LEMMA MembersJoined ==
  ASSUME NEW S, NEW s \in Seq(S), NEW t \in Seq(S)
  PROVE  s \o t \in Seq(S) /\ Members(s \o t) = Members(s) \cup Members(t)
<1>1. /\ s \o t \in Seq(S)
      /\ Len(s \o t) = Len(s) + Len(t)
      /\ \A i \in 1 .. Len(s) + Len(t) :
           (s \o t)[i] = IF i <= Len(s) THEN s[i] ELSE t[i - Len(s)]
      /\ Len(s) \in Nat /\ Len(t) \in Nat
  BY ConcatProperties, LenProperties
<1>2. ASSUME NEW x \in Members(s \o t) PROVE x \in Members(s) \cup Members(t)
  <2>1. PICK i \in 1 .. Len(s) + Len(t) : x = (s \o t)[i]
    BY <1>1 DEF Members
  <2>2. CASE i <= Len(s)
    BY <1>1, <2>1, <2>2 DEF Members
  <2>3. CASE ~ i <= Len(s)
    <3>1. x = t[i - Len(s)] /\ i - Len(s) \in 1 .. Len(t)
      BY <1>1, <2>1, <2>3
    <3> QED BY <3>1 DEF Members
  <2> QED BY <2>2, <2>3
<1>3. ASSUME NEW i \in 1 .. Len(s) PROVE s[i] \in Members(s \o t)
  <2>1. i \in 1 .. Len(s) + Len(t) /\ i <= Len(s)
    BY <1>1
  <2> QED BY <1>1, <2>1 DEF Members
<1>4. ASSUME NEW i \in 1 .. Len(t) PROVE t[i] \in Members(s \o t)
  <2>1. i + Len(s) \in 1 .. Len(s) + Len(t) /\ ~ i + Len(s) <= Len(s)
        /\ i + Len(s) - Len(s) = i
    BY <1>1
  <2> QED BY <1>1, <2>1 DEF Members
<1> QED BY <1>1, <1>2, <1>3, <1>4 DEF Members

(* A sequence written down by its elements.                                *)
LEMMA MembersListed ==
  ASSUME NEW S, NEW n \in Nat, NEW s, s \in [1 .. n -> S]
  PROVE  s \in Seq(S) /\ Len(s) = n /\ Members(s) = { s[j] : j \in 1 .. n }
<1>1. s \in Seq(S)
  BY SeqDef
<1>2. DOMAIN s = 1 .. n /\ DOMAIN s = 1 .. Len(s) /\ Len(s) \in Nat
  BY <1>1, LenProperties
<1>3. Len(s) = n
  BY <1>2
<1> QED BY <1>1, <1>3 DEF Members

(* The bitmaps in the order of the loop.                                   *)
LEMMA BitMapsWritten ==
  /\ initialize_block_group_bitmaps \in Seq(Writes)
  /\ Members(initialize_block_group_bitmaps) = BitMapWrites
<1>1. PICK s : s = initialize_block_group_bitmaps
  OBVIOUS
<1>2. NUM_GROUPS \in Nat /\ 2 * NUM_GROUPS \in Nat
  BY LayoutNumbers
<1> DEFINE At(g, n) == IF n % 2 = 1 THEN get_starting_block_inode_bitmap(g)
                                    ELSE get_starting_block_bitmap(g)
<1>3. s = [n \in 1 .. 2 * NUM_GROUPS |->
             write_to(At((n - 1) \div 2, n), EmptyBitMap(At((n - 1) \div 2, n)))]
  BY <1>1 DEF initialize_block_group_bitmaps
<1>4. ASSUME NEW n \in 1 .. 2 * NUM_GROUPS
      PROVE  (n - 1) \div 2 \in Groups
  BY <1>2 DEF Groups
<1>5. ASSUME NEW g \in Groups
      PROVE  /\ 2 * g + 1 \in 1 .. 2 * NUM_GROUPS /\ (2 * g + 1 - 1) \div 2 = g
             /\ ((2 * g + 1) % 2) = 1
             /\ 2 * g + 2 \in 1 .. 2 * NUM_GROUPS /\ (2 * g + 2 - 1) \div 2 = g
             /\ ((2 * g + 2) % 2) = 0
  BY <1>2 DEF Groups
<1>6. ASSUME NEW n \in 1 .. 2 * NUM_GROUPS PROVE s[n] \in BitMapWrites
  <2>1. PICK b : b = At((n - 1) \div 2, n)
    OBVIOUS
  <2>2. s[n] = write_to(b, EmptyBitMap(b))
    BY <1>3, <2>1
  <2>3. b \in UNION { {get_starting_block_bitmap(g), get_starting_block_inode_bitmap(g)} :
                      g \in Groups }
    BY <1>4, <2>1
  <2> QED BY <2>2, <2>3 DEF BitMapWrites
<1>7. ASSUME NEW w \in BitMapWrites PROVE \E n \in 1 .. 2 * NUM_GROUPS : s[n] = w
  <2>1. PICK g \in Groups :
          \E b \in {get_starting_block_bitmap(g), get_starting_block_inode_bitmap(g)} :
            w = write_to(b, EmptyBitMap(b))
    BY DEF BitMapWrites
  <2> DEFINE b == w.to
  <2>2. /\ b \in {get_starting_block_bitmap(g), get_starting_block_inode_bitmap(g)}
        /\ w = write_to(b, EmptyBitMap(b))
    BY <2>1 DEF write_to
  <2>3. CASE b = get_starting_block_inode_bitmap(g)
    <3>1. PICK n \in 1 .. 2 * NUM_GROUPS :
            (n - 1) \div 2 = g /\ (n % 2) = 1
      BY <1>5
    <3>2. At((n - 1) \div 2, n) = b
      BY <2>3, <3>1
    <3>3. s[n] = w
      BY <1>3, <2>2, <3>2
    <3> QED BY <3>3
  <2>4. CASE b = get_starting_block_bitmap(g)
    <3>1. PICK n \in 1 .. 2 * NUM_GROUPS :
            (n - 1) \div 2 = g /\ (n % 2) = 0
      BY <1>5
    <3>2. At((n - 1) \div 2, n) = b
      BY <2>4, <3>1
    <3>3. s[n] = w
      BY <1>3, <2>2, <3>2
    <3> QED BY <3>3
  <2> QED BY <2>2, <2>3, <2>4
<1>8. s \in [1 .. 2 * NUM_GROUPS -> Writes]
  BY <1>3, <1>6 DEF Writes
<1>9. s \in Seq(Writes) /\ Members(s) = { s[j] : j \in 1 .. 2 * NUM_GROUPS }
  BY <1>2, <1>8, MembersListed
<1> QED BY <1>1, <1>6, <1>7, <1>9

LEMMA DescriptorsWritten ==
  /\ initialize_block_group_descriptors \in Seq(Writes)
  /\ Members(initialize_block_group_descriptors) = DescriptorWrites
<1>1. PICK s : s = initialize_block_group_descriptors
  OBVIOUS
<1>2. NUM_GROUPS \in Nat
  BY LayoutNumbers
<1>3. s = [n \in 1 .. NUM_GROUPS |->
             write_to(get_starting_block_group_descriptor(n - 1), FreshDescriptor(n - 1))]
  BY <1>1 DEF initialize_block_group_descriptors
<1>4. ASSUME NEW n \in 1 .. NUM_GROUPS PROVE s[n] \in DescriptorWrites
  <2>1. n - 1 \in Groups
    BY <1>2 DEF Groups
  <2> QED BY <1>3, <2>1 DEF DescriptorWrites
<1>5. ASSUME NEW g \in Groups
      PROVE  \E n \in 1 .. NUM_GROUPS :
               s[n] = write_to(get_starting_block_group_descriptor(g), FreshDescriptor(g))
  <2>1. PICK n \in 1 .. NUM_GROUPS : n - 1 = g
    <3>1. PICK n : n = g + 1
      OBVIOUS
    <3>2. n \in 1 .. NUM_GROUPS /\ n - 1 = g
      BY <1>2, <3>1 DEF Groups
    <3> QED BY <3>2
  <2> QED BY <1>3, <2>1
<1>6. s \in [1 .. NUM_GROUPS -> Writes]
  BY <1>3, <1>4 DEF Writes
<1>7. s \in Seq(Writes) /\ Members(s) = { s[j] : j \in 1 .. NUM_GROUPS }
  BY <1>2, <1>6, MembersListed
<1> QED BY <1>1, <1>4, <1>5, <1>7 DEF DescriptorWrites

LEMMA InodesWritten ==
  /\ initialize_inodes \in Seq(Writes)
  /\ Members(initialize_inodes) = InodeWrites
<1>1. PICK s, top : s = initialize_inodes /\ top = NUM_INODES_PER_GROUP * NUM_GROUPS
  OBVIOUS
<1>2. top \in Nat
  BY <1>1, LayoutNumbers
<1>3. s = [n \in 1 .. top |->
             write_to(get_starting_block_inode(n - 1), FreshInode(n - 1))]
  BY <1>1 DEF initialize_inodes
<1>4. FormattedInodes = 0 .. top - 1
  BY <1>1 DEF FormattedInodes
<1>5. ASSUME NEW n \in 1 .. top PROVE s[n] \in InodeWrites
  <2>1. n - 1 \in FormattedInodes
    BY <1>2, <1>4
  <2> QED BY <1>3, <2>1 DEF InodeWrites
<1>6. ASSUME NEW i \in FormattedInodes
      PROVE  \E n \in 1 .. top : s[n] = write_to(get_starting_block_inode(i), FreshInode(i))
  <2>1. PICK n \in 1 .. top : n - 1 = i
    <3>1. PICK n : n = i + 1
      OBVIOUS
    <3>2. n \in 1 .. top /\ n - 1 = i
      BY <1>2, <3>1, <1>4
    <3> QED BY <3>2
  <2> QED BY <1>3, <2>1
<1>7. s \in [1 .. top -> Writes]
  BY <1>3, <1>5 DEF Writes
<1>8. s \in Seq(Writes) /\ Members(s) = { s[j] : j \in 1 .. top }
  BY <1>2, <1>7, MembersListed
<1> QED BY <1>1, <1>5, <1>6, <1>8 DEF InodeWrites

LEMMA MainWrites ==
  /\ main \in Seq(Writes) /\ Len(main) \in Nat \ {0}
  /\ \A j \in 1 .. Len(main) : main[j] \in Writes
  /\ \A w \in Writes : \E j \in 1 .. Len(main) : main[j] = w
<1>1. PICK A, B, C, D : /\ A = initialize_block_group_bitmaps
                        /\ B = initialize_block_group_descriptors
                        /\ C = initialize_inodes /\ D = initialize_helper
  OBVIOUS
<1>2. A \in Seq(Writes) /\ B \in Seq(Writes) /\ C \in Seq(Writes)
  BY <1>1, BitMapsWritten, DescriptorsWritten, InodesWritten
<1>3. D \in Seq(Writes) /\ Members(D) = {write_to(1, SuperBlock)}
  <2>1. D = [j \in 1 .. 1 |-> write_to(1, SuperBlock)]
    BY <1>1 DEF initialize_helper
  <2>2. D \in [1 .. 1 -> Writes]
    BY <2>1 DEF Writes
  <2>3. D \in Seq(Writes) /\ Members(D) = { D[j] : j \in 1 .. 1 }
    BY <2>2, MembersListed
  <2> QED BY <2>1, <2>3
<1>4. PICK AB : AB = A \o B
  OBVIOUS
<1>5. AB \in Seq(Writes) /\ Members(AB) = Members(A) \cup Members(B)
  BY <1>2, <1>4, MembersJoined
<1>6. PICK ABC : ABC = AB \o C
  OBVIOUS
<1>7. ABC \in Seq(Writes) /\ Members(ABC) = Members(AB) \cup Members(C)
  BY <1>2, <1>5, <1>6, MembersJoined
<1>8. main = ABC \o D
  BY <1>1, <1>4, <1>6 DEF main
<1>9. main \in Seq(Writes) /\ Members(main) = Members(ABC) \cup Members(D)
  BY <1>3, <1>7, <1>8, MembersJoined
<1>10. Members(main) = Writes
  BY <1>1, <1>3, <1>5, <1>7, <1>9, BitMapsWritten, DescriptorsWritten, InodesWritten
     DEF Writes
<1>11. write_to(1, SuperBlock) \in Members(main)
  BY <1>10 DEF Writes
<1>12. Len(main) \in Nat
  BY <1>9, LenProperties
<1> QED BY <1>9, <1>10, <1>11, <1>12 DEF Members

-----------------------------------------------------------------------------

(* Every write is what the formatted disk has in its block: two writes to  *)
(* one block would write the same.                                         *)
Target(b) == IF b = 1 THEN SuperBlock ELSE FormattedDisk[b]

LEMMA WritesFit ==
  ASSUME NEW w \in Writes, Readable(w.to)
  PROVE  w.what = Target(Address(w.to)) /\ w.what \in Content
<1>1. 1 \in Blocks /\ Address(1) = 1
  <2>1. 0 \in Groups
    BY LayoutNumbers DEF Groups
  <2>2. get_starting_block_group_descriptor(0) \in Blocks
        /\ get_starting_block_group_descriptor(0) >= 2
    <3>1. 0 \in 0 .. GroupSize - 1
      BY LayoutNumbers
    <3> QED BY <2>1, <3>1, AreaOnDisk
  <2>3. 1 \in Blocks
    BY <2>2, LayoutNumbers DEF Blocks
  <2> QED BY <2>3, BlocksReadable
<1>2. CASE w \in BitMapWrites
  <2>1. PICK g \in Groups :
          \E b \in {get_starting_block_bitmap(g), get_starting_block_inode_bitmap(g)} :
            w = write_to(b, EmptyBitMap(b))
    BY <1>2 DEF BitMapWrites
  <2>2. PICK b : /\ b \in {get_starting_block_bitmap(g), get_starting_block_inode_bitmap(g)}
                 /\ w.to = b /\ w.what = EmptyBitMap(b)
    BY <2>1 DEF write_to
  <2>3. b \in Blocks /\ Address(b) = b
    BY <2>2, HomesApart, BlocksReadable
  <2>4. b # 1
    BY <2>2, AreaOnDisk, LayoutNumbers, MetadataPlaces, HomesApart DEF Blocks
  <2>5. ~ \E h \in Groups : b = get_starting_block_group_descriptor(h)
    BY <2>2, HomesApart
  <2>6. FormattedDisk[b] = EmptyBitMap(b)
    BY <2>2, <2>3, <2>5 DEF FormattedDisk
  <2>7. EmptyBitMap(b) \in BitMapBlock
    BY <2>3 DEF EmptyBitMap, BitMapBlock, Blocks
  <2> QED BY <2>2, <2>3, <2>4, <2>6, <2>7, ContentKinds DEF Target
<1>3. CASE w \in DescriptorWrites
  <2>1. PICK g \in Groups :
          w = write_to(get_starting_block_group_descriptor(g), FreshDescriptor(g))
    BY <1>3 DEF DescriptorWrites
  <2>2. PICK b : /\ b = get_starting_block_group_descriptor(g)
                 /\ w.to = b /\ w.what = FreshDescriptor(g)
    BY <2>1 DEF write_to
  <2>3. b \in Blocks /\ Address(b) = b
    BY <2>2, HomesApart, BlocksReadable
  <2>4. b # 1
    BY <2>2, AreaOnDisk, LayoutNumbers
  <2>5. FormattedDisk[b] = FreshDescriptor(g) /\ FormattedDisk[b] \in Content
    BY <2>2, <2>3, FormattedSound DEF descriptor, Sound
  <2> QED BY <2>2, <2>3, <2>4, <2>5 DEF Target
<1>4. CASE w \in InodeWrites
  <2>1. PICK i \in FormattedInodes :
          w = write_to(get_starting_block_inode(i), FreshInode(i))
    BY <1>4 DEF InodeWrites
  <2>2. PICK n, a : /\ n = get_starting_block_inode(i) /\ a = Address(n)
                    /\ w.to = n /\ w.what = FreshInode(i)
    BY <2>1 DEF write_to
  <2>3. i \in InodeNumbers /\ i \in Nat
    BY InodeNumberType, UidAssumption
  <2>4. a \in Blocks /\ a \notin MetadataBlocks \cup {1}
    BY <2>2, <2>3, SlotAssumption DEF Readable
  <2>5. \A j \in FormattedInodes : Address(get_starting_block_inode(j)) = a => i = j
    <3>1. \A j \in FormattedInodes : j \in InodeNumbers
      BY UidAssumption
    <3> QED BY <2>2, <2>3, <3>1, SlotAssumption
  <2>6. (CHOOSE j \in FormattedInodes : Address(get_starting_block_inode(j)) = a) = i
    BY <2>2, <2>5
  <2>7. /\ ~ \E g \in Groups : a = get_starting_block_group_descriptor(g)
        /\ ~ \E g \in Groups : a \in {get_starting_block_bitmap(g),
                                      get_starting_block_inode_bitmap(g)}
        /\ \E j \in FormattedInodes : Address(get_starting_block_inode(j)) = a
    BY <2>2, <2>4, MetadataPlaces
  <2>8. FormattedDisk[a] = FreshInode(i)
    BY <2>4, <2>6, <2>7 DEF FormattedDisk
  <2>9. FreshInode(i) \in Content
    BY <2>3, FreshInodeType, ContentKinds
  <2> QED BY <2>2, <2>4, <2>8, <2>9 DEF Target
<1>5. CASE w = write_to(1, SuperBlock)
  BY <1>1, <1>5 DEF write_to, Target, SuperBlock, Content
<1> QED BY <1>2, <1>3, <1>4, <1>5 DEF Writes

LEMMA TornIsNoContent == Torn \notin Content
<1>1. Torn.kind = "torn"
  BY DEF Torn
<1>2. \A c \in Content : c.kind # "torn"
  BY ContentKinds DEF Content
<1> QED BY <1>1, <1>2

(* A write, of anything, to a block of the disk or elsewhere.              *)
LEMMA WriteAnything ==
  ASSUME NEW S, NEW d \in [Blocks -> S], NEW c \in S, NEW n
  PROVE  /\ write_block_disk_helper(d, n, c) \in [Blocks -> S]
         /\ \A b \in Blocks :
              write_block_disk_helper(d, n, c)[b] =
                IF Readable(n) /\ Address(n) = b THEN c ELSE d[b]
  BY DEF write_block_disk_helper, Readable

-----------------------------------------------------------------------------

LEMMA TornBlocksFinite ==
  ASSUME NEW d
  PROVE  IsFiniteSet(TornBlocks(d)) /\ Cardinality(TornBlocks(d)) \in Nat
<1>1. IsFiniteSet(Blocks)
  <2>1. 0 \in Int /\ DISK_BLOCKS - 1 \in Int
    BY LayoutNumbers
  <2> QED BY <2>1, FS_Interval DEF Blocks
<1>2. TornBlocks(d) \subseteq Blocks
  BY DEF TornBlocks
<1> QED BY <1>1, <1>2, FS_Subset, FS_CardinalityType

(* Before a session, what is still to be written is the end of main; in it *)
(* there is one block at most.                                             *)
MainPending ==
  /\ pending \in Seq(Writes) /\ pending # << >>
  /\ Len(pending) <= Len(main)
  /\ \A m \in 1 .. Len(pending) : pending[m] = main[Len(main) - Len(pending) + m]

SessionPending ==
  \/ pending = << >> /\ ~torn
  \/ \E b \in SessionBlocks, content \in Garbage : pending = <<write_to(b, content)>>

Pending == IF session THEN SessionPending ELSE MainPending

(* What main has passed is on the disk, unless it is about to write the    *)
(* same block again; a block that cannot be read was passed over.          *)
AsFormatted(d, w) == Readable(w.to) => d[Address(w.to)] = w.what

Formatted ==
  ~session =>
    \A j \in 1 .. Len(main) - Len(pending) :
      \/ AsFormatted(disk, main[j])
      \/ torn /\ Address(main[j].to) = Address(pending[1].to)

(* A torn block of those main writes is one it will come to, and in a      *)
(* session the one being written.                                          *)
TornPending ==
  \A b \in TornBlocks(disk) \cap FormattedBlocks :
    IF session
    THEN torn /\ Address(pending[1].to) = b
    ELSE \E m \in 1 .. Len(pending) : Readable(pending[m].to) /\ Address(pending[m].to) = b

(* A torn block is being written now or was when a process ended.          *)
BeingWritten == torn /\ Readable(pending[1].to)

TornCounted ==
  /\ BeingWritten => Address(pending[1].to) \in TornBlocks(disk)
  /\ Cardinality(TornBlocks(disk)) <= restarts + IF BeingWritten THEN 1 ELSE 0

MInv ==
  /\ disk \in [Blocks -> Content \cup {Torn}]
  /\ torn \in BOOLEAN /\ session \in BOOLEAN /\ restarts \in Nat
  /\ Pending /\ Formatted /\ TornPending /\ TornCounted

LEMMA TornHasPending ==
  ASSUME MInv, torn
  PROVE  pending # << >>
<1>1. CASE session
  <2>1. PICK w : pending = <<w>>
    BY <1>1 DEF MInv, Pending, SessionPending
  <2>2. Len(pending) = 1
    BY <2>1
  <2>3. << >> \in Seq(Writes) /\ Len(<< >>) = 0
    BY EmptySeq
  <2> QED BY <2>2, <2>3
<1>2. CASE ~session
  BY <1>2 DEF MInv, Pending, MainPending
<1> QED BY <1>1, <1>2

(* main's next write, and what is left after it.                           *)
LEMMA NextMainWrite ==
  ASSUME MainPending
  PROVE  /\ Len(pending) \in Nat \ {0} /\ Len(main) \in Nat /\ Len(pending) <= Len(main)
         /\ Head(pending) = pending[1] /\ pending[1] \in Writes
         /\ pending[1] = main[Len(main) - Len(pending) + 1]
         /\ Tail(pending) \in Seq(Writes) /\ Len(Tail(pending)) = Len(pending) - 1
         /\ \A m \in 1 .. Len(pending) - 1 : Tail(pending)[m] = pending[m + 1]
<1>1. pending \in Seq(Writes)
  BY DEF MainPending
<1>2. Len(pending) \in Nat \ {0}
  BY <1>1, EmptySeq DEF MainPending
<1>3. pending[1] \in Writes
  BY <1>1, <1>2, ElementOfSeq
<1>4. Head(pending) = pending[1]
  BY <1>1
<1>5. /\ Tail(pending) \in Seq(Writes) /\ Len(Tail(pending)) = Len(pending) - 1
      /\ \A m \in 1 .. Len(pending) - 1 : Tail(pending)[m] = pending[m + 1]
  BY <1>1, <1>2, HeadTailProperties DEF MainPending
<1>6. pending[1] = main[Len(main) - Len(pending) + 1]
  <2>1. 1 \in 1 .. Len(pending)
    BY <1>2
  <2> QED BY <2>1 DEF MainPending
<1>7. Len(main) \in Nat
  BY MainWrites
<1> QED BY <1>2, <1>3, <1>4, <1>5, <1>6, <1>7 DEF MainPending

(* The next write of main or a session.                                    *)
LEMMA NextWrite ==
  ASSUME MInv, pending # << >>, NEW w, w = pending[1]
  PROVE  /\ Head(pending) = w
         /\ Readable(w.to) => w.what \in Content /\ w.what # Torn
         /\ session => Tail(pending) = << >>
<1>1. CASE session
  <2>1. PICK b \in SessionBlocks, content \in Garbage : pending = <<write_to(b, content)>>
    BY <1>1 DEF MInv, Pending, SessionPending
  <2>2. w = write_to(b, content) /\ Head(pending) = w /\ Tail(pending) = << >>
    BY <2>1
  <2>3. w.what \in Content
    BY <2>2, MountAssumption DEF write_to
  <2> QED BY <2>2, <2>3, TornIsNoContent
<1>2. CASE ~session
  BY <1>2, NextMainWrite, WritesFit, TornIsNoContent DEF MInv, Pending
<1> QED BY <1>1, <1>2

LEMMA StartPending ==
  ASSUME pending' = main
  PROVE  /\ MainPending' /\ pending' # << >>
         /\ \A j \in 1 .. Len(main) - Len(pending') : FALSE
<1>1. Len(main) \in Nat \ {0} /\ main \in Seq(Writes)
  BY MainWrites
<1>2. main # << >>
  BY <1>1, EmptySeq
<1>3. \A m \in 1 .. Len(main) : Len(main) - Len(main) + m = m
  BY <1>1
<1> QED BY <1>1, <1>2, <1>3 DEF MainPending

-----------------------------------------------------------------------------

LEMMA InitialMount == ASSUME Init PROVE MInv
<1>1. pending = main /\ torn = FALSE /\ session = FALSE /\ restarts = 0
  BY DEF Init
<1>2. PICK content \in Garbage : disk = [b \in Blocks |-> content]
  BY DEF Init
<1>3. content \in Content
  BY <1>2, MountAssumption
<1>4. TornBlocks(disk) = {}
  BY <1>2, <1>3, TornIsNoContent DEF TornBlocks
<1>5. Cardinality(TornBlocks(disk)) = 0
  BY <1>4, FS_EmptySet
<1>6. Len(main) \in Nat \ {0} /\ main \in Seq(Writes)
  BY MainWrites
<1>7. Pending
  <2>1. \A m \in 1 .. Len(main) : Len(main) - Len(main) + m = m
    BY <1>6
  <2>2. main # << >>
    BY <1>6, EmptySeq
  <2> QED BY <1>1, <1>6, <2>1, <2>2 DEF Pending, MainPending
<1>8. Formatted
  BY <1>1, <1>6 DEF Formatted
<1>9. disk \in [Blocks -> Content \cup {Torn}]
  BY <1>2, <1>3
<1>10. TornPending /\ TornCounted
  BY <1>1, <1>4, <1>5 DEF TornPending, TornCounted, BeingWritten
<1> QED BY <1>1, <1>7, <1>8, <1>9, <1>10 DEF MInv

LEMMA FirstSectorKeeps == ASSUME MInv, WriteFirstSector PROVE MInv'
<1>1. PICK w : w = pending[1]
  OBVIOUS
<1>2. /\ pending # << >> /\ ~torn /\ torn' = TRUE
      /\ UNCHANGED <<pending, session, restarts>>
      /\ Head(pending) = w /\ restarts \in Nat
  BY <1>1, NextWrite DEF MInv, WriteFirstSector
<1>3. disk' = write_block_disk_helper(disk, w.to, Torn)
  BY <1>2 DEF WriteFirstSector
<1>4. /\ disk' \in [Blocks -> Content \cup {Torn}]
      /\ \A b \in Blocks :
           disk'[b] = IF Readable(w.to) /\ Address(w.to) = b THEN Torn ELSE disk[b]
  <2>1. PICK S, n : S = Content \cup {Torn} /\ n = w.to
    OBVIOUS
  <2>2. disk \in [Blocks -> S] /\ Torn \in S
    BY <2>1 DEF MInv
  <2>3. /\ disk' \in [Blocks -> S]
        /\ \A b \in Blocks : disk'[b] = IF Readable(n) /\ Address(n) = b THEN Torn ELSE disk[b]
    BY <1>3, <2>1, <2>2, WriteAnything
  <2> QED BY <2>1, <2>3
<1>5. Pending'
  BY <1>2 DEF MInv, Pending, SessionPending, MainPending
<1>6. Formatted'
  <2> SUFFICES ASSUME ~session, NEW j \in 1 .. Len(main) - Len(pending)
               PROVE  AsFormatted(disk', main[j]) \/ Address(main[j].to) = Address(w.to)
    BY <1>1, <1>2 DEF Formatted
  <2>1. AsFormatted(disk, main[j])
    BY <1>2 DEF MInv, Formatted
  <2> QED BY <1>4, <2>1 DEF AsFormatted, Readable
<1>7. PICK old, new, a : /\ old = TornBlocks(disk) /\ new = TornBlocks(disk')
                         /\ a = Address(w.to)
  OBVIOUS
<1>8. /\ Readable(w.to) => new = old \cup {a} /\ a \in Blocks
      /\ ~Readable(w.to) => new = old
  BY <1>4, <1>7 DEF TornBlocks, Readable
<1>9. TornPending'
  <2> SUFFICES ASSUME NEW b \in new \cap FormattedBlocks
               PROVE  IF session
                      THEN Address(w.to) = b
                      ELSE \E m \in 1 .. Len(pending) :
                             Readable(pending[m].to) /\ Address(pending[m].to) = b
    BY <1>1, <1>2, <1>7 DEF TornPending
  <2>1. CASE b \in old
    BY <1>2, <1>7, <2>1 DEF MInv, TornPending
  <2>2. CASE b \notin old
    <3>1. Readable(w.to) /\ b = a
      BY <1>8, <2>2
    <3>2. ~session => 1 \in 1 .. Len(pending)
      BY NextMainWrite DEF MInv, Pending
    <3> QED BY <1>1, <1>7, <3>1, <3>2
  <2> QED BY <2>1, <2>2
<1>10. IsFiniteSet(old) /\ Cardinality(old) \in Nat /\ Cardinality(old) <= restarts
  BY <1>2, <1>7, TornBlocksFinite DEF MInv, TornCounted, BeingWritten
<1>11. Cardinality(new) <= restarts + IF Readable(w.to) THEN 1 ELSE 0
  <2>1. CASE Readable(w.to)
    <3>1. Cardinality(old \cup {a}) <= Cardinality(old) + 1
      BY <1>10, FS_AddElement
    <3>2. Cardinality(new) <= Cardinality(old) + 1 /\ Cardinality(new) \in Nat
      BY <1>7, <1>8, <2>1, <3>1, TornBlocksFinite
    <3> QED BY <1>2, <1>10, <2>1, <3>2
  <2>2. CASE ~Readable(w.to)
    BY <1>2, <1>8, <1>10, <2>2
  <2> QED BY <2>1, <2>2
<1>12. TornCounted'
  BY <1>1, <1>2, <1>7, <1>8, <1>11 DEF TornCounted, BeingWritten
<1> QED BY <1>2, <1>4, <1>5, <1>6, <1>9, <1>12 DEF MInv

LEMMA SecondSectorOnDisk ==
  ASSUME MInv, WriteSecondSector, NEW w, w = pending[1]
  PROVE  /\ disk' \in [Blocks -> Content \cup {Torn}]
         /\ \A b \in Blocks :
              disk'[b] = IF Readable(w.to) /\ Address(w.to) = b THEN w.what ELSE disk[b]
<1>1. /\ pending # << >> /\ torn /\ Head(pending) = w
      /\ Readable(w.to) => w.what \in Content
  BY TornHasPending, NextWrite DEF WriteSecondSector
<1>2. disk' = write_block_disk_helper(disk, w.to, w.what)
  BY <1>1 DEF WriteSecondSector
<1>3. CASE Readable(w.to)
  <2>1. PICK S, n, c : S = Content \cup {Torn} /\ n = w.to /\ c = w.what
    OBVIOUS
  <2>2. disk \in [Blocks -> S] /\ c \in S
    BY <1>1, <1>3, <2>1 DEF MInv
  <2>3. /\ disk' \in [Blocks -> S]
        /\ \A b \in Blocks : disk'[b] = IF Readable(n) /\ Address(n) = b THEN c ELSE disk[b]
    BY <1>2, <2>1, <2>2, WriteAnything
  <2> QED BY <2>1, <2>3
<1>4. CASE ~Readable(w.to)
  BY <1>2, <1>4 DEF write_block_disk_helper, MInv
<1> QED BY <1>3, <1>4

(* With its second sector every block that main has come to is written.    *)
LEMMA SecondSectorWrites ==
  ASSUME MInv, WriteSecondSector, ~session
  PROVE  \A j \in 1 .. Len(main) - Len(pending) + 1 : AsFormatted(disk', main[j])
<1>1. PICK w : w = pending[1]
  OBVIOUS
<1>2. /\ MainPending /\ torn /\ w \in Writes
      /\ Len(pending) \in Nat \ {0} /\ Len(main) \in Nat
      /\ w = main[Len(main) - Len(pending) + 1]
      /\ Len(pending) <= Len(main)
  BY <1>1, NextMainWrite DEF MInv, WriteSecondSector, Pending
<1>3. \A b \in Blocks :
        disk'[b] = IF Readable(w.to) /\ Address(w.to) = b THEN w.what ELSE disk[b]
  BY <1>1, SecondSectorOnDisk
<1>4. ASSUME NEW j \in 1 .. Len(main) - Len(pending) + 1, Readable(main[j].to)
      PROVE  disk'[Address(main[j].to)] = main[j].what
  <2>1. PICK v, a : v = main[j] /\ a = Address(v.to)
    OBVIOUS
  <2>2. v \in Writes /\ a \in Blocks
    <3>1. j \in 1 .. Len(main)
      BY <1>2
    <3> QED BY <1>4, <2>1, <3>1, MainWrites DEF Readable
  <2>3. CASE a = Address(w.to)
    <3>1. Readable(w.to)
      BY <2>2, <2>3 DEF Readable
    <3>2. w.what = v.what
      BY <1>2, <1>4, <2>1, <2>2, <2>3, <3>1, WritesFit
    <3> QED BY <1>3, <2>1, <2>2, <2>3, <3>1, <3>2
  <2>4. CASE a # Address(w.to)
    <3>1. j \in 1 .. Len(main) - Len(pending)
      BY <1>2, <2>1, <2>4
    <3>2. AsFormatted(disk, v)
      BY <1>1, <1>2, <2>1, <2>4, <3>1 DEF MInv, Formatted
    <3>3. disk[a] = v.what
      BY <1>4, <2>1, <3>2 DEF AsFormatted
    <3> QED BY <1>3, <2>1, <2>2, <2>4, <3>3
  <2> QED BY <2>3, <2>4
<1> QED BY <1>4 DEF AsFormatted

LEMMA SecondSectorKeeps == ASSUME MInv, WriteSecondSector PROVE MInv'
<1>1. PICK w, t : w = pending[1] /\ t = Tail(pending)
  OBVIOUS
<1>2. /\ pending # << >> /\ torn /\ torn' = FALSE /\ pending' = t /\ restarts' = restarts
      /\ session' = (session \/ t = << >>) /\ restarts \in Nat
      /\ session => t = << >>
      /\ Readable(w.to) => w.what # Torn
  BY <1>1, TornHasPending, NextWrite DEF MInv, WriteSecondSector, Written
<1>3. ASSUME ~session
      PROVE  /\ MainPending
             /\ Len(pending) \in Nat \ {0} /\ Len(main) \in Nat
             /\ t \in Seq(Writes) /\ Len(t) = Len(pending) - 1
             /\ \A m \in 1 .. Len(pending) - 1 : t[m] = pending[m + 1]
  BY <1>1, <1>3, NextMainWrite DEF MInv, Pending
<1>4. /\ disk' \in [Blocks -> Content \cup {Torn}]
      /\ \A b \in Blocks :
           disk'[b] = IF Readable(w.to) /\ Address(w.to) = b THEN w.what ELSE disk[b]
  BY <1>1, SecondSectorOnDisk
<1>5. Pending'
  <2>1. CASE t = << >>
    BY <1>2, <2>1 DEF Pending, SessionPending
  <2>2. CASE t # << >>
    <3>1. ~session
      BY <1>2, <2>2
    <3>2. Len(pending) <= Len(main)
          /\ \A m \in 1 .. Len(pending) : pending[m] = main[Len(main) - Len(pending) + m]
      BY <1>3, <3>1 DEF MainPending
    <3>3. PICK n, l, top : n = Len(pending) /\ l = Len(t) /\ top = Len(main)
      OBVIOUS
    <3>4. n \in Nat \ {0} /\ top \in Nat /\ l = n - 1
      BY <1>3, <3>1, <3>3
    <3>5. ASSUME NEW m \in 1 .. l PROVE t[m] = main[top - l + m]
      <4>1. m + 1 \in 1 .. n /\ m \in 1 .. n - 1 /\ top - n + (m + 1) = top - l + m
        BY <3>4
      <4>2. t[m] = pending[m + 1] /\ pending[m + 1] = main[top - n + (m + 1)]
        BY <1>3, <3>1, <3>2, <3>3, <4>1
      <4> QED BY <4>1, <4>2
    <3>6. l <= top
      BY <3>2, <3>3, <3>4
    <3> QED BY <1>2, <1>3, <2>2, <3>1, <3>3, <3>5, <3>6 DEF Pending, MainPending
  <2> QED BY <2>1, <2>2
<1>6. Formatted'
  <2> SUFFICES ASSUME ~session
               PROVE  \A j \in 1 .. Len(main) - Len(t) : AsFormatted(disk', main[j])
    BY <1>2 DEF Formatted
  <2>1. PICK n, l, top : n = Len(pending) /\ l = Len(t) /\ top = Len(main)
    OBVIOUS
  <2>2. n \in Nat \ {0} /\ top \in Nat /\ l = n - 1
    BY <1>3, <2>1
  <2>3. top - l = top - n + 1
    BY <2>2
  <2> QED BY <2>1, <2>3, SecondSectorWrites
<1>7. PICK old, new, a : /\ old = TornBlocks(disk) /\ new = TornBlocks(disk')
                         /\ a = Address(w.to)
  OBVIOUS
<1>8. /\ Readable(w.to) => new = old \ {a} /\ a \in old
      /\ ~Readable(w.to) => new = old
  <2>1. Readable(w.to) => a \in old
    BY <1>1, <1>2, <1>7 DEF MInv, TornCounted, BeingWritten
  <2> QED BY <1>2, <1>4, <1>7, <2>1 DEF TornBlocks
<1>9. ASSUME NEW b \in new \cap FormattedBlocks
      PROVE  /\ ~session
             /\ \E m \in 1 .. Len(t) : Readable(t[m].to) /\ Address(t[m].to) = b
  <2>1. b \in old /\ ~(Readable(w.to) /\ b = a)
    BY <1>8, <1>9
  <2>2. Readable(w.to) \/ b # a
    BY <2>1, <1>7 DEF TornBlocks, Readable
  <2>3. ~session
    BY <1>1, <1>7, <2>1, <2>2 DEF MInv, TornPending
  <2>4. PICK m \in 1 .. Len(pending) : Readable(pending[m].to) /\ Address(pending[m].to) = b
    BY <1>7, <2>1, <2>3 DEF MInv, TornPending
  <2>5. m # 1
    BY <1>1, <1>7, <2>1, <2>4
  <2>6. PICK k : k = m - 1
    OBVIOUS
  <2>7. k \in 1 .. Len(t) /\ k \in 1 .. Len(pending) - 1 /\ k + 1 = m
    BY <1>3, <2>3, <2>5, <2>6
  <2> QED BY <1>3, <2>3, <2>4, <2>7
<1>10. TornPending'
  <2> SUFFICES ASSUME NEW b \in new \cap FormattedBlocks
               PROVE  IF session'
                      THEN FALSE
                      ELSE \E m \in 1 .. Len(t) : Readable(t[m].to) /\ Address(t[m].to) = b
    BY <1>2, <1>7 DEF TornPending
  <2>1. PICK m \in 1 .. Len(t) : Readable(t[m].to) /\ Address(t[m].to) = b
    BY <1>9
  <2>2. t # << >>
    <3>1. Len(t) # 0
      BY <1>3, <1>9, <2>1
    <3>2. << >> \in Seq(Writes) /\ Len(<< >>) = 0
      BY EmptySeq
    <3> QED BY <3>1, <3>2
  <2> QED BY <1>2, <1>9, <2>1, <2>2
<1>11. IsFiniteSet(old) /\ Cardinality(old) \in Nat
       /\ Cardinality(old) <= restarts + IF Readable(w.to) THEN 1 ELSE 0
  BY <1>1, <1>2, <1>7, TornBlocksFinite DEF MInv, TornCounted, BeingWritten
<1>12. Cardinality(new) <= restarts
  <2>1. CASE Readable(w.to)
    <3>1. Cardinality(old \ {a}) = Cardinality(old) - 1
      BY <1>8, <1>11, <2>1, FS_RemoveElement
    <3>2. Cardinality(new) = Cardinality(old) - 1
      BY <1>8, <2>1, <3>1
    <3>3. Cardinality(old) <= restarts + 1
      BY <1>11, <2>1
    <3> QED BY <1>2, <1>11, <3>2, <3>3
  <2>2. CASE ~Readable(w.to)
    BY <1>2, <1>8, <1>11, <2>2
  <2> QED BY <2>1, <2>2
<1>13. TornCounted'
  BY <1>2, <1>7, <1>12 DEF TornCounted, BeingWritten
<1>14. session' \in BOOLEAN
  BY <1>2
<1> QED BY <1>2, <1>4, <1>5, <1>6, <1>10, <1>13, <1>14 DEF MInv

LEMMA RestartKeeps == ASSUME MInv, Restart PROVE MInv'
<1>1. pending' = main /\ torn' = FALSE /\ session' = FALSE
      /\ restarts' = restarts + 1 /\ disk' = disk
  BY DEF Restart
<1>2. Pending' /\ Formatted'
  BY <1>1, StartPending DEF Formatted, Pending
<1>3. TornPending'
  <2> SUFFICES ASSUME NEW b \in TornBlocks(disk) \cap FormattedBlocks
               PROVE  \E m \in 1 .. Len(main) : Readable(main[m].to) /\ Address(main[m].to) = b
    BY <1>1 DEF TornPending
  <2> QED BY DEF FormattedBlocks, Readable
<1>4. TornCounted'
  <2>1. Cardinality(TornBlocks(disk)) \in Nat /\ restarts \in Nat
    BY TornBlocksFinite DEF MInv
  <2>2. Cardinality(TornBlocks(disk)) <= restarts + 1
    BY <2>1 DEF MInv, TornCounted
  <2> QED BY <1>1, <2>1, <2>2 DEF TornCounted, BeingWritten
<1>5. restarts' \in Nat
  <2>1. restarts \in Nat
    BY DEF MInv
  <2> QED BY <1>1, <2>1
<1>6. disk' \in [Blocks -> Content \cup {Torn}]
  BY <1>1 DEF MInv
<1>7. torn' \in BOOLEAN /\ session' \in BOOLEAN
  BY <1>1
<1> QED BY <1>2, <1>3, <1>4, <1>5, <1>6, <1>7 DEF MInv

LEMMA UseDiskKeeps ==
  ASSUME MInv, NEW b \in SessionBlocks, NEW content \in Garbage, UseDisk(b, content)
  PROVE  MInv'
<1>1. session /\ pending = << >> /\ UNCHANGED <<disk, torn, session, restarts>>
      /\ pending' = <<write_to(b, content)>>
  BY DEF UseDisk
<1>2. ~torn
  <2> SUFFICES ASSUME torn PROVE FALSE
    OBVIOUS
  <2> QED BY <1>1, TornHasPending
<1>3. Pending' /\ Formatted'
  BY <1>1 DEF Pending, SessionPending, Formatted
<1>4. TornPending' /\ TornCounted'
  BY <1>1, <1>2 DEF MInv, TornPending, TornCounted, BeingWritten
<1> QED BY <1>1, <1>3, <1>4 DEF MInv

(* Neither crashes nor sessions, which are cut off between two sectors     *)
(* like the formatting, upset the next formatting.                         *)
THEOREM FormattingInvariant == Spec => []MInv
<1>1. ASSUME MInv, [Next]_vars PROVE MInv'
  <2>1. CASE UNCHANGED vars
    BY <1>1, <2>1
       DEF vars, MInv, Pending, MainPending, SessionPending, Formatted, TornPending,
           TornCounted, BeingWritten
  <2>2. CASE Next
    BY <1>1, <2>2, FirstSectorKeeps, SecondSectorKeeps, RestartKeeps, UseDiskKeeps
       DEF Next, WriteSector
  <2> QED BY <1>1, <2>1, <2>2
<1> QED BY <1>1, InitialMount, PTL DEF Spec

(* Each crash leaves at most one block half written, wherever the process  *)
(* was, and what main writes is whole in a session but for the block being *)
(* written.                                                                *)
THEOREM TornBlocksAreFew == Spec => []FewTornBlocks
<1>1. ASSUME MInv PROVE FewTornBlocks
  <2>1. Cardinality(TornBlocks(disk)) \in Nat /\ restarts \in Nat
    BY <1>1, TornBlocksFinite DEF MInv
  <2>2. Cardinality(TornBlocks(disk)) <= restarts + IF torn THEN 1 ELSE 0
    BY <1>1, <2>1 DEF MInv, TornCounted, BeingWritten
  <2>3. ASSUME session, NEW b \in TornBlocks(disk) \cap FormattedBlocks
        PROVE  torn /\ Address(Head(pending).to) = b
    <3>1. torn /\ Address(pending[1].to) = b
      BY <1>1, <2>3 DEF MInv, TornPending
    <3> QED BY <1>1, <3>1, TornHasPending, NextWrite
  <2> QED BY <2>2, <2>3 DEF FewTornBlocks
<1> QED BY <1>1, FormattingInvariant, PTL

(* A disk to which all of main was written is the formatted one, as far as *)
(* the formatting goes.                                                    *)
LEMMA AllWritten ==
  ASSUME NEW d, \A w \in Writes : AsFormatted(d, w)
  PROVE  /\ MetadataAtHome(d)
         /\ d[1] = SuperBlock
         /\ \A b \in InodeBlocks : d[b] = FormattedDisk[b]
<1>1. ASSUME NEW w \in Writes, Readable(w.to)
      PROVE  d[Address(w.to)] = Target(Address(w.to))
  BY <1>1, WritesFit DEF AsFormatted
<1>2. 1 \in Blocks
  <2>1. 0 \in Groups /\ 0 \in 0 .. GroupSize - 1
    BY LayoutNumbers DEF Groups
  <2>2. get_starting_block_group_descriptor(0) \in Blocks
        /\ get_starting_block_group_descriptor(0) >= 2
    BY <2>1, AreaOnDisk, HomesApart
  <2> QED BY <2>2, LayoutNumbers DEF Blocks
<1>3. d[1] = SuperBlock
  <2>1. write_to(1, SuperBlock) \in Writes /\ write_to(1, SuperBlock).to = 1
    BY DEF Writes, write_to
  <2>2. Readable(1) /\ Address(1) = 1
    BY <1>2, BlocksReadable
  <2> QED BY <1>1, <2>1, <2>2 DEF Target
<1>4. ASSUME NEW g \in Groups
      PROVE  /\ descriptor(d, g) = descriptor(FormattedDisk, g)
             /\ inode_bitmap(d, g) = inode_bitmap(FormattedDisk, g)
             /\ block_bitmap(d, g) = block_bitmap(FormattedDisk, g)
  <2>1. ASSUME NEW b \in {get_starting_block_group_descriptor(g),
                          get_starting_block_inode_bitmap(g),
                          get_starting_block_bitmap(g)}
        PROVE  d[b] = FormattedDisk[b]
    <3>1. PICK what : write_to(b, what) \in Writes
      <4>1. CASE b = get_starting_block_group_descriptor(g)
        BY <4>1 DEF Writes, DescriptorWrites
      <4>2. CASE b # get_starting_block_group_descriptor(g)
        BY <2>1, <4>2 DEF Writes, BitMapWrites
      <4> QED BY <4>1, <4>2
    <3>2. write_to(b, what).to = b
      BY DEF write_to
    <3>3. b \in Blocks /\ Readable(b) /\ Address(b) = b
      BY <2>1, HomesApart, BlocksReadable
    <3>4. b # 1
      BY <2>1, AreaOnDisk, LayoutNumbers, MetadataPlaces, HomesApart DEF Blocks
    <3> QED BY <1>1, <3>1, <3>2, <3>3, <3>4 DEF Target
  <2> QED BY <2>1 DEF descriptor, inode_bitmap, block_bitmap
<1>5. MetadataAtHome(d)
  <2>1. MetadataAtHome(FormattedDisk)
    BY FormattedSound DEF Sound
  <2> QED BY <1>4, <2>1 DEF MetadataAtHome
<1>6. ASSUME NEW b \in InodeBlocks PROVE d[b] = FormattedDisk[b]
  <2>1. PICK i \in FormattedInodes : b = Address(get_starting_block_inode(i)) /\ b \in Blocks
    BY DEF InodeBlocks
  <2>2. PICK w : w = write_to(get_starting_block_inode(i), FreshInode(i))
    OBVIOUS
  <2>3. w \in Writes /\ w.to = get_starting_block_inode(i)
    BY <2>2 DEF Writes, InodeWrites, write_to
  <2>4. Readable(w.to) /\ Address(w.to) = b
    BY <2>1, <2>3 DEF Readable
  <2>5. b # 1
    BY <2>1, <2>3, <2>4, SlotAssumption, UidAssumption
  <2> QED BY <1>1, <2>3, <2>4, <2>5 DEF Target
<1> QED BY <1>3, <1>5, <1>6

(* Formatting ends with every descriptor, bitmap, reachable inode and the  *)
(* super block as new, whatever it found and whatever crashed before.      *)
THEOREM FormattingIsComplete == Spec => FormatsEverything
<1>1. ASSUME MInv, Next, ~session, session'
      PROVE  /\ MetadataAtHome(disk')
             /\ disk'[1] = SuperBlock
             /\ \A b \in InodeBlocks : disk'[b] = FormattedDisk[b]
  <2>1. WriteSecondSector
    BY <1>1 DEF Next, WriteSector, WriteFirstSector, UseDisk, Restart
  <2>2. PICK t, n, top : t = Tail(pending) /\ n = Len(pending) /\ top = Len(main)
    OBVIOUS
  <2>3. n \in Nat \ {0} /\ top \in Nat /\ Len(t) = n - 1
    BY <1>1, <2>2, NextMainWrite DEF MInv, Pending
  <2>4. top - n + 1 = top
    <3>1. t = << >>
      BY <1>1, <2>1, <2>2 DEF WriteSecondSector, Written
    <3>2. Len(t) = 0
      BY <3>1
    <3> QED BY <2>3, <3>2
  <2>5. \A j \in 1 .. Len(main) : AsFormatted(disk', main[j])
    BY <1>1, <2>1, <2>2, <2>4, SecondSectorWrites
  <2>6. PICK d : d = disk'
    OBVIOUS
  <2>7. \A w \in Writes : AsFormatted(d, w)
    BY <2>5, <2>6, MainWrites
  <2>8. /\ MetadataAtHome(d) /\ d[1] = SuperBlock
        /\ \A b \in InodeBlocks : d[b] = FormattedDisk[b]
    BY <2>7, AllWritten
  <2> QED BY <2>6, <2>8
<1>2. ASSUME MInv, [Next]_vars
      PROVE  [~session /\ session' =>
                /\ MetadataAtHome(disk')
                /\ disk'[1] = SuperBlock
                /\ \A b \in InodeBlocks : disk'[b] = FormattedDisk[b]]_vars
  BY <1>1, <1>2
<1> QED BY <1>2, FormattingInvariant, PTL DEF Spec, FormatsEverything
===============================================================================
