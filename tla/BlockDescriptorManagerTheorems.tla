-------------------- MODULE BlockDescriptorManagerTheorems --------------------
(***************************************************************************)
(* For every layout: the metadata stays where it belongs, the bitmaps      *)
(* record every allocation, groups never share a number, and both          *)
(* allocators implement FreshNumbers.                                      *)
(*                                                                         *)
(* The inductive invariant IInv says more than the invariants that are     *)
(* checked: no stray record may look like a descriptor, or the descriptor  *)
(* read for a group that does not exist could be written over a real one.  *)
(***************************************************************************)
EXTENDS BlockDescriptorManager, BlockGroupTheorems

(* The numbers of one bitmap, -1 standing for the overflow number, as a    *)
(* function of the bit, and the record a bitmap keeps of what was given.   *)
InodeNumbering(g) == [bit \in -1 .. NUM_INODES_PER_GROUP - 1 |-> InodeNumber(g, bit)]
BlockNumbering(g) == [bit \in -1 .. DATA_BLOCKS_PER_GROUP - 1 |-> DataBlock(g, bit)]

IsNumbering(number, top) ==
  /\ top \in Nat
  /\ number \in [-1 .. top - 1 -> Nat]
  /\ \A a, b \in -1 .. top - 1 : number[a] = number[b] => a = b

Recorded(given, bits, number, top) ==
  /\ IsNumbering(number, top)
  /\ given \in Seq(Nat)
  /\ bits \in SUBSET (0 .. top - 1)
  /\ Range(given) \ {number[-1]} = { number[bit] : bit \in bits }
  /\ number[-1] \in Range(given) => 0 .. top - 1 \subseteq bits

IInv ==
  /\ Sound(disk)
  /\ inodes_given \in [Groups -> Seq(Nat)]
  /\ blocks_given \in [Groups -> Seq(Nat)]
  /\ \A g \in Groups :
       /\ Recorded(inodes_given[g], InodeBitsOf(disk)[g], InodeNumbering(g),
                   NUM_INODES_PER_GROUP)
       /\ Recorded(blocks_given[g], DataBitsOf(disk)[g], BlockNumbering(g),
                   DATA_BLOCKS_PER_GROUP)

-----------------------------------------------------------------------------

(* A call adds its result to the range of the history.                     *)
LEMMA RangeAppend ==
  ASSUME NEW given \in Seq(Nat), NEW n \in Nat
  PROVE  /\ Append(given, n) \in Seq(Nat)
         /\ Range(Append(given, n)) = Range(given) \cup {n}
<1>1. /\ Append(given, n) \in Seq(Nat)
      /\ DOMAIN given = 1 .. Len(given)
      /\ DOMAIN Append(given, n) = 1 .. Len(given) + 1
      /\ Len(given) \in Nat
  OBVIOUS
<1>2. /\ \A k \in 1 .. Len(given) : Append(given, n)[k] = given[k]
      /\ Append(given, n)[Len(given) + 1] = n
  OBVIOUS
<1>3. 1 .. Len(given) + 1 = (1 .. Len(given)) \cup {Len(given) + 1}
  BY <1>1
<1> QED BY <1>1, <1>2, <1>3 DEF Range

(* A full bitmap gives its overflow number, after all the others.          *)
LEMMA RecordOverflow ==
  ASSUME NEW top, NEW number, NEW given, NEW bits,
         Recorded(given, bits, number, top), 0 .. top - 1 \subseteq bits
  PROVE  /\ Recorded(Append(given, number[-1]), bits, number, top)
         /\ number[-1] \in Nat
         /\ \A bit \in 0 .. top - 1 : number[bit] \in Range(given)
<1>1. /\ top \in Nat
      /\ number \in [-1 .. top - 1 -> Nat]
      /\ \A a, b \in -1 .. top - 1 : number[a] = number[b] => a = b
      /\ given \in Seq(Nat)
      /\ bits \in SUBSET (0 .. top - 1)
      /\ Range(given) \ {number[-1]} = { number[bit] : bit \in bits }
  BY DEF Recorded, IsNumbering
<1>2. number[-1] \in Nat
  BY <1>1
<1>3. /\ Append(given, number[-1]) \in Seq(Nat)
      /\ Range(Append(given, number[-1])) = Range(given) \cup {number[-1]}
  BY <1>1, <1>2, RangeAppend
<1>4. Recorded(Append(given, number[-1]), bits, number, top)
  BY <1>1, <1>3 DEF Recorded
<1>5. \A bit \in 0 .. top - 1 : number[bit] \in Range(given)
  BY <1>1
<1> QED BY <1>2, <1>4, <1>5

(* A clear bit gives a number that was not given before.                   *)
LEMMA RecordFresh ==
  ASSUME NEW top, NEW number, NEW given, NEW bits,
         Recorded(given, bits, number, top), NEW bit \in (0 .. top - 1) \ bits
  PROVE  /\ Recorded(Append(given, number[bit]), bits \cup {bit}, number, top)
         /\ number[bit] \in Nat
         /\ number[bit] \notin Range(given)
<1>1. /\ top \in Nat
      /\ number \in [-1 .. top - 1 -> Nat]
      /\ \A a, b \in -1 .. top - 1 : number[a] = number[b] => a = b
      /\ given \in Seq(Nat)
      /\ bits \in SUBSET (0 .. top - 1)
      /\ Range(given) \ {number[-1]} = { number[b] : b \in bits }
      /\ number[-1] \in Range(given) => 0 .. top - 1 \subseteq bits
  BY DEF Recorded, IsNumbering
<1>2. /\ bit \in -1 .. top - 1 /\ bit # -1 /\ -1 \in -1 .. top - 1
      /\ \A b \in bits : b \in -1 .. top - 1 /\ b # bit
  BY <1>1
<1>3. number[bit] \in Nat /\ number[bit] # number[-1]
  BY <1>1, <1>2
<1>4. \A b \in bits : number[b] # number[bit]
  BY <1>1, <1>2
<1>5. number[bit] \notin Range(given)
  BY <1>1, <1>3, <1>4
<1>6. /\ Append(given, number[bit]) \in Seq(Nat)
      /\ Range(Append(given, number[bit])) = Range(given) \cup {number[bit]}
  BY <1>1, <1>3, RangeAppend
<1>7. number[-1] \notin Range(given)
  BY <1>1
<1>8. (Range(given) \cup {number[bit]}) \ {number[-1]}
        = { number[b] : b \in bits \cup {bit} }
  BY <1>1, <1>3, <1>7
<1>9. Recorded(Append(given, number[bit]), bits \cup {bit}, number, top)
  <2>1. IsNumbering(number, top) BY DEF Recorded
  <2>2. bits \cup {bit} \in SUBSET (0 .. top - 1) BY <1>1
  <2>3. number[-1] \notin Range(Append(given, number[bit]))
    BY <1>3, <1>6, <1>7
  <2>4. Range(Append(given, number[bit])) \ {number[-1]}
          = { number[b] : b \in bits \cup {bit} }
    BY <1>3, <1>6, <1>7, <1>8
  <2> QED BY <1>6, <2>1, <2>2, <2>3, <2>4 DEF Recorded
<1> QED BY <1>3, <1>5, <1>9

(* Every number given is a number of the map or its overflow number.       *)
LEMMA RecordedNumbers ==
  ASSUME NEW top, NEW number, NEW given, NEW bits,
         Recorded(given, bits, number, top), NEW n \in Range(given)
  PROVE  \E bit \in -1 .. top - 1 : n = number[bit]
<1>1. /\ top \in Nat
      /\ bits \in SUBSET (0 .. top - 1)
      /\ Range(given) \ {number[-1]} = { number[b] : b \in bits }
  BY DEF Recorded, IsNumbering
<1>2. -1 \in -1 .. top - 1 /\ \A b \in bits : b \in -1 .. top - 1
  BY <1>1
<1> QED BY <1>1, <1>2

(* The numberings are injective.                                           *)
LEMMA Numberings ==
  ASSUME NEW g \in Groups
  PROVE  /\ IsNumbering(InodeNumbering(g), NUM_INODES_PER_GROUP)
         /\ IsNumbering(BlockNumbering(g), DATA_BLOCKS_PER_GROUP)
         /\ \A bit \in -1 .. NUM_INODES_PER_GROUP - 1 :
              InodeNumbering(g)[bit] = InodeNumber(g, bit)
         /\ \A bit \in -1 .. DATA_BLOCKS_PER_GROUP - 1 :
              BlockNumbering(g)[bit] = DataBlock(g, bit)
         /\ InodeNumbering(g)[-1] = ExhaustedInode(g)
         /\ BlockNumbering(g)[-1] = ExhaustedBlock(g)
<1>1. /\ InodeNumbering(g) \in [-1 .. NUM_INODES_PER_GROUP - 1 -> Nat]
      /\ \A bit \in -1 .. NUM_INODES_PER_GROUP - 1 :
           InodeNumbering(g)[bit] = InodeNumber(g, bit)
  BY InodeNumbersApart DEF InodeNumbering
<1>2. \A a, b \in -1 .. NUM_INODES_PER_GROUP - 1 :
        InodeNumbering(g)[a] = InodeNumbering(g)[b] => a = b
  BY InodeNumbersApart DEF InodeNumbering
<1>3. /\ BlockNumbering(g) \in [-1 .. DATA_BLOCKS_PER_GROUP - 1 -> Nat]
      /\ \A bit \in -1 .. DATA_BLOCKS_PER_GROUP - 1 :
           BlockNumbering(g)[bit] = DataBlock(g, bit)
  BY DataBlocksApart DEF BlockNumbering
<1>4. \A a, b \in -1 .. DATA_BLOCKS_PER_GROUP - 1 :
        BlockNumbering(g)[a] = BlockNumbering(g)[b] => a = b
  BY DataBlocksApart DEF BlockNumbering
<1>5. /\ NUM_INODES_PER_GROUP \in Nat /\ -1 \in -1 .. NUM_INODES_PER_GROUP - 1
      /\ DATA_BLOCKS_PER_GROUP \in Nat /\ -1 \in -1 .. DATA_BLOCKS_PER_GROUP - 1
  BY LayoutNumbers
<1>6. /\ InodeNumbering(g)[-1] = ExhaustedInode(g)
      /\ BlockNumbering(g)[-1] = ExhaustedBlock(g)
  BY <1>1, <1>3, <1>5 DEF ExhaustedInode, ExhaustedBlock
<1> QED BY <1>1, <1>2, <1>3, <1>4, <1>5, <1>6 DEF IsNumbering

(* The bits set in a sound disk are bits of the maps.                      *)
LEMMA SoundBits ==
  ASSUME NEW d, Sound(d), NEW g \in Groups
  PROVE  /\ InodeBitsOf(d)[g] = inode_bitmap(d, g).bits
         /\ InodeBitsOf(d)[g] \in SUBSET (0 .. NUM_INODES_PER_GROUP - 1)
         /\ DataBitsOf(d)[g] = block_bitmap(d, g).bits
         /\ DataBitsOf(d)[g] \in SUBSET (0 .. DATA_BLOCKS_PER_GROUP - 1)
  BY DEF InodeBitsOf, DataBitsOf, Sound, MetadataAtHome, InodeBits, DataBits

-----------------------------------------------------------------------------

(* So are all the numbers in the two histories.                            *)
LEMMA GivenNumbers ==
  ASSUME IInv, NEW g \in Groups
  PROVE  /\ \A n \in Range(inodes_given[g]) :
              \E bit \in -1 .. NUM_INODES_PER_GROUP - 1 : n = InodeNumber(g, bit)
         /\ \A n \in Range(blocks_given[g]) :
              \E bit \in -1 .. DATA_BLOCKS_PER_GROUP - 1 : n = DataBlock(g, bit)
<1>1. ASSUME NEW n \in Range(inodes_given[g])
      PROVE  \E bit \in -1 .. NUM_INODES_PER_GROUP - 1 : n = InodeNumber(g, bit)
  <2>1. Recorded(inodes_given[g], InodeBitsOf(disk)[g], InodeNumbering(g),
                 NUM_INODES_PER_GROUP)
    BY DEF IInv
  <2>2. \E bit \in -1 .. NUM_INODES_PER_GROUP - 1 : n = InodeNumbering(g)[bit]
    BY <2>1, RecordedNumbers
  <2> QED BY <2>2, Numberings
<1>2. ASSUME NEW n \in Range(blocks_given[g])
      PROVE  \E bit \in -1 .. DATA_BLOCKS_PER_GROUP - 1 : n = DataBlock(g, bit)
  <2>1. Recorded(blocks_given[g], DataBitsOf(disk)[g], BlockNumbering(g),
                 DATA_BLOCKS_PER_GROUP)
    BY DEF IInv
  <2>2. \E bit \in -1 .. DATA_BLOCKS_PER_GROUP - 1 : n = BlockNumbering(g)[bit]
    BY <2>1, RecordedNumbers
  <2> QED BY <2>2, Numberings
<1> QED BY <1>1, <1>2

(* An inode number that was given is one that SlotAssumption speaks of,    *)
(* and a data block that was given is on the disk and holds no metadata.   *)
LEMMA GivenClear ==
  ASSUME IInv
  PROVE  /\ GivenInodes \subseteq InodeNumbers
         /\ GivenBlocks \subseteq Blocks \ MetadataBlocks
<1>1. ASSUME NEW n \in GivenInodes PROVE n \in InodeNumbers
  <2>1. PICK g \in Groups : n \in Range(inodes_given[g])
    BY DEF GivenInodes
  <2>2. PICK bit \in -1 .. NUM_INODES_PER_GROUP - 1 : n = InodeNumber(g, bit)
    BY <2>1, GivenNumbers
  <2> QED BY <2>2, UidAssumption
<1>2. ASSUME NEW n \in GivenBlocks PROVE n \in Blocks \ MetadataBlocks
  <2>1. PICK g \in Groups : n \in Range(blocks_given[g])
    BY DEF GivenBlocks
  <2>2. PICK bit \in -1 .. DATA_BLOCKS_PER_GROUP - 1 : n = DataBlock(g, bit)
    BY <2>1, GivenNumbers
  <2> QED BY <2>2, DataBlocksApart
<1> QED BY <1>1, <1>2

(* Steps that leave the histories and all bits alone keep IInv.            *)
LEMMA KeepsRecords ==
  ASSUME IInv, Sound(disk'), SameBits(disk', disk),
         UNCHANGED <<inodes_given, blocks_given>>
  PROVE  IInv'
<1>1. InodeBitsOf(disk') = InodeBitsOf(disk) /\ DataBitsOf(disk') = DataBitsOf(disk)
  BY DEF SameBits
<1> QED BY <1>1 DEF IInv

-----------------------------------------------------------------------------

(* The step of the inode pool that one action makes.                       *)
InodePoolStep(g) ==
  \/ UNCHANGED inodes_given
  \/ \E bit \in InodeBits :
       /\ InodeNumber(g, bit) \notin Range(inodes_given[g])
       /\ inodes_given' = [inodes_given EXCEPT ![g] = Append(@, InodeNumber(g, bit))]
  \/ /\ { InodeNumber(g, bit) : bit \in InodeBits } \subseteq Range(inodes_given[g])
     /\ inodes_given' = [inodes_given EXCEPT ![g] = Append(@, ExhaustedInode(g))]

BlockPoolStep(g) ==
  \/ UNCHANGED blocks_given
  \/ \E bit \in DataBits :
       /\ DataBlock(g, bit) \notin Range(blocks_given[g])
       /\ blocks_given' = [blocks_given EXCEPT ![g] = Append(@, DataBlock(g, bit))]
  \/ /\ { DataBlock(g, bit) : bit \in DataBits } \subseteq Range(blocks_given[g])
     /\ blocks_given' = [blocks_given EXCEPT ![g] = Append(@, ExhaustedBlock(g))]

(* The result of a search goes into the history, unless it is -1.          *)
InodeRecorded(g, ret) ==
  /\ inodes_given' = IF ret = -1
                     THEN inodes_given
                     ELSE [inodes_given EXCEPT ![g] = Append(@, ret)]
  /\ UNCHANGED blocks_given

BlockRecorded(g, ret) ==
  /\ blocks_given' = IF ret = -1
                     THEN blocks_given
                     ELSE [blocks_given EXCEPT ![g] = Append(@, ret)]
  /\ UNCHANGED inodes_given

(* Once a search has found an inode number, or none, the history and the   *)
(* bitmap agree again.                                                     *)
LEMMA RecordInode ==
  ASSUME IInv, NEW g \in Groups, NEW ret, Sound(disk'),
         InodeFound(disk, disk', g, ret), InodeRecorded(g, ret)
  PROVE  IInv' /\ InodePoolStep(g)
<1>1. PICK number, bits, given :
        /\ number = InodeNumbering(g)
        /\ bits = InodeBitsOf(disk)[g]
        /\ given = inodes_given[g]
  OBVIOUS
<1>2. /\ Recorded(given, bits, number, NUM_INODES_PER_GROUP)
      /\ inodes_given \in [Groups -> Seq(Nat)]
      /\ blocks_given \in [Groups -> Seq(Nat)]
  BY <1>1 DEF IInv
<1>3. ASSUME NEW n, ret = n, NEW new,
             InodeBitsOf(disk') = [InodeBitsOf(disk) EXCEPT ![g] = new],
             n \in Nat, Recorded(Append(given, n), new, number, NUM_INODES_PER_GROUP)
      PROVE  /\ IInv'
             /\ inodes_given' = [inodes_given EXCEPT ![g] = Append(@, n)]
  <2>1. inodes_given' = [inodes_given EXCEPT ![g] = Append(@, n)]
    BY <1>3 DEF InodeRecorded
  <2>2. /\ blocks_given' = blocks_given
        /\ DataBitsOf(disk') = DataBitsOf(disk)
    BY DEF InodeRecorded, InodeFound
  <2>3. InodeBitsOf(disk')[g] = new /\ inodes_given'[g] = Append(given, n)
    BY <1>1, <1>2, <1>3, <2>1 DEF InodeBitsOf
  <2>4. \A h \in Groups : h # g =>
          InodeBitsOf(disk')[h] = InodeBitsOf(disk)[h] /\ inodes_given'[h] = inodes_given[h]
    BY <1>2, <1>3, <2>1 DEF InodeBitsOf
  <2>5. inodes_given' \in [Groups -> Seq(Nat)]
    <3>1. Append(given, n) \in Seq(Nat) BY <1>3 DEF Recorded
    <3> QED BY <1>1, <1>2, <2>1, <3>1
  <2>6. ASSUME NEW h \in Groups
        PROVE  Recorded(inodes_given'[h], InodeBitsOf(disk')[h], InodeNumbering(h),
                        NUM_INODES_PER_GROUP)
    <3>1. CASE h = g BY <1>1, <1>3, <2>3, <3>1
    <3>2. CASE h # g BY <2>4, <3>2 DEF IInv
    <3> QED BY <3>1, <3>2
  <2> QED BY <1>2, <2>1, <2>2, <2>5, <2>6 DEF IInv
<1>4. CASE ret = -1 /\ InodeBitsOf(disk') = InodeBitsOf(disk)
  <2>1. UNCHANGED <<inodes_given, blocks_given>> /\ SameBits(disk', disk)
    BY <1>4 DEF InodeRecorded, InodeFound, SameBits
  <2> QED BY <2>1, KeepsRecords DEF InodePoolStep
<1>5. CASE /\ InodeMapFull(disk, g)
           /\ ret = ExhaustedInode(g)
           /\ InodeBitsOf(disk') = InodeBitsOf(disk)
  <2>1. InodeBits \subseteq bits
    BY <1>1, <1>5, SoundBits DEF IInv, InodeMapFull
  <2>2. /\ Recorded(Append(given, number[-1]), bits, number, NUM_INODES_PER_GROUP)
        /\ number[-1] \in Nat
        /\ \A bit \in InodeBits : number[bit] \in Range(given)
    BY <1>2, <2>1, RecordOverflow DEF InodeBits
  <2>3. number[-1] = ExhaustedInode(g)
    BY <1>1, Numberings
  <2>4. InodeBitsOf(disk') = [InodeBitsOf(disk) EXCEPT ![g] = bits]
    BY <1>1, <1>5 DEF InodeBitsOf
  <2>5. IInv' /\ inodes_given' = [inodes_given EXCEPT ![g] = Append(@, ExhaustedInode(g))]
    BY <1>3, <1>5, <2>2, <2>3, <2>4
  <2>6. { InodeNumber(g, bit) : bit \in InodeBits } \subseteq Range(inodes_given[g])
    <3>1. \A bit \in InodeBits : number[bit] = InodeNumber(g, bit)
      BY <1>1, Numberings, LayoutNumbers DEF InodeBits
    <3> QED BY <1>1, <2>2, <3>1
  <2> QED BY <2>5, <2>6 DEF InodePoolStep
<1>6. CASE \E bit \in InodeBits \ InodeBitsOf(disk)[g] :
             /\ ret = InodeNumber(g, bit)
             /\ InodeBitsOf(disk') = [InodeBitsOf(disk) EXCEPT ![g] = @ \cup {bit}]
  <2>1. PICK bit \in InodeBits \ bits :
          /\ ret = InodeNumber(g, bit)
          /\ InodeBitsOf(disk') = [InodeBitsOf(disk) EXCEPT ![g] = bits \cup {bit}]
    BY <1>1, <1>6
  <2>2. /\ Recorded(Append(given, number[bit]), bits \cup {bit}, number,
                    NUM_INODES_PER_GROUP)
        /\ number[bit] \in Nat
        /\ number[bit] \notin Range(given)
    BY <1>2, RecordFresh DEF InodeBits
  <2>3. number[bit] = InodeNumber(g, bit)
    BY <1>1, Numberings, LayoutNumbers DEF InodeBits
  <2>4. IInv' /\ inodes_given' = [inodes_given EXCEPT ![g] = Append(@, InodeNumber(g, bit))]
    BY <1>3, <2>1, <2>2, <2>3
  <2> QED BY <1>1, <2>2, <2>3, <2>4 DEF InodePoolStep
<1> QED BY <1>4, <1>5, <1>6 DEF InodeFound

(* The same for a search for a data block.                                 *)
LEMMA RecordBlock ==
  ASSUME IInv, NEW g \in Groups, NEW ret, Sound(disk'),
         BlockFound(disk, disk', g, ret), BlockRecorded(g, ret)
  PROVE  IInv' /\ BlockPoolStep(g)
<1>1. PICK number, bits, given :
        /\ number = BlockNumbering(g)
        /\ bits = DataBitsOf(disk)[g]
        /\ given = blocks_given[g]
  OBVIOUS
<1>2. /\ Recorded(given, bits, number, DATA_BLOCKS_PER_GROUP)
      /\ blocks_given \in [Groups -> Seq(Nat)]
      /\ inodes_given \in [Groups -> Seq(Nat)]
  BY <1>1 DEF IInv
<1>3. ASSUME NEW n, ret = n, NEW new,
             DataBitsOf(disk') = [DataBitsOf(disk) EXCEPT ![g] = new],
             n \in Nat, Recorded(Append(given, n), new, number, DATA_BLOCKS_PER_GROUP)
      PROVE  /\ IInv'
             /\ blocks_given' = [blocks_given EXCEPT ![g] = Append(@, n)]
  <2>1. blocks_given' = [blocks_given EXCEPT ![g] = Append(@, n)]
    BY <1>3 DEF BlockRecorded
  <2>2. /\ inodes_given' = inodes_given
        /\ InodeBitsOf(disk') = InodeBitsOf(disk)
    BY DEF BlockRecorded, BlockFound
  <2>3. DataBitsOf(disk')[g] = new /\ blocks_given'[g] = Append(given, n)
    BY <1>1, <1>2, <1>3, <2>1 DEF DataBitsOf
  <2>4. \A h \in Groups : h # g =>
          DataBitsOf(disk')[h] = DataBitsOf(disk)[h] /\ blocks_given'[h] = blocks_given[h]
    BY <1>2, <1>3, <2>1 DEF DataBitsOf
  <2>5. blocks_given' \in [Groups -> Seq(Nat)]
    <3>1. Append(given, n) \in Seq(Nat) BY <1>3 DEF Recorded
    <3> QED BY <1>1, <1>2, <2>1, <3>1
  <2>6. ASSUME NEW h \in Groups
        PROVE  Recorded(blocks_given'[h], DataBitsOf(disk')[h], BlockNumbering(h),
                        DATA_BLOCKS_PER_GROUP)
    <3>1. CASE h = g BY <1>1, <1>3, <2>3, <3>1
    <3>2. CASE h # g BY <2>4, <3>2 DEF IInv
    <3> QED BY <3>1, <3>2
  <2> QED BY <1>2, <2>1, <2>2, <2>5, <2>6 DEF IInv
<1>4. CASE ret = -1 /\ DataBitsOf(disk') = DataBitsOf(disk)
  <2>1. UNCHANGED <<blocks_given, inodes_given>> /\ SameBits(disk', disk)
    BY <1>4 DEF BlockRecorded, BlockFound, SameBits
  <2> QED BY <2>1, KeepsRecords DEF BlockPoolStep
<1>5. CASE /\ DataMapFull(disk, g)
           /\ ret = ExhaustedBlock(g)
           /\ DataBitsOf(disk') = DataBitsOf(disk)
  <2>1. DataBits \subseteq bits
    BY <1>1, <1>5, SoundBits DEF IInv, DataMapFull
  <2>2. /\ Recorded(Append(given, number[-1]), bits, number, DATA_BLOCKS_PER_GROUP)
        /\ number[-1] \in Nat
        /\ \A bit \in DataBits : number[bit] \in Range(given)
    BY <1>2, <2>1, RecordOverflow DEF DataBits
  <2>3. number[-1] = ExhaustedBlock(g)
    BY <1>1, Numberings
  <2>4. DataBitsOf(disk') = [DataBitsOf(disk) EXCEPT ![g] = bits]
    BY <1>1, <1>5 DEF DataBitsOf
  <2>5. IInv' /\ blocks_given' = [blocks_given EXCEPT ![g] = Append(@, ExhaustedBlock(g))]
    BY <1>3, <1>5, <2>2, <2>3, <2>4
  <2>6. { DataBlock(g, bit) : bit \in DataBits } \subseteq Range(blocks_given[g])
    <3>1. \A bit \in DataBits : number[bit] = DataBlock(g, bit)
      BY <1>1, Numberings, LayoutNumbers DEF DataBits
    <3> QED BY <1>1, <2>2, <3>1
  <2> QED BY <2>5, <2>6 DEF BlockPoolStep
<1>6. CASE \E bit \in DataBits \ DataBitsOf(disk)[g] :
             /\ ret = DataBlock(g, bit)
             /\ DataBitsOf(disk') = [DataBitsOf(disk) EXCEPT ![g] = @ \cup {bit}]
  <2>1. PICK bit \in DataBits \ bits :
          /\ ret = DataBlock(g, bit)
          /\ DataBitsOf(disk') = [DataBitsOf(disk) EXCEPT ![g] = bits \cup {bit}]
    BY <1>1, <1>6
  <2>2. /\ Recorded(Append(given, number[bit]), bits \cup {bit}, number,
                    DATA_BLOCKS_PER_GROUP)
        /\ number[bit] \in Nat
        /\ number[bit] \notin Range(given)
    BY <1>2, RecordFresh DEF DataBits
  <2>3. number[bit] = DataBlock(g, bit)
    BY <1>1, Numberings, LayoutNumbers DEF DataBits
  <2>4. IInv' /\ blocks_given' = [blocks_given EXCEPT ![g] = Append(@, DataBlock(g, bit))]
    BY <1>3, <2>1, <2>2, <2>3
  <2> QED BY <1>1, <2>2, <2>3, <2>4 DEF BlockPoolStep
<1> QED BY <1>4, <1>5, <1>6 DEF BlockFound

(* Allocating an inode keeps the invariant and is a step of the pool.      *)
LEMMA AllocateInodeStep ==
  ASSUME IInv, NEW g \in Groups, AllocateInode(g)
  PROVE  IInv' /\ InodePoolStep(g) /\ UNCHANGED blocks_given
<1>1. PICK block_descriptor : block_descriptor = read_block_descriptor(disk, g)
  OBVIOUS
<1>2. PICK found : found = find_first_empty_inode(disk, g, block_descriptor)
  OBVIOUS
<1>3. /\ disk' = FlushRecord(found.disk, block_descriptor)
      /\ inodes_given' = IF found.ret = -1
                         THEN inodes_given
                         ELSE [inodes_given EXCEPT ![g] = Append(@, found.ret)]
      /\ UNCHANGED blocks_given
  BY <1>1, <1>2 DEF AllocateInode
<1>4. /\ Sound(disk)
      /\ inodes_given \in [Groups -> Seq(Nat)]
      /\ blocks_given \in [Groups -> Seq(Nat)]
  BY DEF IInv
<1>5. Sound(found.disk) /\ InodeFound(disk, found.disk, g, found.ret)
  BY <1>2, <1>4, FindInode
<1>6. /\ block_descriptor \in BlockGroupDescriptor
      /\ block_descriptor.block_number = get_starting_block_group_descriptor(g)
  <2>1. g \in Nat BY GroupsAreNumbers
  <2>2. get_starting_block_group_descriptor(g) < OFFSET_SPAN
    BY HomesApart, LayoutNumbers DEF Blocks
  <2> QED BY <1>1, <1>4, <2>1, <2>2, ReadDescriptor
<1>7. /\ Sound(disk')
      /\ SameBits(disk', found.disk)
  BY <1>3, <1>5, <1>6, FlushDescriptor
<1>8. InodeFound(disk, disk', g, found.ret)
  BY <1>5, <1>7 DEF SameBits, InodeFound
<1>9. InodeRecorded(g, found.ret)
  BY <1>3 DEF InodeRecorded
<1> QED BY <1>3, <1>7, <1>8, <1>9, RecordInode

(* Allocating a data block on behalf of an inode keeps the invariant and   *)
(* is a step of the other pool.                                            *)
LEMMA AllocateBlockStep ==
  ASSUME IInv, NEW i \in GivenInodes, AllocateBlock(i)
  PROVE  /\ IInv'
         /\ \/ UNCHANGED blocks_given
            \/ \E g \in Groups : BlockPoolStep(g)
         /\ UNCHANGED inodes_given
<1>1. PICK g : g = i \div NUM_INODES_PER_GROUP
  OBVIOUS
<1>2. PICK found : found = find_first_empty_data_block(disk, i)
  OBVIOUS
<1>3. /\ disk' = found.disk
      /\ blocks_given' = IF found.ret = -1
                         THEN blocks_given
                         ELSE [blocks_given EXCEPT ![g] = Append(@, found.ret)]
      /\ UNCHANGED inodes_given
  BY <1>1, <1>2 DEF AllocateBlock
<1>4. Sound(disk)
  BY DEF IInv
<1>5. i \in InodeNumbers
  BY GivenClear
<1>6. Sound(found.disk) /\ BlockFound(disk, found.disk, g, found.ret)
  BY <1>1, <1>2, <1>4, <1>5, FindBlock
<1>7. CASE g \in Groups
  <2>1. Sound(disk') /\ BlockFound(disk, disk', g, found.ret)
    BY <1>3, <1>6
  <2>2. BlockRecorded(g, found.ret)
    BY <1>3 DEF BlockRecorded
  <2> QED BY <1>3, <1>7, <2>1, <2>2, RecordBlock
<1>8. CASE g \notin Groups
  <2>1. found.ret = -1 /\ SameBits(disk', disk)
    BY <1>3, <1>6, <1>8 DEF BlockFound, SameBits
  <2>2. UNCHANGED <<inodes_given, blocks_given>> /\ Sound(disk')
    BY <1>3, <1>6, <2>1
  <2> QED BY <2>1, <2>2, KeepsRecords
<1> QED BY <1>7, <1>8

-----------------------------------------------------------------------------

(* Writing an inode record keeps the invariant.                            *)
LEMMA StoreInodeStep ==
  ASSUME IInv, NEW i \in GivenInodes, StoreInode(i)
  PROVE  IInv' /\ UNCHANGED <<inodes_given, blocks_given>>
<1>1. i \in InodeNumbers
  BY GivenClear
<1>2. FreshInode(i) \in Content /\ FreshInode(i).kind = "inode"
  BY <1>1, InodeNumberType, FreshInodeType, ContentKinds
<1>3. Readable(get_starting_block_inode(i)) =>
        Address(get_starting_block_inode(i)) \notin MetadataBlocks
  BY <1>1, SlotAssumption
<1>4. /\ disk' = write_block_disk_helper(disk, get_starting_block_inode(i), FreshInode(i))
      /\ UNCHANGED <<inodes_given, blocks_given>>
  BY DEF StoreInode, write_inode_info
<1>5. Sound(disk)
  BY DEF IInv
<1>6. "inode" # "descriptor"
  OBVIOUS
<1>7. Sound(disk') /\ SameBits(disk', disk)
  BY <1>2, <1>3, <1>4, <1>5, <1>6, StoreElsewhere
<1> QED BY <1>4, <1>7, KeepsRecords

(* And so does writing a data block.                                       *)
LEMMA StoreDataStep ==
  ASSUME IInv, NEW b \in GivenBlocks, NEW cell \in Cell, StoreData(b, cell)
  PROVE  IInv' /\ UNCHANGED <<inodes_given, blocks_given>>
<1>1. PICK content : content = [kind |-> "data", cells |-> [o \in Offsets |-> cell]]
  OBVIOUS
<1>2. content \in Content /\ content.kind # "descriptor"
  <2>1. content \in DataContent
    BY <1>1 DEF DataContent
  <2>2. "data" # "descriptor" OBVIOUS
  <2> QED BY <2>1, <2>2, ContentKinds
<1>3. Address(b) \notin MetadataBlocks
  BY GivenClear, BlocksReadable
<1>4. /\ disk' = write_block_disk_helper(disk, b, content)
      /\ UNCHANGED <<inodes_given, blocks_given>>
  BY <1>1 DEF StoreData
<1>5. Sound(disk)
  BY DEF IInv
<1>6. Sound(disk') /\ SameBits(disk', disk)
  BY <1>2, <1>3, <1>4, <1>5, StoreElsewhere
<1> QED BY <1>4, <1>6, KeepsRecords

(* The count of a deletion goes to the group's descriptor, or to block 0.  *)
LEMMA CountDeletionStep ==
  ASSUME IInv, NEW i \in GivenInodes, CountDeletion(i)
  PROVE  IInv' /\ UNCHANGED <<inodes_given, blocks_given>>
<1>1. PICK old, g : /\ g = i \div NUM_INODES_PER_GROUP
                    /\ old = read_block_descriptor(disk, g)
  OBVIOUS
<1>2. PICK new : new = [old EXCEPT
                          !.free_inodes_count = (@ + COUNT_SPAN - 1) % COUNT_SPAN]
  OBVIOUS
<1>3. /\ disk' = FlushRecord(disk, new)
      /\ UNCHANGED <<inodes_given, blocks_given>>
  BY <1>1, <1>2 DEF CountDeletion
<1>4. Sound(disk)
  BY DEF IInv
<1>5. g \in Nat /\ get_starting_block_group_descriptor(g) < OFFSET_SPAN
  BY <1>1, GivenClear, InodeNumberType
<1>6. /\ old \in BlockGroupDescriptor
      /\ \/ old.block_number = 0
         \/ \E h \in Groups : old.block_number = get_starting_block_group_descriptor(h)
  BY <1>1, <1>4, <1>5, ReadDescriptor
<1>7. new \in BlockGroupDescriptor /\ new.block_number = old.block_number
  <2>1. old.free_inodes_count \in Count
    BY <1>6 DEF BlockGroupDescriptor
  <2>2. (old.free_inodes_count + COUNT_SPAN - 1) % COUNT_SPAN \in Count
    BY <2>1, BlockGroupAssumption, LayoutNumbers DEF Count
  <2> QED BY <1>2, <1>6, <2>2 DEF BlockGroupDescriptor
<1>8. Sound(disk') /\ SameBits(disk', disk)
  BY <1>3, <1>4, <1>6, <1>7, FlushDescriptor
<1> QED BY <1>3, <1>8, KeepsRecords

-----------------------------------------------------------------------------

(* The invariant holds on the formatted disk.                              *)
LEMMA InitInvariant == Init => IInv
<1> SUFFICES ASSUME Init PROVE IInv
  OBVIOUS
<1>1. /\ disk = FormattedDisk
      /\ inodes_given = [g \in Groups |-> <<>>]
      /\ blocks_given = [g \in Groups |-> <<>>]
  BY DEF Init
<1>2. /\ Sound(disk)
      /\ \A g \in Groups : InodeBitsOf(disk)[g] = {} /\ DataBitsOf(disk)[g] = {}
  BY <1>1, FormattedSound
<1>3. ASSUME NEW number, NEW top, IsNumbering(number, top)
      PROVE  Recorded(<<>>, {}, number, top)
  <2>1. <<>> \in Seq(Nat) /\ Range(<<>>) = {}
    BY DEF Range
  <2> QED BY <1>3, <2>1 DEF Recorded
<1>4. ASSUME NEW g \in Groups
      PROVE  /\ Recorded(inodes_given[g], InodeBitsOf(disk)[g], InodeNumbering(g),
                         NUM_INODES_PER_GROUP)
             /\ Recorded(blocks_given[g], DataBitsOf(disk)[g], BlockNumbering(g),
                         DATA_BLOCKS_PER_GROUP)
  BY <1>1, <1>2, <1>3, Numberings
<1>5. /\ inodes_given \in [Groups -> Seq(Nat)]
      /\ blocks_given \in [Groups -> Seq(Nat)]
  <2>1. <<>> \in Seq(Nat) OBVIOUS
  <2> QED BY <1>1, <2>1
<1> QED BY <1>2, <1>4, <1>5 DEF IInv

(* Every step keeps it, and is a step of each pool or leaves it alone.     *)
LEMMA NextInvariant ==
  ASSUME IInv, [Next]_vars
  PROVE  /\ IInv'
         /\ UNCHANGED inodes_given \/ \E g \in Groups : InodePoolStep(g)
         /\ UNCHANGED blocks_given \/ \E g \in Groups : BlockPoolStep(g)
<1>1. CASE \E g \in Groups : AllocateInode(g)
  BY <1>1, AllocateInodeStep
<1>2. CASE \E i \in GivenInodes : AllocateBlock(i)
  BY <1>2, AllocateBlockStep
<1>3. CASE \E i \in GivenInodes : StoreInode(i)
  BY <1>3, StoreInodeStep
<1>4. CASE \E i \in GivenInodes : CountDeletion(i)
  BY <1>4, CountDeletionStep
<1>5. CASE \E b \in GivenBlocks, cell \in Cell : StoreData(b, cell)
  BY <1>5, StoreDataStep
<1>6. CASE UNCHANGED vars
  BY <1>6 DEF vars, IInv
<1> QED BY <1>1, <1>2, <1>3, <1>4, <1>5, <1>6 DEF Next

(* What the invariant says of one state.                                   *)
LEMMA InvariantMeaning ==
  ASSUME IInv
  PROVE  TypeOK /\ MetadataIntact /\ BitmapsRecordEveryCall /\ GroupsApart
<1>1. TypeOK
  BY DEF IInv, Sound, TypeOK
<1>2. MetadataIntact
  BY DEF IInv, Sound, MetadataIntact
<1>3. BitmapsRecordEveryCall
  <2> SUFFICES ASSUME NEW g \in Groups
               PROVE  /\ Range(inodes_given[g]) \ {ExhaustedInode(g)}
                           = { InodeNumber(g, bit) : bit \in inode_bitmap(disk, g).bits }
                      /\ ExhaustedInode(g) \in Range(inodes_given[g])
                           => InodeMapFull(disk, g)
                      /\ Range(blocks_given[g]) \ {ExhaustedBlock(g)}
                           = { DataBlock(g, bit) : bit \in block_bitmap(disk, g).bits }
                      /\ ExhaustedBlock(g) \in Range(blocks_given[g])
                           => DataMapFull(disk, g)
    BY DEF BitmapsRecordEveryCall
  <2>1. /\ InodeBitsOf(disk)[g] = inode_bitmap(disk, g).bits
        /\ InodeBitsOf(disk)[g] \in SUBSET (0 .. NUM_INODES_PER_GROUP - 1)
        /\ DataBitsOf(disk)[g] = block_bitmap(disk, g).bits
        /\ DataBitsOf(disk)[g] \in SUBSET (0 .. DATA_BLOCKS_PER_GROUP - 1)
    BY SoundBits DEF IInv
  <2>2. /\ Range(inodes_given[g]) \ {InodeNumbering(g)[-1]}
             = { InodeNumbering(g)[bit] : bit \in InodeBitsOf(disk)[g] }
        /\ InodeNumbering(g)[-1] \in Range(inodes_given[g])
             => InodeBits \subseteq InodeBitsOf(disk)[g]
    BY DEF IInv, Recorded, InodeBits
  <2>3. /\ Range(blocks_given[g]) \ {BlockNumbering(g)[-1]}
             = { BlockNumbering(g)[bit] : bit \in DataBitsOf(disk)[g] }
        /\ BlockNumbering(g)[-1] \in Range(blocks_given[g])
             => DataBits \subseteq DataBitsOf(disk)[g]
    BY DEF IInv, Recorded, DataBits
  <2>4. /\ \A bit \in InodeBitsOf(disk)[g] : InodeNumbering(g)[bit] = InodeNumber(g, bit)
        /\ \A bit \in DataBitsOf(disk)[g] : BlockNumbering(g)[bit] = DataBlock(g, bit)
    BY <2>1, Numberings, LayoutNumbers
  <2>5. /\ InodeNumbering(g)[-1] = ExhaustedInode(g)
        /\ BlockNumbering(g)[-1] = ExhaustedBlock(g)
    BY Numberings
  <2> QED BY <2>1, <2>2, <2>3, <2>4, <2>5 DEF InodeMapFull, DataMapFull
<1>4. GroupsApart
  <2> SUFFICES ASSUME NEW g \in Groups, NEW h \in Groups, g # h
               PROVE  /\ Range(inodes_given[g]) \cap Range(inodes_given[h]) = {}
                      /\ Range(blocks_given[g]) \cap Range(blocks_given[h]) = {}
    BY DEF GroupsApart
  <2>1. ASSUME NEW n \in Range(inodes_given[g]), n \in Range(inodes_given[h])
        PROVE  FALSE
    <3>1. PICK a \in -1 .. NUM_INODES_PER_GROUP - 1 : n = InodeNumber(g, a)
      BY GivenNumbers
    <3>2. PICK b \in -1 .. NUM_INODES_PER_GROUP - 1 : n = InodeNumber(h, b)
      BY <2>1, GivenNumbers
    <3> QED BY <3>1, <3>2, InodeNumbersApart
  <2>2. ASSUME NEW n \in Range(blocks_given[g]), n \in Range(blocks_given[h])
        PROVE  FALSE
    <3>1. PICK a \in -1 .. DATA_BLOCKS_PER_GROUP - 1 : n = DataBlock(g, a)
      BY GivenNumbers
    <3>2. PICK b \in -1 .. DATA_BLOCKS_PER_GROUP - 1 : n = DataBlock(h, b)
      BY <2>2, GivenNumbers
    <3> QED BY <3>1, <3>2, DataBlocksApart
  <2> QED BY <2>1, <2>2
<1> QED BY <1>1, <1>2, <1>3, <1>4

-----------------------------------------------------------------------------

(* The invariant holds in every reachable state: a descriptor or bitmap    *)
(* block only ever receives the record that belongs there.                 *)
THEOREM Invariance == Spec => []IInv
<1>1. Init => IInv
  BY InitInvariant
<1>2. IInv /\ [Next]_vars => IInv'
  BY NextInvariant
<1> QED BY <1>1, <1>2, PTL DEF Spec

(* Every block holds one of the records of block_group.h, and the          *)
(* histories hold natural numbers: -1 is never handed out.                 *)
THEOREM TypeCorrect == Spec => []TypeOK
<1>1. IInv => TypeOK
  BY InvariantMeaning
<1> QED BY <1>1, Invariance, PTL

(* No allocation, inode write, data write or deletion ever lands on the    *)
(* group descriptors and bitmaps of block_group.cpp, in any layout.        *)
THEOREM MetadataStays == Spec => []MetadataIntact
<1>1. IInv => MetadataIntact
  BY InvariantMeaning
<1> QED BY <1>1, Invariance, PTL

(* The bitmaps on disk say exactly which numbers find_first_empty_inode    *)
(* and find_first_empty_data_block have returned.                          *)
THEOREM Bookkeeping == Spec => []BitmapsRecordEveryCall
<1>1. IInv => BitmapsRecordEveryCall
  BY InvariantMeaning
<1> QED BY <1>1, Invariance, PTL

(* No two groups ever hand out the same inode number or data block, not    *)
(* even when the -1 of a full bitmap is used as a bit.                     *)
THEOREM GroupsStayApart == Spec => []GroupsApart
<1>1. IInv => GroupsApart
  BY InvariantMeaning
<1> QED BY <1>1, Invariance, PTL

(* The inode allocator implements FreshNumbers: until a group is full      *)
(* every number it gives is new, afterwards it gives the overflow number.  *)
THEOREM InodeAllocatorIsFresh == Spec => InodesFresh
<1>1. Init => InodePool!Init
  BY DEF Init, InodePool!Init
<1>2. IInv /\ [Next]_vars => [InodePool!Next]_inodes_given
  <2> SUFFICES ASSUME IInv, [Next]_vars PROVE [InodePool!Next]_inodes_given
    OBVIOUS
  <2>1. CASE UNCHANGED inodes_given
    BY <2>1
  <2>2. CASE \E g \in Groups : InodePoolStep(g)
    <3>1. PICK g \in Groups : InodePoolStep(g)
      BY <2>2
    <3>2. CASE \E bit \in InodeBits :
                 /\ InodeNumber(g, bit) \notin Range(inodes_given[g])
                 /\ inodes_given'
                      = [inodes_given EXCEPT ![g] = Append(@, InodeNumber(g, bit))]
      <4>1. InodePool!Give(g)
        BY <3>2 DEF InodePool!Give, InodePool!Range, Range
      <4> QED BY <4>1 DEF InodePool!Next
    <3>3. CASE /\ { InodeNumber(g, bit) : bit \in InodeBits }
                    \subseteq Range(inodes_given[g])
               /\ inodes_given'
                    = [inodes_given EXCEPT ![g] = Append(@, ExhaustedInode(g))]
      <4>1. InodePool!GiveOverflow(g)
        BY <3>3 DEF InodePool!GiveOverflow, InodePool!Range, Range
      <4> QED BY <4>1 DEF InodePool!Next
    <3> QED BY <3>1, <3>2, <3>3 DEF InodePoolStep
  <2> QED BY <2>1, <2>2, NextInvariant
<1> QED BY <1>1, <1>2, Invariance, PTL DEF Spec, InodesFresh, InodePool!Spec

(* And so does the allocator of data blocks.                               *)
THEOREM BlockAllocatorIsFresh == Spec => BlocksFresh
<1>1. Init => BlockPool!Init
  BY DEF Init, BlockPool!Init
<1>2. IInv /\ [Next]_vars => [BlockPool!Next]_blocks_given
  <2> SUFFICES ASSUME IInv, [Next]_vars PROVE [BlockPool!Next]_blocks_given
    OBVIOUS
  <2>1. CASE UNCHANGED blocks_given
    BY <2>1
  <2>2. CASE \E g \in Groups : BlockPoolStep(g)
    <3>1. PICK g \in Groups : BlockPoolStep(g)
      BY <2>2
    <3>2. CASE \E bit \in DataBits :
                 /\ DataBlock(g, bit) \notin Range(blocks_given[g])
                 /\ blocks_given'
                      = [blocks_given EXCEPT ![g] = Append(@, DataBlock(g, bit))]
      <4>1. BlockPool!Give(g)
        BY <3>2 DEF BlockPool!Give, BlockPool!Range, Range
      <4> QED BY <4>1 DEF BlockPool!Next
    <3>3. CASE /\ { DataBlock(g, bit) : bit \in DataBits }
                    \subseteq Range(blocks_given[g])
               /\ blocks_given'
                    = [blocks_given EXCEPT ![g] = Append(@, ExhaustedBlock(g))]
      <4>1. BlockPool!GiveOverflow(g)
        BY <3>3 DEF BlockPool!GiveOverflow, BlockPool!Range, Range
      <4> QED BY <4>1 DEF BlockPool!Next
    <3> QED BY <3>1, <3>2, <3>3 DEF BlockPoolStep
  <2> QED BY <2>1, <2>2, NextInvariant
<1> QED BY <1>1, <1>2, Invariance, PTL DEF Spec, BlocksFresh, BlockPool!Spec
===============================================================================
