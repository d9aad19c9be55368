------------------------ MODULE Ex2FileSystemTheorems ------------------------
(***************************************************************************)
(* For every layout, any number of files and descriptors: the handlers of  *)
(* EX2FILESYSTEM never damage descriptors or bitmaps, and while no         *)
(* uninitialized inode is used every file keeps its inode and its blocks   *)
(* to itself.                                                              *)
(***************************************************************************)
EXTENDS Ex2FileSystem, BlockGroupTheorems

SlotOf(inode_number) == Address(get_starting_block_inode(inode_number))

(* What any inode says that the program writes: a number a uid can be.     *)
HasPlace(inode) == inode.uid \in InodeNumbers

(* What is written to block k of an inode leaves the metadata alone.       *)
Clear(inode, k) == Address(inode.blocks[k]) \notin MetadataBlocks

ClearOver(inode, indices) ==
  indices \subseteq BlockIndex /\ \A k \in indices : Clear(inode, k)

Records(d) ==
  /\ Sound(d)
  /\ \A b \in Blocks : d[b].kind = "inode" => HasPlace(d[b])

-----------------------------------------------------------------------------

(* An inode that can be read is in a block that is its own.                *)
LEMMA SlotPlace ==
  ASSUME NEW n \in InodeNumbers
  PROVE  /\ Readable(get_starting_block_inode(n)) <=> SlotOf(n) \in Blocks
         /\ SlotOf(n) \in Blocks =>
              /\ SlotOf(n) \notin MetadataBlocks
              /\ \A m \in InodeNumbers : SlotOf(m) = SlotOf(n) => m = n
  BY SlotAssumption DEF Readable, SlotOf

(* A block number of an inode addresses the block it names, if any, and    *)
(* never a descriptor or a bitmap.                                         *)
LEMMA BlockNumberPlace ==
  /\ \A b \in DataBlockNumbers :
       /\ b \in Blocks \ MetadataBlocks
       /\ b # 0 /\ b # -1
       /\ Address(b) = b /\ Readable(b)
  /\ Address(0) = 0 /\ 0 \in Blocks \ MetadataBlocks
  /\ Address(-1) = -1 /\ -1 \notin Blocks
<1>1. ASSUME NEW b \in DataBlockNumbers
      PROVE  b \in Blocks \ MetadataBlocks /\ b # 0 /\ b # -1
  <2>1. PICK g \in Groups, bit \in -1 .. DATA_BLOCKS_PER_GROUP - 1 : b = DataBlock(g, bit)
    BY DEF DataBlockNumbers
  <2>2. b \in Blocks \ MetadataBlocks
    BY <2>1, DataBlocksApart
  <2>3. /\ get_starting_block_group_descriptor(g) \in Nat
        /\ get_starting_block_group_descriptor(g) >= 2
    <3>1. 0 \in 0 .. GroupSize - 1 BY LayoutNumbers
    <3> QED BY <3>1, AreaOnDisk
  <2>4. b > 0
    BY <2>1, <2>3, LayoutNumbers DEF DataBlock
  <2> QED BY <2>2, <2>4
<1>2. 0 \in Blocks \ MetadataBlocks
  <2>1. 0 \in Blocks
    BY LayoutNumbers DEF Blocks
  <2>2. 0 \notin MetadataBlocks
    BY HomesApart DEF MetadataBlocks
  <2> QED BY <2>1, <2>2
<1>3. Address(-1) = -1 /\ -1 \notin Blocks
  <2>1. OFFSET_SPAN \in Nat /\ OFFSET_SPAN >= 1
    BY LayoutNumbers, <1>2 DEF Blocks
  <2>2. (-1 + OFFSET_SPAN) % (2 * OFFSET_SPAN) = -1 + OFFSET_SPAN
    BY <2>1
  <2> QED BY <2>1, <2>2 DEF Address, Blocks
<1> QED BY <1>1, <1>2, <1>3, BlocksReadable

(* Writing an inode to the place of a number, its own or not.              *)
LEMMA StoreInode ==
  ASSUME NEW d, Records(d), NEW n \in InodeNumbers,
         NEW inode \in BlockGroupINode, HasPlace(inode),
         NEW e, e = write_inode_info(d, n, inode)
  PROVE  /\ Records(e)
         /\ SameBits(e, d)
         /\ \A b \in Blocks : e[b] = IF SlotOf(n) = b THEN inode ELSE d[b]
<1>1. inode \in Content /\ inode.kind # "descriptor"
  <2>1. "inode" # "descriptor" OBVIOUS
  <2> QED BY <2>1, ContentKinds
<1>2. d \in [Blocks -> Content]
  BY DEF Records, Sound
<1>3. e = write_block_disk_helper(d, get_starting_block_inode(n), inode)
  BY DEF write_inode_info
<1>4. \A b \in Blocks : e[b] = IF SlotOf(n) = b THEN inode ELSE d[b]
  BY <1>1, <1>2, <1>3, WriteEffect DEF SlotOf, Readable
<1>5. Sound(e) /\ SameBits(e, d)
  BY <1>1, <1>3, SlotPlace, StoreElsewhere DEF Records, SlotOf
<1>6. Records(e)
  BY <1>4, <1>5 DEF Records
<1> QED BY <1>4, <1>5, <1>6

(* A destructor does that with the number the inode says.                  *)
LEMMA DestroyInode ==
  ASSUME NEW d, Records(d), NEW inode \in BlockGroupINode, HasPlace(inode),
         NEW e, e = FlushInode(d, inode)
  PROVE  /\ Records(e)
         /\ SameBits(e, d)
         /\ \A b \in Blocks : e[b] = IF SlotOf(inode.uid) = b THEN inode ELSE d[b]
<1>1. e = write_inode_info(d, inode.uid, inode)
  BY DEF FlushInode, write_inode_info
<1>2. inode.uid \in InodeNumbers
  BY DEF HasPlace
<1> HIDE DEF HasPlace
<1> QED BY <1>1, <1>2, StoreInode

(* Writing data where a block number says.                                 *)
LEMMA StoreData ==
  ASSUME NEW d, Records(d), NEW n, Address(n) \notin MetadataBlocks,
         NEW content \in DataContent,
         NEW e, e = write_block_disk_helper(d, n, content)
  PROVE  /\ Records(e)
         /\ SameBits(e, d)
         /\ \A b \in Blocks : e[b] = IF b = Address(n) THEN content ELSE d[b]
<1>1. /\ content \in Content /\ content.kind # "descriptor" /\ content.kind # "inode"
  <2>1. "data" # "descriptor" /\ "data" # "inode" OBVIOUS
  <2> QED BY <2>1, ContentKinds
<1>2. d \in [Blocks -> Content]
  BY DEF Records, Sound
<1>3. \A b \in Blocks : e[b] = IF b = Address(n) THEN content ELSE d[b]
  BY <1>1, <1>2, WriteEffect DEF Readable
<1>4. Sound(e) /\ SameBits(e, d)
  BY <1>1, StoreElsewhere DEF Records
<1>5. Records(e)
  BY <1>1, <1>3, <1>4 DEF Records
<1> QED BY <1>3, <1>4, <1>5

(* A change of descriptors and bitmaps only.                               *)
LEMMA ChangeMetadata ==
  ASSUME NEW d, Records(d), NEW e, Sound(e), OnlyMetadata(d, e)
  PROVE  Records(e)
  BY DEF Records, OnlyMetadata

-----------------------------------------------------------------------------

(* A handler in the middle of a transfer is sound when its disk is and its *)
(* local inode could be written back.                                      *)
Working(t) ==
  /\ t \in [disk : [Blocks -> Content], used : Int, inode : BlockGroupINode]
  /\ Records(t.disk)
  /\ HasPlace(t.inode)

(* What find_first_empty_data_block, on its way from disk d to disk e, can *)
(* have returned: none, the overflow block of a full bitmap, a new block.  *)
Allotted(d, e, b) ==
  \/ b = -1
  \/ \E g \in Groups : b = ExhaustedBlock(g) /\ DataMapFull(e, g)
  \/ \E g \in Groups : \E bit \in DataBits \ DataBitsOf(d)[g] :
       b = DataBlock(g, bit) /\ bit \in DataBitsOf(e)[g]

BitsGrow(d, e) ==
  /\ InodeBitsOf(e) = InodeBitsOf(d)
  /\ \A g \in Groups : DataBitsOf(d)[g] \subseteq DataBitsOf(e)[g]

(* What changes from t to w, through block k of the file: its place in the *)
(* block list, descriptors and bitmaps, and the block itself.              *)
Wrote(t, w, k) ==
  /\ w.inode = [t.inode EXCEPT !.blocks = w.inode.blocks]
  /\ \A j \in BlockIndex \ {k} : w.inode.blocks[j] = t.inode.blocks[j]
  /\ \/ w.inode.blocks[k] = t.inode.blocks[k]
     \/ t.inode.blocks[k] = 0 /\ Allotted(t.disk, w.disk, w.inode.blocks[k])
  /\ BitsGrow(t.disk, w.disk)
  /\ \A b \in Blocks :
       \/ w.disk[b] = t.disk[b]
       \/ b \in MetadataBlocks \cup {0} /\ w.disk[b].kind # "inode"
       \/ b = Address(w.inode.blocks[k]) /\ w.disk[b].kind = "data"

(* A bitmap is full when all bits are set.                                 *)
LEMMA FullMap ==
  ASSUME NEW d, NEW g \in Groups
  PROVE  DataMapFull(d, g) <=> DataBits \subseteq DataBitsOf(d)[g]
  BY DEF DataMapFull, DataBitsOf

(* What find_first_empty_data_block returns can stand in a block list.     *)
LEMMA FoundIsAllotted ==
  ASSUME NEW d, NEW e, NEW g, NEW b, BlockFound(d, e, g, b)
  PROVE  /\ b \in DataBlockNumbers \cup {-1}
         /\ Allotted(d, e, b)
         /\ BitsGrow(d, e)
<1>1. CASE b = -1 /\ DataBitsOf(e) = DataBitsOf(d)
  BY <1>1 DEF BlockFound, Allotted, BitsGrow
<1>2. CASE /\ g \in Groups
           /\ DataMapFull(d, g)
           /\ b = ExhaustedBlock(g)
           /\ DataBitsOf(e) = DataBitsOf(d)
  <2>1. DataMapFull(e, g)
    BY <1>2, FullMap
  <2>2. b \in DataBlockNumbers
    BY <1>2, LayoutNumbers DEF ExhaustedBlock, DataBlockNumbers
  <2> QED BY <1>2, <2>1, <2>2 DEF BlockFound, Allotted, BitsGrow
<1>3. CASE g \in Groups /\ \E bit \in DataBits \ DataBitsOf(d)[g] :
             /\ b = DataBlock(g, bit)
             /\ DataBitsOf(e) = [DataBitsOf(d) EXCEPT ![g] = @ \cup {bit}]
  <2>1. PICK bit \in DataBits \ DataBitsOf(d)[g] :
             /\ b = DataBlock(g, bit)
             /\ DataBitsOf(e) = [DataBitsOf(d) EXCEPT ![g] = @ \cup {bit}]
    BY <1>3
  <2>2. b \in DataBlockNumbers
    BY <1>3, <2>1, LayoutNumbers DEF DataBits, DataBlockNumbers
  <2>3. DOMAIN DataBitsOf(d) = Groups
    BY DEF DataBitsOf
  <2>4. /\ bit \in DataBitsOf(e)[g]
        /\ \A h \in Groups : DataBitsOf(d)[h] \subseteq DataBitsOf(e)[h]
    BY <1>3, <2>1, <2>3
  <2> QED BY <1>3, <2>1, <2>2, <2>4 DEF BlockFound, Allotted, BitsGrow
<1> QED BY <1>1, <1>2, <1>3 DEF BlockFound

LEMMA AllottedPlace ==
  ASSUME NEW d, NEW e, NEW b, Allotted(d, e, b)
  PROVE  /\ b \in DataBlockNumbers \cup {-1}
         /\ Address(b) \notin MetadataBlocks
<1>1. DataBits \subseteq -1 .. DATA_BLOCKS_PER_GROUP - 1 /\ -1 \in -1 .. DATA_BLOCKS_PER_GROUP - 1
  BY LayoutNumbers DEF DataBits
<1>2. b \in DataBlockNumbers \cup {-1}
  BY <1>1 DEF Allotted, DataBlockNumbers, ExhaustedBlock
<1>3. -1 \notin MetadataBlocks
  BY HomesApart, BlockNumberPlace DEF MetadataBlocks
<1> QED BY <1>2, <1>3, BlockNumberPlace

(* After get_data_block the block list names a block to write.             *)
LEMMA HoldBlock ==
  ASSUME NEW t, Working(t), NEW n \in InodeNumbers, NEW k \in BlockIndex, Clear(t.inode, k),
         NEW held, held = get_data_block(t, n, k)
  PROVE  /\ Working(held)
         /\ Wrote(t, held, k)
         /\ Clear(held.inode, k)
<1>1. CASE t.inode.blocks[k] # 0
  <2>1. held = t
    BY <1>1 DEF get_data_block
  <2>2. t.inode = [t.inode EXCEPT !.blocks = t.inode.blocks]
    BY DEF Working, BlockGroupINode
  <2> QED BY <1>1, <2>1, <2>2 DEF Wrote, BitsGrow
<1>2. CASE t.inode.blocks[k] = 0
  <2>1. PICK found : found = find_first_empty_data_block(t.disk, n)
    OBVIOUS
  <2>2. PICK inode : inode = [t.inode EXCEPT !.blocks[k] = found.ret]
    OBVIOUS
  <2>3. /\ Sound(found.disk)
        /\ BlockFound(t.disk, found.disk, n \div NUM_INODES_PER_GROUP, found.ret)
        /\ OnlyMetadata(t.disk, found.disk)
    BY <2>1, FindBlock DEF Working, Records
  <2>4. /\ found.ret \in DataBlockNumbers \cup {-1}
        /\ Allotted(t.disk, found.disk, found.ret)
        /\ BitsGrow(t.disk, found.disk)
    BY <2>3, FoundIsAllotted
  <2>5. found.ret # 0 /\ found.ret \in Int
    BY <2>4, BlockNumberPlace DEF Blocks
  <2>6. /\ held.disk = found.disk
        /\ held.inode = inode
        /\ held.used = t.used
        /\ held = [disk |-> held.disk, used |-> held.used, inode |-> held.inode]
    BY <1>2, <2>1, <2>2 DEF get_data_block, Working
  <2>7. /\ inode \in BlockGroupINode
        /\ inode.blocks[k] = found.ret
        /\ \A j \in BlockIndex \ {k} : inode.blocks[j] = t.inode.blocks[j]
        /\ inode = [t.inode EXCEPT !.blocks = inode.blocks]
        /\ inode.uid = t.inode.uid
        /\ inode.file_size = t.inode.file_size
    BY <2>2, <2>5 DEF Working, BlockGroupINode
  <2>8. HasPlace(inode) /\ Clear(inode, k)
    BY <2>4, <2>7, AllottedPlace DEF Working, HasPlace, Clear
  <2>9. Records(found.disk)
    BY <2>3, ChangeMetadata DEF Working
  <2>10. Working(held)
    <3>1. held.disk \in [Blocks -> Content] /\ held.used \in Int
      BY <2>3, <2>6 DEF Working, Sound
    <3> QED BY <2>6, <2>7, <2>8, <2>9, <3>1 DEF Working
  <2>11. Wrote(t, held, k)
    BY <1>2, <2>3, <2>4, <2>6, <2>7 DEF Wrote, OnlyMetadata
  <2> QED BY <2>6, <2>8, <2>10, <2>11
<1> QED BY <1>1, <1>2

(* The cells a read leaves in the buffer, and what write_helper makes of   *)
(* them, are cells.                                                        *)
LEMMA BufferCells ==
  ASSUME NEW d \in [Blocks -> Content], NEW b, NEW payload \in Seq(Cell),
         NEW from \in Int, NEW to \in Int, NEW used \in Int
  PROVE  /\ retreive_block_disk_helper(d, b) \in [Offsets -> Cell]
         /\ write_helper(retreive_block_disk_helper(d, b), from, to, payload, used)
              \in [Offsets -> Cell]
<1>1. retreive_block_disk_helper(d, b) \in [Offsets -> Cell]
  <2>1. CASE Readable(b) /\ d[Address(b)].kind = "data"
    <3>1. d[Address(b)] \in Content
      BY <2>1 DEF Readable
    <3>2. "data" # "super" /\ "data" # "inode" /\ "data" # "bitmap" /\ "data" # "descriptor"
      OBVIOUS
    <3>3. d[Address(b)] \in DataContent
      BY <2>1, <3>1, <3>2, ContentKinds DEF Content
    <3> QED BY <2>1, <3>3 DEF retreive_block_disk_helper, DataContent
  <2>2. CASE ~ (Readable(b) /\ d[Address(b)].kind = "data")
    BY <2>2, BlockGroupAssumption DEF retreive_block_disk_helper
  <2> QED BY <2>1, <2>2
<1>2. PICK cells \in [Offsets -> Cell] : cells = retreive_block_disk_helper(d, b)
  BY <1>1
<1>3. \A i \in DOMAIN payload : payload[i] \in Cell
  OBVIOUS
<1>4. write_helper(cells, from, to, payload, used) \in [Offsets -> Cell]
  BY <1>3, BlockGroupAssumption DEF write_helper
<1> QED BY <1>1, <1>2, <1>4

(* One block of a transfer.                                                *)
LEMMA WriteOneBlock ==
  ASSUME NEW t, Working(t), NEW n \in InodeNumbers, NEW k \in BlockIndex, Clear(t.inode, k),
         NEW from \in Int, NEW to \in Int, NEW payload \in Seq(Cell),
         NEW w, w = WriteBlock(t, n, k, from, to, payload)
  PROVE  Working(w) /\ Wrote(t, w, k)
<1>1. PICK held : held = get_data_block(t, n, k)
  OBVIOUS
<1>2. Working(held) /\ Wrote(t, held, k) /\ Clear(held.inode, k)
  BY <1>1, HoldBlock
<1>3. PICK b : b = held.inode.blocks[k]
  OBVIOUS
<1>4. Address(b) \notin MetadataBlocks
  BY <1>2, <1>3 DEF Clear
<1>5. PICK content : content =
        [kind |-> "data",
         cells |-> write_helper(retreive_block_disk_helper(held.disk, b),
                                from, to, payload, t.used)]
  OBVIOUS
<1>6. content \in DataContent /\ content.kind = "data"
  <2>1. held.disk \in [Blocks -> Content] /\ t.used \in Int
    BY <1>2 DEF Working
  <2> QED BY <1>5, <2>1, BufferCells DEF DataContent
<1>7. PICK e : e = write_block_disk_helper(held.disk, b, content)
  OBVIOUS
<1>8. /\ Records(e)
      /\ SameBits(e, held.disk)
      /\ \A a \in Blocks : e[a] = IF a = Address(b) THEN content ELSE held.disk[a]
  BY <1>2, <1>4, <1>6, <1>7, StoreData DEF Working
<1>9. /\ w.disk = e
      /\ w.inode = held.inode
      /\ w = [disk |-> e, used |-> held.used + (to - from), inode |-> held.inode]
  BY <1>1, <1>2, <1>3, <1>5, <1>7 DEF WriteBlock, Working
<1>10. Working(w)
  <2>1. e \in [Blocks -> Content]
    BY <1>8 DEF Records, Sound
  <2>2. /\ held.used + (to - from) \in Int
        /\ held.inode \in BlockGroupINode
        /\ HasPlace(held.inode)
    BY <1>2 DEF Working
  <2> QED BY <1>8, <1>9, <2>1, <2>2 DEF Working
<1>11. Wrote(t, w, k)
  <2>1. BitsGrow(t.disk, e)
    BY <1>2, <1>8 DEF Wrote, BitsGrow, SameBits
  <2>2. \A c : Allotted(t.disk, held.disk, c) => Allotted(t.disk, e, c)
    BY <1>8, FullMap DEF Allotted, SameBits
  <2>3. \A a \in Blocks :
          \/ e[a] = t.disk[a]
          \/ a \in MetadataBlocks \cup {0} /\ e[a].kind # "inode"
          \/ a = Address(b) /\ e[a].kind = "data"
    BY <1>2, <1>3, <1>6, <1>8 DEF Wrote
  <2> QED BY <1>2, <1>3, <1>9, <2>1, <2>2, <2>3 DEF Wrote
<1> QED BY <1>10, <1>11

-----------------------------------------------------------------------------

Unused(inode) ==
  inode.hard_link_count = 0 /\ inode.blocks = [k \in BlockIndex |-> 0]

(* A data block an inode names is marked, the overflow block only once its *)
(* bitmap is full.                                                         *)
Holdable(d, b) ==
  \A g \in Groups :
    /\ \A bit \in DataBits : b = DataBlock(g, bit) => bit \in DataBitsOf(d)[g]
    /\ b = ExhaustedBlock(g) => DataMapFull(d, g)

(* A marked inode bit stands for a number that is known, so that all       *)
(* numbers before the next one can be read.                                *)
MarkedAreKnown(d, K) ==
  \A g \in Groups : \A bit \in InodeBitsOf(d)[g] : InodeNumber(g, bit) \in K

KnownIsMarked(d, n) ==
  \A g \in Groups : \A bit \in InodeBits :
    n = InodeNumber(g, bit) => bit \in InodeBitsOf(d)[g]

InodesAtHome(d) ==
  \A b \in Blocks : d[b].kind = "inode" => SlotOf(d[b].uid) = b

NoneShared(d, K) ==
  \A m, n \in K : \A j, k \in BlockIndex :
    inode_at(d, m).blocks[j] \in OwnBlocks
      /\ inode_at(d, m).blocks[j] = inode_at(d, n).blocks[k] => m = n /\ j = k

(* A disk on which the numbers K are those of files, and all other inodes  *)
(* are as they were formatted.  A file says a size within the limit and    *)
(* block numbers that exist.                                               *)
Files(d, K) ==
  /\ K \subseteq InodeNumbers
  /\ MarkedAreKnown(d, K)
  /\ \A n \in K :
       /\ InodeReadable(d, n)
       /\ ClearOfData(n)
       /\ KnownIsMarked(d, n)
       /\ inode_at(d, n).file_size \in 0 .. SizeLimit
       /\ \A k \in BlockIndex :
            /\ inode_at(d, n).blocks[k] \in DataBlockNumbers \cup {0, -1}
            /\ Holdable(d, inode_at(d, n).blocks[k])
  /\ \A n \in InodeNumbers \ K : InodeReadable(d, n) => Unused(inode_at(d, n))
  /\ InodesAtHome(d)
  /\ NoneShared(d, K)

(* The blocks in which e may differ from d when the file n is at work.     *)
FrameOf(d, e, n) ==
  \A b \in Blocks :
    \/ e[b] = d[b]
    \/ b \in MetadataBlocks \cup {0} /\ e[b].kind # "inode"
    \/ b = SlotOf(n)
    \/ e[b].kind = "data" /\ \E k \in BlockIndex : b = Address(inode_at(e, n).blocks[k])

(* The same records, that of n excepted, and the same data but where n     *)
(* names it now.                                                           *)
OthersKept(d, e, K, n) ==
  /\ \A m \in K \ {n} : inode_at(e, m) = inode_at(d, m)
  /\ \A b \in DataBlockNumbers :
       e[b] # d[b] => \E k \in BlockIndex : inode_at(e, n).blocks[k] = b

(* One step of the work on n after another, when no block goes that the    *)
(* first has taken.                                                        *)
LEMMA OthersKeptTwice ==
  ASSUME NEW d, NEW e, NEW f, NEW K, NEW n, OthersKept(d, e, K, n), OthersKept(e, f, K, n),
         \A k \in BlockIndex :
           inode_at(e, n).blocks[k] # 0 => inode_at(f, n).blocks[k] = inode_at(e, n).blocks[k]
  PROVE  OthersKept(d, f, K, n)
<1>1. ASSUME NEW b \in DataBlockNumbers, f[b] # d[b]
      PROVE  \E k \in BlockIndex : inode_at(f, n).blocks[k] = b
  <2>1. CASE f[b] # e[b]
    BY <2>1 DEF OthersKept
  <2>2. CASE e[b] # d[b]
    <3>1. b # 0
      BY BlockNumberPlace
    <3> QED BY <2>2, <3>1 DEF OthersKept
  <2> QED BY <1>1, <2>1, <2>2
<1> QED BY <1>1 DEF OthersKept

(* What can be read has a place.                                           *)
LEMMA ReadablePlace ==
  ASSUME NEW d, Records(d), NEW n \in InodeNumbers
  PROVE  /\ InodeReadable(d, n) <=> SlotOf(n) \in Blocks /\ d[SlotOf(n)].kind = "inode"
         /\ inode_at(d, n) = d[SlotOf(n)]
         /\ InodeReadable(d, n) =>
              /\ inode_at(d, n) \in BlockGroupINode
              /\ HasPlace(inode_at(d, n))
<1>1. /\ InodeReadable(d, n) <=> SlotOf(n) \in Blocks /\ d[SlotOf(n)].kind = "inode"
      /\ inode_at(d, n) = d[SlotOf(n)]
  BY DEF InodeReadable, inode_at, SlotOf, Readable
<1>2. ASSUME InodeReadable(d, n)
      PROVE  inode_at(d, n) \in BlockGroupINode /\ HasPlace(inode_at(d, n))
  <2>1. d[SlotOf(n)] \in Content
    BY <1>1, <1>2 DEF Records, Sound
  <2>2. "inode" # "super" /\ "inode" # "data" /\ "inode" # "bitmap" /\ "inode" # "descriptor"
    OBVIOUS
  <2>3. d[SlotOf(n)] \in BlockGroupINode
    BY <1>1, <1>2, <2>1, <2>2, ContentKinds DEF Content
  <2> QED BY <1>1, <1>2, <2>3 DEF Records
<1> QED BY <1>1, <1>2

(* In particular the inode of a file names itself.                         *)
LEMMA NamesItself ==
  ASSUME NEW d, Records(d), NEW n \in InodeNumbers, InodesAtHome(d), InodeReadable(d, n)
  PROVE  inode_at(d, n).uid = n
<1>1. /\ SlotOf(n) \in Blocks
      /\ inode_at(d, n) = d[SlotOf(n)]
      /\ d[SlotOf(n)].kind = "inode"
      /\ inode_at(d, n).uid \in InodeNumbers
  BY ReadablePlace DEF HasPlace
<1>2. SlotOf(inode_at(d, n).uid) = SlotOf(n)
  BY <1>1 DEF InodesAtHome
<1> QED BY <1>1, <1>2, SlotPlace

LEMMA OwnBlockPlace ==
  /\ \A b : b \in OwnBlocks <=> \E g \in Groups : \E bit \in DataBits : b = DataBlock(g, bit)
  /\ OwnBlocks \subseteq DataBlockNumbers
<1>1. DataBits \subseteq -1 .. DATA_BLOCKS_PER_GROUP - 1
  BY LayoutNumbers DEF DataBits
<1> QED BY <1>1 DEF OwnBlocks, DataRegion, DataBlockNumbers

(* Data block numbers that are equal are of the same group and bit.        *)
LEMMA DataNumbersApart ==
  ASSUME NEW g \in Groups, NEW h \in Groups, NEW bit \in DataBits
  PROVE  /\ \A other \in DataBits :
              DataBlock(g, bit) = DataBlock(h, other) => g = h /\ bit = other
         /\ DataBlock(g, bit) # ExhaustedBlock(h)
         /\ ExhaustedBlock(g) = ExhaustedBlock(h) => g = h
         /\ DataBlock(g, bit) \notin {0, -1}
         /\ ExhaustedBlock(g) \notin {0, -1}
<1>1. DataBits \subseteq -1 .. DATA_BLOCKS_PER_GROUP - 1 /\ -1 \notin DataBits
  BY LayoutNumbers DEF DataBits
<1>2. -1 \in -1 .. DATA_BLOCKS_PER_GROUP - 1
  BY LayoutNumbers
<1>3. DataBlock(g, bit) \in DataBlockNumbers /\ ExhaustedBlock(g) \in DataBlockNumbers
  BY <1>1, <1>2 DEF DataBlockNumbers, ExhaustedBlock
<1>4. DataBlock(g, bit) \notin {0, -1} /\ ExhaustedBlock(g) \notin {0, -1}
  BY <1>3, BlockNumberPlace
<1>5. \A other \in DataBits :
        DataBlock(g, bit) = DataBlock(h, other) => g = h /\ bit = other
  BY <1>1, DataBlocksApart
<1>6. DataBlock(g, bit) # ExhaustedBlock(h)
  BY <1>1, <1>2, DataBlocksApart DEF ExhaustedBlock
<1>7. ExhaustedBlock(g) = ExhaustedBlock(h) => g = h
  BY <1>2, DataBlocksApart DEF ExhaustedBlock
<1> QED BY <1>4, <1>5, <1>6, <1>7

(* A block that was not marked is in no block list.                        *)
Spare(d, b) ==
  \E g \in Groups : \E bit \in DataBits \ DataBitsOf(d)[g] : b = DataBlock(g, bit)

LEMMA SpareIsNotHeld ==
  ASSUME NEW d, NEW b, Spare(d, b)
  PROVE  ~ Holdable(d, b)
  BY DEF Spare, Holdable

(* What was allotted can be held, and is spare if it is a block of its own.*)
LEMMA AllottedIsHoldable ==
  ASSUME NEW d, NEW e, NEW b, Allotted(d, e, b)
  PROVE  Holdable(e, b) /\ (b \in OwnBlocks => Spare(d, b))
<1>1. CASE b = -1
  <2>1. \A g \in Groups, bit \in DataBits : b # DataBlock(g, bit) /\ b # ExhaustedBlock(g)
    BY <1>1, DataNumbersApart
  <2>2. 0 \in DataBits
    BY LayoutNumbers DEF DataBits
  <2> QED BY <2>1, <2>2, OwnBlockPlace DEF Holdable
<1>2. CASE \E g \in Groups : b = ExhaustedBlock(g) /\ DataMapFull(e, g)
  <2>1. PICK g \in Groups : b = ExhaustedBlock(g) /\ DataMapFull(e, g)
    BY <1>2
  <2>2. \A h \in Groups, bit \in DataBits :
          b # DataBlock(h, bit) /\ (b = ExhaustedBlock(h) => h = g)
    BY <2>1, DataNumbersApart
  <2>3. 0 \in DataBits
    BY LayoutNumbers DEF DataBits
  <2> QED BY <2>1, <2>2, <2>3, OwnBlockPlace DEF Holdable
<1>3. CASE \E g \in Groups : \E bit \in DataBits \ DataBitsOf(d)[g] :
             b = DataBlock(g, bit) /\ bit \in DataBitsOf(e)[g]
  <2>1. PICK g \in Groups, bit \in DataBits :
             /\ bit \notin DataBitsOf(d)[g]
             /\ b = DataBlock(g, bit) /\ bit \in DataBitsOf(e)[g]
    BY <1>3
  <2>2. \A h \in Groups : b # ExhaustedBlock(h)
    BY <2>1, DataNumbersApart
  <2>3. \A h \in Groups, other \in DataBits : b = DataBlock(h, other) => h = g /\ other = bit
    BY <2>1, DataNumbersApart
  <2> QED BY <2>1, <2>2, <2>3 DEF Holdable, Spare
<1> QED BY <1>1, <1>2, <1>3 DEF Allotted

(* Marks only ever get more.                                               *)
LEMMA StaysHoldable ==
  ASSUME NEW d, NEW e, \A g \in Groups : DataBitsOf(d)[g] \subseteq DataBitsOf(e)[g],
         NEW b, Holdable(d, b)
  PROVE  Holdable(e, b)
  BY FullMap DEF Holdable

(* No block at all can always be held.                                     *)
LEMMA NoBlockIsHoldable ==
  ASSUME NEW d
  PROVE  Holdable(d, 0) /\ 0 \notin OwnBlocks
<1>1. \A g \in Groups, bit \in DataBits : 0 # DataBlock(g, bit) /\ 0 # ExhaustedBlock(g)
  BY DataNumbersApart
<1>2. 0 \in DataBits
  BY LayoutNumbers DEF DataBits
<1> QED BY <1>1, <1>2, OwnBlockPlace DEF Holdable

(* What the work of one file leaves of the others and of the whole.  The   *)
(* file n may be a new one: L is then K and n.                             *)
LEMMA FileChanged ==
  ASSUME NEW d, NEW e, Records(d), Records(e),
         NEW K, Files(d, K), NEW n \in InodeNumbers, NEW L, L = K \cup {n},
         InodeReadable(d, n), ClearOfData(n),
         InodeReadable(e, n), inode_at(e, n).uid = n,
         inode_at(e, n).file_size \in 0 .. SizeLimit,
         NEW k \in BlockIndex,
         \A j \in BlockIndex \ {k} :
           inode_at(e, n).blocks[j] \in {inode_at(d, n).blocks[j], 0},
         \/ inode_at(e, n).blocks[k] \in {inode_at(d, n).blocks[k], 0}
         \/ Allotted(d, e, inode_at(e, n).blocks[k]),
         \A g \in Groups : /\ DataBitsOf(d)[g] \subseteq DataBitsOf(e)[g]
                           /\ InodeBitsOf(d)[g] \subseteq InodeBitsOf(e)[g],
         MarkedAreKnown(e, L), KnownIsMarked(e, n),
         FrameOf(d, e, n)
  PROVE  Files(e, L) /\ OthersKept(d, e, K, n)
<1> DEFINE was(j) == inode_at(d, n).blocks[j]
           now(j) == inode_at(e, n).blocks[j]
<1>1. ASSUME NEW j \in BlockIndex
      PROVE  now(j) \in DataBlockNumbers \cup {0, -1} /\ Address(now(j)) = now(j)
  <2>1. was(j) \in DataBlockNumbers \cup {0, -1}
    <3>1. CASE n \in K
      BY <3>1 DEF Files
    <3>2. CASE n \notin K
      BY <3>2 DEF Files, Unused
    <3> QED BY <3>1, <3>2
  <2>2. now(j) \in {was(j), 0} \/ Allotted(d, e, now(j))
    OBVIOUS
  <2>3. now(j) \in DataBlockNumbers \cup {0, -1}
    <3> HIDE DEF was, now
    <3> QED BY <2>1, <2>2, AllottedPlace
  <2> QED BY <2>3, BlockNumberPlace
<1>2. ASSUME NEW b \in Blocks, b \notin MetadataBlocks \cup {0}, b # SlotOf(n),
             \A j \in BlockIndex : b # now(j)
      PROVE  e[b] = d[b]
  BY <1>1, <1>2 DEF FrameOf
<1>3. ASSUME NEW m \in InodeNumbers \ {n}, SlotOf(m) \in Blocks, ClearOfData(m)
      PROVE  e[SlotOf(m)] = d[SlotOf(m)]
  <2>1. SlotOf(m) \notin MetadataBlocks /\ SlotOf(m) # SlotOf(n)
    BY <1>3, SlotPlace
  <2>2. SlotOf(m) \notin DataBlockNumbers \cup {0}
    BY <1>3 DEF ClearOfData, SlotOf
  <2>3. SlotOf(m) # -1
    BY <1>3, BlockNumberPlace
  <2>4. \A j \in BlockIndex : SlotOf(m) # now(j)
    BY <1>1, <2>2, <2>3
  <2> QED BY <1>2, <1>3, <2>1, <2>2, <2>4
<1>4. ASSUME NEW m \in K \ {n}
      PROVE  InodeReadable(e, m) /\ inode_at(e, m) = inode_at(d, m)
  <2>1. m \in InodeNumbers /\ InodeReadable(d, m) /\ ClearOfData(m)
    BY DEF Files
  <2>2. SlotOf(m) \in Blocks /\ d[SlotOf(m)].kind = "inode"
    BY <2>1, ReadablePlace
  <2>3. e[SlotOf(m)] = d[SlotOf(m)]
    BY <1>3, <2>1, <2>2
  <2> QED BY <2>1, <2>2, <2>3, ReadablePlace
<1>5. ASSUME NEW j \in BlockIndex
      PROVE  /\ Holdable(e, now(j))
             /\ now(j) \in OwnBlocks =>
                  (n \in K /\ now(j) = was(j)) \/ (j = k /\ Spare(d, now(j)))
  <2>1. CASE now(j) = was(j)
    <3>1. CASE n \in K
      BY <2>1, <3>1, StaysHoldable DEF Files
    <3>2. CASE n \notin K
      BY <2>1, <3>2, NoBlockIsHoldable DEF Files, Unused
    <3> QED BY <3>1, <3>2
  <2>2. CASE now(j) = 0
    BY <2>2, NoBlockIsHoldable
  <2>3. CASE j = k /\ Allotted(d, e, now(k))
    BY <2>3, AllottedIsHoldable
  <2> QED BY <2>1, <2>2, <2>3
<1> HIDE DEF was, now
<1>6. ASSUME NEW m \in K, NEW i \in BlockIndex
      PROVE  /\ Holdable(d, inode_at(d, m).blocks[i])
             /\ ~ Spare(d, inode_at(d, m).blocks[i])
  BY SpareIsNotHeld DEF Files
<1>7. ASSUME NEW m \in K \ {n}, NEW i \in BlockIndex, NEW j \in BlockIndex,
             now(j) \in OwnBlocks
      PROVE  inode_at(d, m).blocks[i] # now(j)
  <2>1. CASE n \in K /\ now(j) = was(j)
    BY <1>7, <2>1 DEF Files, NoneShared, was
  <2>2. CASE Spare(d, now(j))
    BY <1>6, <2>2
  <2> QED BY <1>5, <1>7, <2>1, <2>2
<1>8. NoneShared(e, L)
  <2> SUFFICES ASSUME NEW m \in L, NEW p \in L, NEW i \in BlockIndex, NEW j \in BlockIndex,
                      inode_at(e, m).blocks[i] \in OwnBlocks,
                      inode_at(e, m).blocks[i] = inode_at(e, p).blocks[j]
               PROVE  m = p /\ i = j
    BY DEF NoneShared
  <2>1. CASE m = n /\ p = n
    <3>1. now(i) \in OwnBlocks /\ now(i) = now(j)
      BY <2>1 DEF now
    <3>2. CASE n \in K /\ now(i) = was(i) /\ now(j) = was(j)
      <4>1. NoneShared(d, K)
        BY DEF Files
      <4> QED BY <2>1, <3>1, <3>2, <4>1 DEF NoneShared, was
    <3>3. CASE i = k /\ Spare(d, now(i)) /\ n \in K /\ now(j) = was(j)
      BY <1>6, <3>1, <3>3 DEF was
    <3>4. CASE j = k /\ Spare(d, now(j)) /\ n \in K /\ now(i) = was(i)
      BY <1>6, <3>1, <3>4 DEF was
    <3> QED BY <1>5, <2>1, <3>1, <3>2, <3>3, <3>4
  <2>2. CASE m = n /\ p # n
    BY <1>4, <1>7, <2>2 DEF now
  <2>3. CASE m # n /\ p = n
    BY <1>4, <1>7, <2>3 DEF now
  <2>4. CASE m # n /\ p # n
    BY <1>4, <2>4 DEF Files, NoneShared
  <2> QED BY <2>1, <2>2, <2>3, <2>4
<1>9. ASSUME NEW m \in L
      PROVE  /\ InodeReadable(e, m)
             /\ ClearOfData(m)
             /\ KnownIsMarked(e, m)
             /\ inode_at(e, m).file_size \in 0 .. SizeLimit
             /\ \A j \in BlockIndex :
                  /\ inode_at(e, m).blocks[j] \in DataBlockNumbers \cup {0, -1}
                  /\ Holdable(e, inode_at(e, m).blocks[j])
  <2>1. CASE m = n
    BY <1>1, <1>5, <2>1 DEF now
  <2>2. CASE m # n
    <3>1. KnownIsMarked(e, m)
      BY <2>2 DEF Files, KnownIsMarked
    <3> QED BY <1>4, <2>2, <3>1, StaysHoldable DEF Files
  <2> QED BY <2>1, <2>2
<1>10. ASSUME NEW b \in Blocks, e[b].kind = "inode"
       PROVE  e[b] = d[b] \/ b = SlotOf(n)
  <2>1. "inode" # "data" OBVIOUS
  <2> QED BY <1>10, <2>1 DEF FrameOf
<1>11. ASSUME NEW m \in InodeNumbers \ L, InodeReadable(e, m)
       PROVE  Unused(inode_at(e, m))
  <2>1. SlotOf(m) \in Blocks /\ e[SlotOf(m)].kind = "inode" /\ inode_at(e, m) = e[SlotOf(m)]
    BY <1>11, ReadablePlace
  <2>2. SlotOf(m) # SlotOf(n)
    BY <1>11, <2>1, SlotPlace
  <2>3. e[SlotOf(m)] = d[SlotOf(m)]
    BY <1>10, <2>1, <2>2
  <2>4. InodeReadable(d, m) /\ inode_at(d, m) = inode_at(e, m)
    BY <2>1, <2>3, ReadablePlace
  <2> QED BY <1>11, <2>4 DEF Files
<1>12. InodesAtHome(e)
  <2> SUFFICES ASSUME NEW b \in Blocks, e[b].kind = "inode"
               PROVE  SlotOf(e[b].uid) = b
    BY DEF InodesAtHome
  <2>1. CASE e[b] = d[b]
    BY <2>1 DEF Files, InodesAtHome
  <2>2. CASE b = SlotOf(n)
    BY <2>2 DEF inode_at, SlotOf
  <2> QED BY <1>10, <2>1, <2>2
<1>13. Files(e, L)
  <2>1. L \subseteq InodeNumbers
    BY DEF Files
  <2> QED BY <1>8, <1>9, <1>11, <1>12, <2>1 DEF Files
<1>14. ASSUME NEW b \in DataBlockNumbers, e[b] # d[b]
       PROVE  \E j \in BlockIndex : now(j) = b
  <2>1. b \in Blocks \ (MetadataBlocks \cup {0})
    BY BlockNumberPlace
  <2>2. b # SlotOf(n)
    BY DEF ClearOfData, SlotOf
  <2> QED BY <1>2, <1>14, <2>1, <2>2
<1> QED BY <1>4, <1>13, <1>14 DEF OthersKept, now

-----------------------------------------------------------------------------

(* The disk if the handler stopped now and its local inode were destroyed. *)
Stored(t) == FlushInode(t.disk, t.inode)

(* From t to w a transfer of file n may go: only the block list changes of *)
(* its inode, where it was empty, and other files keep what they have.     *)
Progress(t, w, n) ==
  /\ Working(w)
  /\ w.inode = [t.inode EXCEPT !.blocks = w.inode.blocks]
  /\ \A k \in BlockIndex :
       /\ Clear(t.inode, k) => Clear(w.inode, k)
       /\ t.inode.blocks[k] # 0 => w.inode.blocks[k] = t.inode.blocks[k]
  /\ \A K \in SUBSET InodeNumbers :
       n \in K /\ t.inode.uid = n /\ Files(Stored(t), K) =>
         /\ Files(Stored(w), K)
         /\ OthersKept(Stored(t), Stored(w), K, n)
         /\ inode_at(Stored(w), n) = w.inode

LEMMA SlotIsOnDisk ==
  ASSUME NEW d, Records(d), NEW n \in InodeNumbers, InodeReadable(d, n)
  PROVE  SlotOf(n) \in Blocks
  BY ReadablePlace

(* A destructor that writes the inode of a file.                           *)
LEMMA StoredInode ==
  ASSUME NEW d, Records(d), NEW inode \in BlockGroupINode, HasPlace(inode),
         NEW n, n = inode.uid, SlotOf(n) \in Blocks,
         NEW e, e = FlushInode(d, inode)
  PROVE  /\ Records(e)
         /\ SameBits(e, d)
         /\ \A b \in Blocks : b # SlotOf(n) => e[b] = d[b]
         /\ InodeReadable(e, n)
         /\ inode_at(e, n) = inode
<1>1. /\ Records(e)
      /\ SameBits(e, d)
      /\ \A b \in Blocks : e[b] = IF SlotOf(n) = b THEN inode ELSE d[b]
  BY DestroyInode
<1>2. n \in InodeNumbers /\ inode.kind = "inode"
  BY ContentKinds DEF HasPlace
<1> QED BY <1>1, <1>2, ReadablePlace

LEMMA AllottedByBits ==
  ASSUME NEW d, NEW e, NEW f, NEW g, SameBits(f, d), SameBits(g, e), NEW b, Allotted(d, e, b)
  PROVE  Allotted(f, g, b)
  BY FullMap DEF Allotted, SameBits

(* A block that is written leaves the other files alone.                   *)
LEMMA WriteOneBlockKeeps ==
  ASSUME NEW t, Working(t), NEW w, Working(w), NEW n \in InodeNumbers,
         NEW k \in BlockIndex, Wrote(t, w, k),
         NEW K \in SUBSET InodeNumbers, n \in K, t.inode.uid = n, Files(Stored(t), K)
  PROVE  /\ Files(Stored(w), K)
         /\ OthersKept(Stored(t), Stored(w), K, n)
         /\ inode_at(Stored(t), n) = t.inode
         /\ inode_at(Stored(w), n) = w.inode
<1>1. PICK d, e : d = Stored(t) /\ e = Stored(w)
  OBVIOUS
<1>2. t.inode \in BlockGroupINode /\ HasPlace(t.inode) /\ Records(t.disk)
  BY DEF Working
<1>3. w.inode \in BlockGroupINode /\ HasPlace(w.inode) /\ Records(w.disk)
  BY DEF Working
<1>4. w.inode.uid = n /\ w.inode.file_size = t.inode.file_size
  <2>1. w.inode = [t.inode EXCEPT !.blocks = w.inode.blocks]
    BY DEF Wrote
  <2> QED BY <1>2, <2>1 DEF BlockGroupINode
<1>5. Records(d)
  BY <1>1, <1>2, DestroyInode DEF Stored
<1>6. InodeReadable(d, n) /\ ClearOfData(n)
  BY <1>1 DEF Files
<1>7. SlotOf(n) \in Blocks
  BY <1>5, <1>6, SlotIsOnDisk
<1>8. /\ SameBits(d, t.disk)
      /\ \A b \in Blocks : b # SlotOf(n) => d[b] = t.disk[b]
      /\ inode_at(d, n) = t.inode
  BY <1>1, <1>2, <1>7, StoredInode DEF Stored
<1>9. /\ Records(e)
      /\ SameBits(e, w.disk)
      /\ \A b \in Blocks : b # SlotOf(n) => e[b] = w.disk[b]
      /\ InodeReadable(e, n)
      /\ inode_at(e, n) = w.inode
  BY <1>1, <1>3, <1>4, <1>7, StoredInode DEF Stored
<1>10. /\ \A j \in BlockIndex \ {k} : w.inode.blocks[j] = t.inode.blocks[j]
       /\ \/ w.inode.blocks[k] = t.inode.blocks[k]
          \/ Allotted(d, e, w.inode.blocks[k])
  BY <1>8, <1>9, AllottedByBits DEF Wrote
<1>11. /\ InodeBitsOf(e) = InodeBitsOf(d)
       /\ \A g \in Groups : DataBitsOf(d)[g] \subseteq DataBitsOf(e)[g]
  BY <1>8, <1>9 DEF Wrote, BitsGrow, SameBits
<1>12. FrameOf(d, e, n)
  BY <1>8, <1>9 DEF Wrote, FrameOf
<1>13. MarkedAreKnown(e, K) /\ KnownIsMarked(e, n) /\ Files(d, K)
  BY <1>1, <1>11 DEF Files, MarkedAreKnown, KnownIsMarked
<1>14. K = K \cup {n}
  OBVIOUS
<1>15. inode_at(e, n).file_size \in 0 .. SizeLimit
  BY <1>1, <1>4, <1>8, <1>9 DEF Files
<1>16. Files(e, K) /\ OthersKept(d, e, K, n)
  BY <1>4, <1>5, <1>6, <1>8, <1>9, <1>10, <1>11, <1>12, <1>13, <1>14, <1>15, FileChanged
<1> QED BY <1>1, <1>8, <1>9, <1>16

LEMMA NoProgress ==
  ASSUME NEW t, Working(t), NEW n
  PROVE  Progress(t, t, n)
<1>1. t.inode = [t.inode EXCEPT !.blocks = t.inode.blocks]
  BY DEF Working, BlockGroupINode
<1>2. ASSUME NEW K \in SUBSET InodeNumbers, n \in K, t.inode.uid = n, Files(Stored(t), K)
      PROVE  inode_at(Stored(t), n) = t.inode
  <2>1. Records(Stored(t))
    BY DestroyInode DEF Stored, Working
  <2>2. SlotOf(n) \in Blocks
    BY <1>2, <2>1, SlotIsOnDisk DEF Files
  <2> QED BY <1>2, <2>2, StoredInode DEF Stored, Working
<1> QED BY <1>1, <1>2 DEF Progress, OthersKept

LEMMA ProgressFurther ==
  ASSUME NEW t, NEW u, NEW w, NEW n, Working(t), Progress(t, u, n), Progress(u, w, n)
  PROVE  Progress(t, w, n)
<1>1. /\ t.inode \in BlockGroupINode /\ u.inode \in BlockGroupINode
      /\ u.inode = [t.inode EXCEPT !.blocks = u.inode.blocks]
      /\ w.inode = [u.inode EXCEPT !.blocks = w.inode.blocks]
  BY DEF Working, Progress
<1>2. /\ u.inode.uid = t.inode.uid
      /\ w.inode = [t.inode EXCEPT !.blocks = w.inode.blocks]
  BY <1>1 DEF BlockGroupINode
<1>3. ASSUME NEW K \in SUBSET InodeNumbers, n \in K, t.inode.uid = n, Files(Stored(t), K)
      PROVE  /\ Files(Stored(w), K)
             /\ OthersKept(Stored(t), Stored(w), K, n)
             /\ inode_at(Stored(w), n) = w.inode
  <2>1. /\ Files(Stored(u), K)
        /\ OthersKept(Stored(t), Stored(u), K, n)
        /\ inode_at(Stored(u), n) = u.inode
    BY <1>3 DEF Progress
  <2>2. /\ Files(Stored(w), K)
        /\ OthersKept(Stored(u), Stored(w), K, n)
        /\ inode_at(Stored(w), n) = w.inode
    BY <1>2, <1>3, <2>1 DEF Progress
  <2>3. \A k \in BlockIndex : u.inode.blocks[k] # 0 => w.inode.blocks[k] = u.inode.blocks[k]
    BY DEF Progress
  <2>4. OthersKept(Stored(t), Stored(w), K, n)
    BY <2>1, <2>2, <2>3, OthersKeptTwice
  <2> QED BY <2>2, <2>4
<1>4. \A k \in BlockIndex :
        /\ Clear(t.inode, k) => Clear(w.inode, k)
        /\ t.inode.blocks[k] # 0 => w.inode.blocks[k] = t.inode.blocks[k]
  BY DEF Progress
<1> QED BY <1>2, <1>3, <1>4 DEF Progress

LEMMA WriteBlockProgress ==
  ASSUME NEW t, Working(t), NEW n \in InodeNumbers, NEW k \in BlockIndex, Clear(t.inode, k),
         NEW from \in Int, NEW to \in Int, NEW payload \in Seq(Cell)
  PROVE  Progress(t, WriteBlock(t, n, k, from, to, payload), n)
<1>1. PICK w : w = WriteBlock(t, n, k, from, to, payload)
  OBVIOUS
<1>2. Working(w) /\ Wrote(t, w, k)
  BY <1>1, WriteOneBlock
<1>3. \A K \in SUBSET InodeNumbers :
        n \in K /\ t.inode.uid = n /\ Files(Stored(t), K) =>
          /\ Files(Stored(w), K)
          /\ OthersKept(Stored(t), Stored(w), K, n)
          /\ inode_at(Stored(w), n) = w.inode
  BY <1>2, WriteOneBlockKeeps
<1>4. \A j \in BlockIndex :
        /\ Clear(t.inode, j) => Clear(w.inode, j)
        /\ t.inode.blocks[j] # 0 => w.inode.blocks[j] = t.inode.blocks[j]
  BY <1>2, AllottedPlace DEF Wrote, Clear
<1> QED BY <1>1, <1>2, <1>3, <1>4 DEF Progress, Wrote

-----------------------------------------------------------------------------

(* The values WriteWholeBlocks goes through, up to block top.              *)
IsChain(f, t, n, first, top, payload) ==
  f = [k \in first - 1 .. top |->
         IF k = first - 1 THEN t
         ELSE WriteBlock(f[k - 1], n, k, 0, BLOCK_SIZE, payload)]

(* There is such a function for every number of blocks: no number is the   *)
(* least for which there is none.                                          *)
LEMMA ChainExists ==
  ASSUME NEW t, NEW n, NEW first \in Int, NEW last \in Int, first <= last, NEW payload
  PROVE  \E f : IsChain(f, t, n, first, last, payload)
<1> DEFINE Missing == { m \in Nat : ~ \E f : IsChain(f, t, n, first, first - 1 + m, payload) }
<1>1. ASSUME Missing # {} PROVE FALSE
  <2>1. PICK m \in Missing : \A other \in Missing : m <= other
    <3>1. Missing \subseteq Nat OBVIOUS
    <3> HIDE DEF Missing
    <3> QED BY <1>1, <3>1, LeastNatural
  <2>2. CASE m = 0
    <3>1. first - 1 .. first - 1 + m = {first - 1}
      BY <2>2
    <3>2. PICK f : f = [k \in {first - 1} |-> t]
      OBVIOUS
    <3>3. IsChain(f, t, n, first, first - 1 + m, payload)
      BY <3>1, <3>2 DEF IsChain
    <3> QED BY <2>1, <3>3
  <2>3. CASE m # 0
    <3>1. m - 1 \in Nat /\ m - 1 \notin Missing
      BY <2>1, <2>3
    <3>2. PICK f : IsChain(f, t, n, first, first - 1 + (m - 1), payload)
      BY <3>1
    <3>3. PICK top \in Int : top = first - 1 + m /\ top - 1 = first - 1 + (m - 1) /\ first <= top
      BY <2>1, <2>3
    <3>4. f = [k \in first - 1 .. top - 1 |->
                 IF k = first - 1 THEN t
                 ELSE WriteBlock(f[k - 1], n, k, 0, BLOCK_SIZE, payload)]
      BY <3>2, <3>3 DEF IsChain
    <3>5. PICK h : h = [k \in first - 1 .. top |->
                          IF k = first - 1 THEN t
                          ELSE WriteBlock(f[k - 1], n, k, 0, BLOCK_SIZE, payload)]
      OBVIOUS
    <3>6. ASSUME NEW k \in first - 1 .. top, k # first - 1
          PROVE  h[k - 1] = f[k - 1]
      <4>1. k - 1 \in first - 1 .. top - 1 /\ k - 1 \in first - 1 .. top
        BY <3>3, <3>6
      <4>2. h[k - 1] = IF k - 1 = first - 1 THEN t
                       ELSE WriteBlock(f[k - 1 - 1], n, k - 1, 0, BLOCK_SIZE, payload)
        BY <3>5, <4>1
      <4>3. f[k - 1] = IF k - 1 = first - 1 THEN t
                       ELSE WriteBlock(f[k - 1 - 1], n, k - 1, 0, BLOCK_SIZE, payload)
        BY <3>4, <4>1
      <4> QED BY <4>2, <4>3
    <3>7. h = [k \in first - 1 .. top |->
                 IF k = first - 1 THEN t
                 ELSE WriteBlock(h[k - 1], n, k, 0, BLOCK_SIZE, payload)]
      BY <3>5, <3>6
    <3>8. IsChain(h, t, n, first, first - 1 + m, payload)
      BY <3>3, <3>7 DEF IsChain
    <3> QED BY <2>1, <3>8
  <2> QED BY <2>2, <2>3
<1>2. PICK m \in Nat : last = first - 1 + m
  <2>1. last - first + 1 \in Nat /\ last = first - 1 + (last - first + 1)
    OBVIOUS
  <2> QED BY <2>1
<1>3. m \notin Missing
  BY <1>1
<1> QED BY <1>2, <1>3

(* So the loop does what its definition says, and every block of it is     *)
(* progress.                                                               *)
LEMMA WriteWholeBlocksProgress ==
  ASSUME NEW t, Working(t), NEW n \in InodeNumbers, NEW first \in Int, NEW last \in Int,
         first .. last \subseteq BlockIndex, \A k \in first .. last : Clear(t.inode, k),
         NEW payload \in Seq(Cell)
  PROVE  Progress(t, WriteWholeBlocks(t, n, first, last, payload), n)
<1>1. CASE first > last
  <2>1. WriteWholeBlocks(t, n, first, last, payload) = t
    BY <1>1 DEF WriteWholeBlocks
  <2> QED BY <2>1, NoProgress
<1>2. CASE first <= last
  <2>1. PICK f : /\ IsChain(f, t, n, first, last, payload)
                 /\ WriteWholeBlocks(t, n, first, last, payload) = f[last]
    <3>1. \E f : IsChain(f, t, n, first, last, payload)
      BY <1>2, ChainExists
    <3>2. PICK written :
            written = CHOOSE f : IsChain(f, t, n, first, last, payload)
      OBVIOUS
    <3>3. IsChain(written, t, n, first, last, payload)
      BY <3>1, <3>2
    <3>4. WriteWholeBlocks(t, n, first, last, payload) = written[last]
      BY <1>2, <3>2 DEF WriteWholeBlocks, IsChain
    <3> QED BY <3>3, <3>4
  <2> DEFINE Behind == { k \in Nat : first - 1 + k <= last /\ ~ Progress(t, f[first - 1 + k], n) }
  <2>2. ASSUME Behind # {} PROVE FALSE
    <3>1. PICK m \in Behind : \A other \in Behind : m <= other
      <4>1. Behind \subseteq Nat OBVIOUS
      <4> HIDE DEF Behind
      <4> QED BY <2>2, <4>1, LeastNatural
    <3>2. PICK k \in first - 1 .. last : k = first - 1 + m
      BY <3>1
    <3>3. f[k] = IF k = first - 1 THEN t
                 ELSE WriteBlock(f[k - 1], n, k, 0, BLOCK_SIZE, payload)
      BY <2>1 DEF IsChain
    <3>4. CASE k = first - 1
      BY <3>1, <3>2, <3>3, <3>4, NoProgress
    <3>5. CASE k # first - 1
      <4>1. m \in Nat
        OBVIOUS
      <4>2. m - 1 \in Nat /\ m - 1 \notin Behind /\ first - 1 + (m - 1) = k - 1
        <5> HIDE DEF Behind
        <5> QED BY <3>1, <3>2, <3>5, <4>1
      <4>3. Progress(t, f[k - 1], n)
        BY <3>2, <4>2
      <4>4. k \in BlockIndex /\ Clear(t.inode, k)
        BY <3>2, <3>5
      <4>5. BLOCK_SIZE \in Int /\ 0 \in Int
        BY BlockGroupAssumption
      <4>6. Working(f[k - 1]) /\ Clear(f[k - 1].inode, k)
        BY <4>3, <4>4 DEF Progress
      <4>7. PICK u : u = f[k - 1]
        OBVIOUS
      <4>8. Progress(f[k - 1], f[k], n)
        <5>1. f[k] = WriteBlock(u, n, k, 0, BLOCK_SIZE, payload)
          BY <3>3, <3>5, <4>7
        <5>2. Progress(u, WriteBlock(u, n, k, 0, BLOCK_SIZE, payload), n)
          BY <4>4, <4>5, <4>6, <4>7, WriteBlockProgress
        <5> QED BY <4>7, <5>1, <5>2
      <4>9. Progress(t, f[k], n)
        BY <4>3, <4>8, ProgressFurther
      <4> QED BY <3>1, <3>2, <4>9
    <3> QED BY <3>4, <3>5
  <2>3. PICK m \in Nat : last = first - 1 + m
    <3>1. last - first + 1 \in Nat /\ last = first - 1 + (last - first + 1)
      BY <1>2
    <3> QED BY <3>1
  <2>4. m \notin Behind
    BY <2>2
  <2> QED BY <2>1, <2>3, <2>4
<1> QED BY <1>1, <1>2

LEMMA WritesClear ==
  ASSUME NEW inode, NEW indices, Writes(inode, indices)
  PROVE  ClearOver(inode, indices)
  BY DEF Writes, ReadAsMetadata, Clear, ClearOver

(* A write of my_file_system_write is progress from the inode with its new *)
(* size.                                                                   *)
LEMMA TransferProgress ==
  ASSUME NEW d, Records(d), NEW inode \in BlockGroupINode, HasPlace(inode),
         NEW my_file \in MyFile,
         NEW n \in InodeNumbers, n = my_file.inode_number,
         NEW payload \in Seq(Cell), NEW size, size = my_file.file_size + Len(payload),
         ClearOver(inode, IndicesWritten(my_file, payload)),
         NEW t0, t0 = [disk |-> d, used |-> 0, inode |-> [inode EXCEPT !.file_size = size]]
  PROVE  Working(t0) /\ Progress(t0, Transfer(d, inode, my_file, payload), n)
<1>1. PICK i : i = [inode EXCEPT !.file_size = size]
  OBVIOUS
<1>2. /\ my_file.file_size \in Int /\ my_file.position \in Int /\ Len(payload) \in Nat
      /\ size \in Int
  BY DEF MyFile
<1>3. i \in BlockGroupINode /\ i.uid = inode.uid /\ i.blocks = inode.blocks
  BY <1>1, <1>2 DEF BlockGroupINode
<1>4. Working(t0) /\ t0.inode = i
  <2>1. d \in [Blocks -> Content]
    BY DEF Records, Sound
  <2>2. t0 = [disk |-> d, used |-> 0, inode |-> i]
    BY <1>1
  <2> QED BY <1>3, <2>1, <2>2 DEF Working, HasPlace
<1>5. PICK last_byte \in Int : last_byte = my_file.position + Len(payload) - 1
  BY <1>2
<1>6. PICK first, last : first = my_file.file_size \div BLOCK_SIZE /\ last = last_byte \div BLOCK_SIZE
  OBVIOUS
<1>7. \A k \in {first, last} \cup first .. last : k \in BlockIndex /\ Clear(i, k)
  <2>1. IndicesWritten(my_file, payload) = {first, last} \cup first .. last
    BY <1>5, <1>6 DEF IndicesWritten, IndicesTouched
  <2> QED BY <1>3, <2>1 DEF ClearOver, Clear
<1>8. first \in Int /\ last \in Int
  BY <1>7, LayoutNumbers DEF BlockIndex
<1>9. BLOCK_SIZE \in Nat \ {0} /\ BLOCK_SIZE \in Int
  BY BlockGroupAssumption
<1>10. \A x \in Int : x % BLOCK_SIZE \in Int
  BY <1>9
<1>11. CASE first = last
  <2>1. PICK from, to : /\ from = my_file.file_size % BLOCK_SIZE
                        /\ to = from + Len(payload)
    OBVIOUS
  <2>2. from \in Int /\ to \in Int
    BY <1>2, <1>10, <2>1
  <2>3. Transfer(d, inode, my_file, payload) = WriteBlock(t0, n, first, from, to, payload)
    BY <1>5, <1>6, <1>11, <2>1 DEF Transfer
  <2> QED BY <1>4, <1>7, <2>2, <2>3, WriteBlockProgress
<1>12. CASE first # last
  <2>1. PICK from, to : /\ from = my_file.position % BLOCK_SIZE
                        /\ to = (last_byte % BLOCK_SIZE) + 1
    OBVIOUS
  <2>2. from \in Int /\ to \in Int
    BY <1>2, <1>5, <1>10, <2>1
  <2>3. PICK t1 : t1 = WriteBlock(t0, n, first, from, BLOCK_SIZE, payload)
    OBVIOUS
  <2>4. PICK t2 : t2 = WriteWholeBlocks(t1, n, first, last - 1, payload)
    OBVIOUS
  <2>5. PICK t3 : t3 = WriteBlock(t2, n, last, 0, to, payload)
    OBVIOUS
  <2>6. Transfer(d, inode, my_file, payload) = t3
    BY <1>5, <1>6, <1>12, <2>1, <2>3, <2>4, <2>5 DEF Transfer
  <2>7. Progress(t0, t1, n)
    BY <1>4, <1>7, <1>9, <2>2, <2>3, WriteBlockProgress
  <2>8. Working(t1) /\ \A k \in BlockIndex : Clear(i, k) => Clear(t1.inode, k)
    BY <1>4, <2>7 DEF Progress
  <2>9. /\ last - 1 \in Int
        /\ first .. last - 1 \subseteq BlockIndex
        /\ \A k \in first .. last - 1 : Clear(t1.inode, k)
    <3>1. last - 1 \in Int /\ first .. last - 1 \subseteq first .. last
      BY <1>8
    <3> QED BY <1>7, <2>8, <3>1
  <2>10. Progress(t1, t2, n)
    BY <1>8, <2>4, <2>8, <2>9, WriteWholeBlocksProgress
  <2>11. Progress(t0, t2, n)
    BY <1>4, <2>7, <2>10, ProgressFurther
  <2>12. Working(t2) /\ Clear(t2.inode, last)
    BY <1>4, <1>7, <2>11 DEF Progress
  <2>13. Progress(t2, t3, n)
    <3>1. 0 \in Int OBVIOUS
    <3> QED BY <1>7, <2>2, <2>5, <2>12, <3>1, WriteBlockProgress
  <2> QED BY <1>4, <2>6, <2>11, <2>13, ProgressFurther
<1> QED BY <1>4, <1>11, <1>12

LEMMA SizeLimitType == SizeLimit \in Nat
<1>1. PICK b, i : b \in Nat /\ i \in Nat /\ b = BLOCK_SIZE /\ i = BLOCKS_PER_INODE
  BY BlockGroupAssumption, LayoutNumbers
<1>2. i * b \in Nat
  BY <1>1
<1> QED BY <1>1, <1>2 DEF SizeLimit

-----------------------------------------------------------------------------

(* What a handler finds in its local inode: the inode of the file, or      *)
(* memory nobody wrote.                                                    *)
LEMMA ReadInode ==
  ASSUME NEW d, Records(d), NEW n \in InodeNumbers, NEW inode \in InodeRead(d, n)
  PROVE  /\ inode \in BlockGroupINode
         /\ HasPlace(inode)
         /\ InodeReadable(d, n) => inode = inode_at(d, n)
<1>1. CASE InodeReadable(d, n)
  BY <1>1, ReadablePlace DEF InodeRead, read_inode_info
<1>2. CASE ~ InodeReadable(d, n)
  BY <1>2, Ex2Assumption DEF InodeRead, read_inode_info, HasPlace, BlockGroupINode
<1> QED BY <1>1, <1>2

(* A handler that writes the descriptor it has read, or none, and its      *)
(* inode, with the blocks the file had or without.                         *)
LEMMA InodeChanged ==
  ASSUME NEW d, Records(d), NEW K \in SUBSET InodeNumbers, Files(d, K), NEW n \in K,
         NEW f, Records(f), OnlyMetadata(d, f), SameBits(f, d),
         NEW inode \in BlockGroupINode, inode.uid = n,
         inode.file_size \in 0 .. SizeLimit,
         \A k \in BlockIndex : inode.blocks[k] \in {inode_at(d, n).blocks[k], 0},
         NEW e, e = FlushInode(f, inode)
  PROVE  /\ Files(e, K)
         /\ OthersKept(d, e, K, n)
         /\ InodeReadable(e, n)
         /\ inode_at(e, n) = inode
<1>1. n \in InodeNumbers /\ InodeReadable(d, n) /\ ClearOfData(n)
  BY DEF Files
<1>2. SlotOf(n) \in Blocks
  BY <1>1, SlotIsOnDisk
<1>3. /\ Records(e)
      /\ SameBits(e, f)
      /\ \A b \in Blocks : b # SlotOf(n) => e[b] = f[b]
      /\ InodeReadable(e, n)
      /\ inode_at(e, n) = inode
  BY <1>1, <1>2, StoredInode DEF HasPlace
<1>4. SameBits(e, d)
  BY <1>3 DEF SameBits
<1>5. FrameOf(d, e, n)
  BY <1>3 DEF FrameOf, OnlyMetadata
<1>6. MarkedAreKnown(e, K) /\ KnownIsMarked(e, n)
  BY <1>4 DEF Files, MarkedAreKnown, KnownIsMarked, SameBits
<1>7. 0 \in BlockIndex
  BY LayoutNumbers DEF BlockIndex
<1>8. K = K \cup {n}
  OBVIOUS
<1>9. \A g \in Groups : /\ DataBitsOf(d)[g] \subseteq DataBitsOf(e)[g]
                        /\ InodeBitsOf(d)[g] \subseteq InodeBitsOf(e)[g]
  BY <1>4 DEF SameBits
<1>10. Files(e, K) /\ OthersKept(d, e, K, n)
  BY <1>1, <1>3, <1>5, <1>6, <1>7, <1>8, <1>9, FileChanged
<1> QED BY <1>3, <1>10

LEMMA NothingChanged ==
  ASSUME NEW d
  PROVE  OnlyMetadata(d, d) /\ SameBits(d, d)
  BY DEF OnlyMetadata, SameBits

-----------------------------------------------------------------------------

(* create_file takes the first group that has a free inode, by its count.  *)
LEMMA FirstGroupCounts ==
  ASSUME NEW d, GroupsWithInodes(d) # {}
  PROVE  /\ FirstGroup(d) \in Groups
         /\ read_block_descriptor(d, FirstGroup(d)).free_inodes_count # 0
<1>1. GroupsWithInodes(d) \subseteq Groups
  BY DEF GroupsWithInodes
<1>2. \E g \in GroupsWithInodes(d) : \A h \in GroupsWithInodes(d) : g <= h
  <2> HIDE DEF GroupsWithInodes
  <2> QED BY <1>1, GroupsAreNumbers, LeastNatural
<1>3. FirstGroup(d) \in GroupsWithInodes(d)
  <2> HIDE DEF GroupsWithInodes
  <2> QED BY <1>2 DEF FirstGroup
<1> QED BY <1>1, <1>3 DEF GroupsWithInodes

(* There it finds the number of the bit before the first, all being taken, *)
(* or of the first bit that is not.                                        *)
LEMMA VacantFound ==
  ASSUME NEW d, Records(d), GroupsWithInodes(d) # {},
         NEW g, g = FirstGroup(d), NEW found, found = VacantInode(d), NEW n, n = found.ret
  PROVE  /\ g \in Groups
         /\ n \in InodeNumbers
         /\ Records(found.disk)
         /\ OnlyMetadata(d, found.disk)
         /\ DataBitsOf(found.disk) = DataBitsOf(d)
         /\ \/ /\ InodeMapFull(d, g)
               /\ n = ExhaustedInode(g)
               /\ InodeBitsOf(found.disk) = InodeBitsOf(d)
            \/ \E bit \in InodeBits \ InodeBitsOf(d)[g] :
                 /\ \A lower \in InodeBits : lower < bit => lower \in InodeBitsOf(d)[g]
                 /\ n = InodeNumber(g, bit)
                 /\ InodeBitsOf(found.disk) = [InodeBitsOf(d) EXCEPT ![g] = @ \cup {bit}]
<1>1. g \in Groups /\ read_block_descriptor(d, g).free_inodes_count # 0
  BY FirstGroupCounts
<1>2. found = find_first_empty_inode(d, g, read_block_descriptor(d, g))
  BY DEF VacantInode
<1>3. /\ Sound(found.disk) /\ InodeFound(d, found.disk, g, n)
      /\ OnlyMetadata(d, found.disk)
      /\ n \in InodeNumbers
  BY <1>1, <1>2, FindInode DEF Records
<1>4. n # -1
  BY <1>3, InodeNumberType
<1>5. Records(found.disk)
  BY <1>3, ChangeMetadata
<1> QED BY <1>1, <1>3, <1>4, <1>5 DEF InodeFound

(* A full map is one with all bits.                                        *)
LEMMA FullInodeMap ==
  ASSUME NEW d, NEW g \in Groups
  PROVE  InodeMapFull(d, g) <=> InodeBits \subseteq InodeBitsOf(d)[g]
  BY DEF InodeMapFull, InodeBitsOf

(* Among files, an inode found in this way has no data block under it and  *)
(* a descriptor that counts it.                                            *)
LEMMA VacantIsSheltered ==
  ASSUME NEW d, Records(d), GroupsWithInodes(d) # {},
         NEW n, n = VacantInode(d).ret, NEW K, Files(d, K), InodeReadable(d, n)
  PROVE  ClearOfData(n) /\ n \div NUM_INODES_PER_GROUP \in Groups
<1>1. PICK g, found : g = FirstGroup(d) /\ found = VacantInode(d)
  OBVIOUS
<1>2. g \in Groups
  BY <1>1, VacantFound
<1>3. /\ InodeBits \subseteq -1 .. NUM_INODES_PER_GROUP - 1
      /\ -1 \in -1 .. NUM_INODES_PER_GROUP - 1
      /\ -1 \notin InodeBits
  BY LayoutNumbers DEF InodeBits
<1>4. Readable(get_starting_block_inode(n))
  BY DEF InodeReadable
<1>5. \A bit \in InodeBitsOf(d)[g] : Readable(get_starting_block_inode(InodeNumber(g, bit)))
  BY <1>2 DEF Files, MarkedAreKnown, InodeReadable
<1>6. \/ InodeMapFull(d, g) /\ n = ExhaustedInode(g)
      \/ \E bit \in InodeBits \ InodeBitsOf(d)[g] :
           /\ \A lower \in InodeBits : lower < bit => lower \in InodeBitsOf(d)[g]
           /\ n = InodeNumber(g, bit)
  <2>1. n = found.ret
    BY <1>1
  <2>2. \/ /\ InodeMapFull(d, g)
           /\ n = ExhaustedInode(g)
           /\ InodeBitsOf(found.disk) = InodeBitsOf(d)
        \/ \E bit \in InodeBits \ InodeBitsOf(d)[g] :
             /\ \A lower \in InodeBits : lower < bit => lower \in InodeBitsOf(d)[g]
             /\ n = InodeNumber(g, bit)
             /\ InodeBitsOf(found.disk) = [InodeBitsOf(d) EXCEPT ![g] = @ \cup {bit}]
    BY <1>1, <2>1, VacantFound
  <2> QED BY <2>2
<1>7. CASE InodeMapFull(d, g) /\ n = ExhaustedInode(g)
  <2>1. \A lower \in InodeBits : Readable(get_starting_block_inode(InodeNumber(g, lower)))
    BY <1>2, <1>5, <1>7, FullInodeMap
  <2> QED BY <1>2, <1>3, <1>4, <1>7, <2>1, DataAssumption DEF ExhaustedInode
<1>8. ASSUME NEW bit \in InodeBits \ InodeBitsOf(d)[g],
             \A lower \in InodeBits : lower < bit => lower \in InodeBitsOf(d)[g],
             n = InodeNumber(g, bit)
      PROVE  ClearOfData(n) /\ n \div NUM_INODES_PER_GROUP \in Groups
  <2>1. \A lower \in InodeBits :
          bit = -1 \/ lower < bit => Readable(get_starting_block_inode(InodeNumber(g, lower)))
    BY <1>3, <1>5, <1>8
  <2> QED BY <1>2, <1>3, <1>4, <1>8, <2>1, DataAssumption
<1> QED BY <1>6, <1>7, <1>8

(* It is a new one or the inode of the bit before the first.               *)
LEMMA VacantAmongFiles ==
  ASSUME NEW d, Records(d), GroupsWithInodes(d) # {},
         NEW g, g = FirstGroup(d), NEW found, found = VacantInode(d), NEW n, n = found.ret,
         NEW K, Files(d, K), InodeReadable(d, n), NEW L, L = K \cup {n}
  PROVE  /\ \A h \in Groups : InodeBitsOf(d)[h] \subseteq InodeBitsOf(found.disk)[h]
         /\ MarkedAreKnown(found.disk, L)
         /\ KnownIsMarked(found.disk, n)
         /\ n \in K => n = ExhaustedInode(g) /\ InodeMapFull(d, g)
<1>1. g \in Groups /\ n \in InodeNumbers
  BY VacantFound
<1>2. InodeBits \subseteq -1 .. NUM_INODES_PER_GROUP - 1 /\ -1 \in -1 .. NUM_INODES_PER_GROUP - 1
      /\ -1 \notin InodeBits
  BY LayoutNumbers DEF InodeBits
<1>3. DOMAIN InodeBitsOf(d) = Groups
  BY DEF InodeBitsOf
<1>4. CASE /\ InodeMapFull(d, g)
           /\ n = ExhaustedInode(g)
           /\ InodeBitsOf(found.disk) = InodeBitsOf(d)
  <2>1. n = InodeNumber(g, -1)
    BY <1>4 DEF ExhaustedInode
  <2>2. \A h \in Groups, bit \in InodeBits : n # InodeNumber(h, bit)
    BY <1>1, <1>2, <2>1, InodeNumbersApart
  <2>3. MarkedAreKnown(found.disk, L) /\ KnownIsMarked(found.disk, n)
    BY <1>4, <2>2 DEF Files, MarkedAreKnown, KnownIsMarked
  <2> QED BY <1>4, <2>3
<1>5. CASE \E bit \in InodeBits \ InodeBitsOf(d)[g] :
             /\ \A lower \in InodeBits : lower < bit => lower \in InodeBitsOf(d)[g]
             /\ n = InodeNumber(g, bit)
             /\ InodeBitsOf(found.disk) = [InodeBitsOf(d) EXCEPT ![g] = @ \cup {bit}]
  <2>1. PICK bit \in InodeBits \ InodeBitsOf(d)[g] :
             /\ \A lower \in InodeBits : lower < bit => lower \in InodeBitsOf(d)[g]
             /\ n = InodeNumber(g, bit)
             /\ InodeBitsOf(found.disk) = [InodeBitsOf(d) EXCEPT ![g] = @ \cup {bit}]
    BY <1>5
  <2>2. \A h \in Groups : h # g => InodeBitsOf(found.disk)[h] = InodeBitsOf(d)[h]
    BY <1>3, <2>1
  <2>3. InodeBitsOf(found.disk)[g] = InodeBitsOf(d)[g] \cup {bit}
    BY <1>1, <1>3, <2>1
  <2>4. MarkedAreKnown(found.disk, L)
    BY <2>1, <2>2, <2>3 DEF Files, MarkedAreKnown
  <2>5. \A h \in Groups, other \in InodeBits :
          n = InodeNumber(h, other) => h = g /\ other = bit
    BY <1>1, <1>2, <2>1, InodeNumbersApart
  <2>6. KnownIsMarked(found.disk, n)
    BY <2>3, <2>5 DEF KnownIsMarked
  <2>7. n \notin K
    <3> SUFFICES ASSUME n \in K PROVE FALSE
      OBVIOUS
    <3>1. bit \in InodeBitsOf(d)[g]
      BY <1>1, <2>1 DEF Files, KnownIsMarked
    <3> QED BY <2>1, <3>1
  <2> QED BY <2>2, <2>3, <2>4, <2>6, <2>7
<1> QED BY <1>4, <1>5, VacantFound

(* Number n, readable on disk d among the files K, is on disk e the number *)
(* of a file with the given inode; the others are as they were.            *)
Creates(d, e, n, inode) ==
  /\ Records(e)
  /\ \A K, L : Files(d, K) /\ InodeReadable(d, n) /\ L = K \cup {n} =>
       /\ Files(e, L)
       /\ OthersKept(d, e, K, n)
       /\ inode_at(e, n) = inode
       /\ n \in K => n = ExhaustedInode(FirstGroup(d))
       /\ n \div NUM_INODES_PER_GROUP \in Groups

(* That is what create_file does.                                          *)
LEMMA CreateFile ==
  ASSUME NEW d, Records(d), GroupsWithInodes(d) # {},
         NEW n, n = VacantInode(d).ret, NEW inode \in InodeRead(d, n),
         NEW permissions \in SUBSET Permissions, NEW is_directory \in BOOLEAN,
         NEW e, e = CreatedDisk(d, inode, permissions, is_directory)
  PROVE  /\ n \in InodeNumbers
         /\ Creates(d, e, n, set_vacant_inode(inode, permissions, is_directory))
<1>1. PICK found, g : found = VacantInode(d) /\ g = FirstGroup(d)
  OBVIOUS
<1>2. PICK made : made = set_vacant_inode(inode, permissions, is_directory)
  OBVIOUS
<1>3. PICK f : f = FlushInode(found.disk, made)
  OBVIOUS
<1>4. PICK r : r = read_block_descriptor(d, g)
  OBVIOUS
<1>5. e = FlushRecord(f, r)
  BY <1>1, <1>2, <1>3, <1>4 DEF CreatedDisk
<1>6. /\ g \in Groups /\ n \in InodeNumbers /\ n = found.ret
      /\ Records(found.disk)
      /\ OnlyMetadata(d, found.disk)
      /\ DataBitsOf(found.disk) = DataBitsOf(d)
  BY <1>1, VacantFound
<1>7. inode \in BlockGroupINode /\ HasPlace(inode) /\ (InodeReadable(d, n) => inode = inode_at(d, n))
  BY <1>6, ReadInode
<1>8. /\ made \in BlockGroupINode
      /\ made.uid = inode.uid
      /\ made.blocks = inode.blocks
      /\ made.file_size = 0
  <2>1. inode.hard_link_count + 1 \in Nat /\ 0 \in Nat /\ 0 \in Int
    BY <1>7 DEF BlockGroupINode
  <2>2. made = [inode EXCEPT !.hard_link_count = inode.hard_link_count + 1, !.file_size = 0,
                             !.inode_mode = permissions, !.is_directory = is_directory]
    BY <1>2, <1>7 DEF set_vacant_inode, BlockGroupINode
  <2> QED BY <1>7, <2>1, <2>2 DEF BlockGroupINode
<1>9. HasPlace(made) /\ made.file_size \in 0 .. SizeLimit
  BY <1>7, <1>8, SizeLimitType DEF HasPlace
<1>10. Records(f) /\ SameBits(f, found.disk)
  BY <1>3, <1>6, <1>8, <1>9, DestroyInode
<1>11. r \in BlockGroupDescriptor /\ r.block_number = get_starting_block_group_descriptor(g)
  <2>1. g \in Nat /\ get_starting_block_group_descriptor(g) < OFFSET_SPAN
    <3>1. get_starting_block_group_descriptor(g) \in Blocks
      BY <1>6, HomesApart
    <3> QED BY <1>6, <3>1, GroupsAreNumbers, LayoutNumbers DEF Blocks
  <2> QED BY <1>4, <1>6, <2>1, ReadDescriptor DEF Records
<1>12. /\ Sound(e) /\ SameBits(e, f)
       /\ OnlyMetadata(f, e)
  <2>1. Sound(f) /\ f \in [Blocks -> Content]
    BY <1>10 DEF Records, Sound
  <2> QED BY <1>5, <1>6, <1>11, <2>1, FlushDescriptor, DescriptorMetadata
<1>13. Records(e)
  BY <1>10, <1>12, ChangeMetadata
<1>14. ASSUME NEW K, NEW L, Files(d, K), InodeReadable(d, n), L = K \cup {n}
       PROVE  /\ Files(e, L)
              /\ OthersKept(d, e, K, n)
              /\ inode_at(e, n) = made
              /\ n \in K => n = ExhaustedInode(g)
              /\ n \div NUM_INODES_PER_GROUP \in Groups
  <2>1. /\ ClearOfData(n)
        /\ n \div NUM_INODES_PER_GROUP \in Groups
        /\ \A h \in Groups : InodeBitsOf(d)[h] \subseteq InodeBitsOf(found.disk)[h]
        /\ MarkedAreKnown(found.disk, L)
        /\ KnownIsMarked(found.disk, n)
        /\ n \in K => n = ExhaustedInode(g)
    <3>1. ClearOfData(n) /\ n \div NUM_INODES_PER_GROUP \in Groups
      BY <1>14, VacantIsSheltered
    <3>2. MarkedAreKnown(found.disk, L)
      BY <1>1, <1>6, <1>14, VacantAmongFiles
    <3>3. \A h \in Groups : InodeBitsOf(d)[h] \subseteq InodeBitsOf(found.disk)[h]
      BY <1>1, <1>6, <1>14, VacantAmongFiles
    <3>4. n \in K => n = ExhaustedInode(g)
      BY <1>1, <1>6, <1>14, VacantAmongFiles
    <3>5. KnownIsMarked(found.disk, n)
      BY <1>1, <1>6, <1>14, VacantAmongFiles
    <3> QED BY <3>1, <3>2, <3>3, <3>4, <3>5
  <2>2. SlotOf(n) \in Blocks /\ SlotOf(n) \notin MetadataBlocks \cup {0}
    BY <1>6, <1>14, <2>1, SlotIsOnDisk, SlotPlace DEF ClearOfData, SlotOf
  <2>3. inode = inode_at(d, n) /\ made.uid = n
    <3>1. InodesAtHome(d)
      BY <1>14 DEF Files
    <3> QED BY <1>6, <1>7, <1>8, <1>14, <3>1, NamesItself
  <2>4. /\ \A b \in Blocks : b # SlotOf(n) => f[b] = found.disk[b]
        /\ inode_at(f, n) = made
    BY <1>3, <1>6, <1>8, <1>9, <2>2, <2>3, StoredInode
  <2>5. e[SlotOf(n)] = made /\ inode_at(e, n) = made
    <3>1. e[SlotOf(n)] = f[SlotOf(n)]
      BY <1>12, <2>2 DEF OnlyMetadata
    <3> QED BY <1>6, <1>10, <1>13, <2>4, <3>1, ReadablePlace
  <2>6. InodeReadable(e, n)
    BY <1>6, <1>8, <1>13, <2>2, <2>5, ContentKinds, ReadablePlace
  <2>7. FrameOf(d, e, n)
    <3> SUFFICES ASSUME NEW b \in Blocks, b # SlotOf(n)
                 PROVE  \/ e[b] = d[b]
                        \/ b \in MetadataBlocks \cup {0} /\ e[b].kind # "inode"
      BY DEF FrameOf
    <3>1. f[b] = found.disk[b]
      BY <2>4
    <3>2. \/ e[b] = f[b]
          \/ b \in MetadataBlocks \cup {0} /\ e[b].kind # "inode"
      BY <1>12 DEF OnlyMetadata
    <3>3. \/ found.disk[b] = d[b]
          \/ b \in MetadataBlocks \cup {0} /\ found.disk[b].kind # "inode"
      BY <1>6 DEF OnlyMetadata
    <3> QED BY <3>1, <3>2, <3>3
  <2>8. InodeBitsOf(e) = InodeBitsOf(found.disk) /\ DataBitsOf(e) = DataBitsOf(d)
    BY <1>6, <1>10, <1>12 DEF SameBits
  <2>9. MarkedAreKnown(e, L) /\ KnownIsMarked(e, n)
    BY <2>1, <2>8 DEF MarkedAreKnown, KnownIsMarked
  <2>10. \A h \in Groups : /\ DataBitsOf(d)[h] \subseteq DataBitsOf(e)[h]
                           /\ InodeBitsOf(d)[h] \subseteq InodeBitsOf(e)[h]
    BY <2>1, <2>8
  <2>11. \A j \in BlockIndex : inode_at(e, n).blocks[j] \in {inode_at(d, n).blocks[j], 0}
    BY <1>8, <2>3, <2>5
  <2>12. 0 \in BlockIndex
    BY LayoutNumbers DEF BlockIndex
  <2>13. inode_at(e, n).uid = n
    BY <2>3, <2>5
  <2>14. Files(e, L) /\ OthersKept(d, e, K, n)
    BY <1>6, <1>8, <1>9, <1>13, <1>14, <2>1, <2>5, <2>6, <2>7, <2>9, <2>10, <2>11, <2>12, <2>13,
       FileChanged
  <2> QED BY <2>1, <2>5, <2>14
<1>15. Creates(d, e, n, made)
  BY <1>1, <1>13, <1>14 DEF Creates
<1> QED BY <1>2, <1>6, <1>15

-----------------------------------------------------------------------------

(* A handler of file n makes disk e of disk d: e is as sound as d, and if  *)
(* on d the numbers K are files then so they are on e, n with the given    *)
(* record, the others as they were.                                        *)
Handles(d, e, n, record) ==
  /\ Records(e)
  /\ \A K \in SUBSET InodeNumbers :
       n \in K /\ Files(d, K) =>
         /\ Files(e, K)
         /\ OthersKept(d, e, K, n)
         /\ FileRecord(inode_at(e, n)) = record

(* The inode of a file, as it is read and known by its number.             *)
LEMMA ReadFile ==
  ASSUME NEW d, Records(d), NEW K \in SUBSET InodeNumbers, Files(d, K), NEW n \in K
  PROVE  /\ InodeReadable(d, n)
         /\ InodeRead(d, n) = {inode_at(d, n)}
         /\ inode_at(d, n).uid = n
<1>1. n \in InodeNumbers /\ InodeReadable(d, n) /\ InodesAtHome(d)
  BY DEF Files
<1> QED BY <1>1, NamesItself DEF InodeRead, read_inode_info

(* The destructor of a local inode whose block list the handler has left   *)
(* as it was, or emptied.                                                  *)
LEMMA HandledByInode ==
  ASSUME NEW d, Records(d), NEW n \in InodeNumbers, NEW inode \in InodeRead(d, n),
         NEW f, Records(f), OnlyMetadata(d, f), SameBits(f, d),
         NEW changed \in BlockGroupINode,
         changed.uid = inode.uid,
         changed.file_size = inode.file_size \/ changed.file_size \in 0 .. SizeLimit,
         \A k \in BlockIndex : changed.blocks[k] \in {inode.blocks[k], 0},
         NEW e, e = FlushInode(f, changed)
  PROVE  HasPlace(changed) /\ Handles(d, e, n, FileRecord(changed))
<1>1. HasPlace(inode)
  BY ReadInode
<1>2. HasPlace(changed)
  BY <1>1 DEF HasPlace
<1>3. Records(e)
  BY <1>2, DestroyInode
<1>4. ASSUME NEW K \in SUBSET InodeNumbers, n \in K, Files(d, K)
      PROVE  Files(e, K) /\ OthersKept(d, e, K, n) /\ inode_at(e, n) = changed
  <2>1. inode = inode_at(d, n) /\ changed.uid = n
    BY <1>4, ReadFile
  <2>2. changed.file_size \in 0 .. SizeLimit
    BY <1>4, <2>1 DEF Files
  <2> QED BY <1>4, <2>1, <2>2, InodeChanged
<1> QED BY <1>2, <1>3, <1>4 DEF Handles

(* The destructor of the local inode at the end of a transfer.             *)
LEMMA HandledByTransfer ==
  ASSUME NEW d, Records(d), NEW n \in InodeNumbers, NEW inode \in InodeRead(d, n),
         NEW changed \in BlockGroupINode,
         changed.uid = inode.uid,
         changed.file_size = inode.file_size \/ changed.file_size \in 0 .. SizeLimit,
         changed.blocks = inode.blocks,
         NEW t0, t0 = [disk |-> d, used |-> 0, inode |-> changed],
         NEW t, Progress(t0, t, n),
         NEW e, e = FlushInode(t.disk, t.inode)
  PROVE  Handles(d, e, n, FileRecord(changed))
<1>1. PICK e0 : e0 = FlushInode(d, changed)
  OBVIOUS
<1>2. HasPlace(changed) /\ Handles(d, e0, n, FileRecord(changed))
  BY <1>1, NothingChanged, HandledByInode
<1>3. e0 = Stored(t0) /\ e = Stored(t)
  BY <1>1 DEF Stored
<1>4. /\ Records(t.disk) /\ t.inode \in BlockGroupINode /\ HasPlace(t.inode)
      /\ t.inode = [changed EXCEPT !.blocks = t.inode.blocks]
  BY DEF Progress, Working
<1>5. /\ t.inode.uid = changed.uid
      /\ FileRecord(t.inode) = FileRecord(changed)
  BY <1>4 DEF FileRecord, BlockGroupINode
<1>6. Records(e)
  BY <1>4, DestroyInode
<1>7. ASSUME NEW K \in SUBSET InodeNumbers, n \in K, Files(d, K)
      PROVE  /\ Files(e, K)
             /\ OthersKept(d, e, K, n)
             /\ FileRecord(inode_at(e, n)) = FileRecord(changed)
  <2>1. InodeReadable(d, n) /\ changed.uid = n
    <3>1. inode = inode_at(d, n)
      BY <1>7, ReadFile
    <3> QED BY <1>7, <3>1, ReadFile
  <2>2. Files(e0, K) /\ OthersKept(d, e0, K, n)
    BY <1>2, <1>7 DEF Handles
  <2>3. Files(e, K) /\ OthersKept(e0, e, K, n) /\ inode_at(e, n) = t.inode
    BY <1>3, <1>7, <2>1, <2>2 DEF Progress
  <2>4. inode_at(e0, n) = changed
    <3>1. SlotOf(n) \in Blocks
      BY <2>1, SlotIsOnDisk
    <3> QED BY <1>1, <1>2, <2>1, <3>1, StoredInode
  <2>5. \A k \in BlockIndex : changed.blocks[k] # 0 => t.inode.blocks[k] = changed.blocks[k]
    BY DEF Progress
  <2>6. OthersKept(d, e, K, n)
    BY <2>2, <2>3, <2>4, <2>5, OthersKeptTwice
  <2> QED BY <1>5, <2>3, <2>6
<1> QED BY <1>6, <1>7 DEF Handles

(* The handlers one by one.  The inode only read goes back as it was.      *)
LEMMA HandledByRead ==
  ASSUME NEW d, Records(d), NEW n \in InodeNumbers, NEW inode \in InodeRead(d, n)
  PROVE  Handles(d, FlushInode(d, inode), n, FileRecord(inode))
  BY ReadInode, NothingChanged, HandledByInode

LEMMA HandledByWrite ==
  ASSUME NEW d, Records(d), NEW my_file \in MyFile,
         NEW n \in InodeNumbers, n = my_file.inode_number, NEW inode \in InodeRead(d, n),
         NEW payload \in Seq(Cell),
         NEW size, size = my_file.file_size + Len(payload), size \in 0 .. SizeLimit,
         ClearOver(inode, IndicesWritten(my_file, payload)),
         NEW t, t = Transfer(d, inode, my_file, payload)
  PROVE  Handles(d, FlushInode(t.disk, t.inode), n,
                 [FileRecord(inode) EXCEPT !.size = size])
<1>1. inode \in BlockGroupINode /\ HasPlace(inode)
  BY ReadInode
<1>2. PICK changed : changed = [inode EXCEPT !.file_size = size]
  OBVIOUS
<1>3. PICK t0 : t0 = [disk |-> d, used |-> 0, inode |-> changed]
  OBVIOUS
<1>4. size \in Int
  OBVIOUS
<1>5. /\ changed \in BlockGroupINode
      /\ changed.uid = inode.uid
      /\ changed.blocks = inode.blocks
      /\ changed.file_size = size
      /\ FileRecord(changed) = [FileRecord(inode) EXCEPT !.size = size]
  <2>1. changed \in BlockGroupINode
    BY <1>1, <1>2, <1>4 DEF BlockGroupINode
  <2>2. /\ changed.uid = inode.uid
        /\ changed.blocks = inode.blocks
        /\ changed.file_size = size
        /\ changed.hard_link_count = inode.hard_link_count
        /\ changed.inode_mode = inode.inode_mode
        /\ changed.is_directory = inode.is_directory
    BY <1>1, <1>2 DEF BlockGroupINode
  <2>3. FileRecord(changed) = [FileRecord(inode) EXCEPT !.size = size]
    BY <2>2 DEF FileRecord
  <2> QED BY <2>1, <2>2, <2>3
<1>6. Progress(t0, t, n)
  BY <1>1, <1>2, <1>3, TransferProgress
<1> QED BY <1>3, <1>5, <1>6, HandledByTransfer

LEMMA HandledByLink ==
  ASSUME NEW d, Records(d), NEW n \in InodeNumbers, NEW inode \in InodeRead(d, n),
         NEW e, e = LinkedDisk(d, n, inode)
  PROVE  Handles(d, e, n, [FileRecord(inode) EXCEPT !.links = inode.hard_link_count + 1])
<1>1. inode \in BlockGroupINode /\ HasPlace(inode)
  BY ReadInode
<1>2. PICK linked : linked = [inode EXCEPT !.hard_link_count = inode.hard_link_count + 1]
  OBVIOUS
<1>3. /\ linked \in BlockGroupINode
      /\ linked.uid = inode.uid
      /\ linked.blocks = inode.blocks
      /\ linked.file_size = inode.file_size
      /\ FileRecord(linked) = [FileRecord(inode) EXCEPT !.links = inode.hard_link_count + 1]
  BY <1>1, <1>2 DEF BlockGroupINode, FileRecord, HasPlace
<1>4. PICK f : f = write_inode_info(d, n, linked)
  OBVIOUS
<1>5. e = FlushInode(f, linked)
  BY <1>1, <1>2, <1>4 DEF LinkedDisk, BlockGroupINode
<1>6. HasPlace(linked)
  BY <1>1, <1>3 DEF HasPlace
<1>7. Records(f)
  BY <1>3, <1>4, <1>6, StoreInode
<1>8. Records(e)
  BY <1>3, <1>5, <1>6, <1>7, DestroyInode
<1>9. ASSUME NEW K \in SUBSET InodeNumbers, n \in K, Files(d, K)
      PROVE  Files(e, K) /\ OthersKept(d, e, K, n) /\ inode_at(e, n) = linked
  <2>1. inode = inode_at(d, n) /\ linked.uid = n /\ linked.file_size \in 0 .. SizeLimit
    BY <1>3, <1>9, ReadFile DEF Files
  <2>2. f = FlushInode(d, linked)
    BY <1>4, <2>1 DEF FlushInode, write_inode_info
  <2>3. Files(f, K) /\ OthersKept(d, f, K, n) /\ inode_at(f, n) = linked
    BY <1>3, <1>9, <2>1, <2>2, NothingChanged, InodeChanged
  <2>4. Files(e, K) /\ OthersKept(f, e, K, n) /\ inode_at(e, n) = linked
    BY <1>3, <1>5, <1>7, <1>9, <2>1, <2>3, NothingChanged, InodeChanged
  <2>5. OthersKept(d, e, K, n)
    BY <2>3, <2>4, OthersKeptTwice
  <2> QED BY <2>4, <2>5
<1> QED BY <1>3, <1>8, <1>9 DEF Handles

(* The links left when delete_file has been there.                         *)
LinksLeft(links) == IF links = 0 THEN 0 ELSE links - 1

LEMMA HandledByDelete ==
  ASSUME NEW d, Records(d), NEW n \in InodeNumbers, NEW inode \in InodeRead(d, n),
         NEW e, e = DeletedDisk(d, n, inode)
  PROVE  Handles(d, e, n,
                 [FileRecord(inode) EXCEPT !.links = LinksLeft(inode.hard_link_count)])
<1>1. inode \in BlockGroupINode /\ HasPlace(inode)
  BY ReadInode
<1>2. inode.hard_link_count \in Nat
  BY <1>1 DEF BlockGroupINode
<1>3. CASE inode.hard_link_count = 0
  <2>1. e = FlushInode(d, inode)
    BY <1>2, <1>3 DEF DeletedDisk
  <2>2. FileRecord(inode)
          = [FileRecord(inode) EXCEPT !.links = LinksLeft(inode.hard_link_count)]
    BY <1>3 DEF FileRecord, LinksLeft
  <2> QED BY <2>1, <2>2, HandledByRead
<1>4. CASE inode.hard_link_count > 1
  <2>1. PICK less : less = [inode EXCEPT !.hard_link_count = inode.hard_link_count - 1]
    OBVIOUS
  <2>2. e = FlushInode(d, less)
    BY <1>1, <1>2, <1>4, <2>1 DEF DeletedDisk, BlockGroupINode
  <2>3. /\ less \in BlockGroupINode
        /\ less.uid = inode.uid
        /\ less.blocks = inode.blocks
        /\ less.file_size = inode.file_size
        /\ FileRecord(less)
             = [FileRecord(inode) EXCEPT !.links = LinksLeft(inode.hard_link_count)]
    BY <1>1, <1>2, <1>4, <2>1 DEF BlockGroupINode, FileRecord, HasPlace, LinksLeft
  <2> QED BY <2>2, <2>3, NothingChanged, HandledByInode
<1>5. CASE inode.hard_link_count = 1
  <2>1. PICK g : g = n \div NUM_INODES_PER_GROUP
    OBVIOUS
  <2>2. PICK r : r = read_block_descriptor(d, g)
    OBVIOUS
  <2>3. PICK counted :
          counted = [r EXCEPT !.free_inodes_count
                                = (r.free_inodes_count + COUNT_SPAN - 1) % COUNT_SPAN]
    OBVIOUS
  <2>4. PICK forgotten :
          forgotten = [inode EXCEPT !.hard_link_count = 0, !.blocks = [k \in BlockIndex |-> 0]]
    OBVIOUS
  <2>5. PICK f : f = FlushRecord(d, counted)
    OBVIOUS
  <2>6. /\ r \in BlockGroupDescriptor
        /\ \/ r.block_number = 0
           \/ \E h \in Groups : r.block_number = get_starting_block_group_descriptor(h)
    <3>1. g \in Nat /\ get_starting_block_group_descriptor(g) < OFFSET_SPAN
      BY <2>1, InodeNumberType
    <3> QED BY <2>2, <3>1, ReadDescriptor DEF Records
  <2>7. counted \in BlockGroupDescriptor /\ counted.block_number = r.block_number
    <3>1. r.free_inodes_count \in Nat
      BY <2>6 DEF BlockGroupDescriptor, Count
    <3>2. COUNT_SPAN \in Nat \ {0}
      BY BlockGroupAssumption, LayoutNumbers
    <3>3. (r.free_inodes_count + COUNT_SPAN - 1) % COUNT_SPAN \in Count
      BY <3>1, <3>2 DEF Count
    <3> QED BY <2>3, <2>6, <3>3 DEF BlockGroupDescriptor
  <2>8. e = FlushInode(f, forgotten)
    BY <1>5, <2>1, <2>2, <2>3, <2>4, <2>5, <2>6 DEF DeletedDisk, BlockGroupDescriptor
  <2>9. Sound(f) /\ SameBits(f, d) /\ OnlyMetadata(d, f)
    BY <2>5, <2>6, <2>7, FlushDescriptor, DescriptorMetadata DEF Records, Sound
  <2>10. Records(f)
    BY <2>9, ChangeMetadata
  <2>11. /\ forgotten \in BlockGroupINode
         /\ forgotten.uid = inode.uid
         /\ forgotten.blocks = [k \in BlockIndex |-> 0]
         /\ forgotten.file_size = inode.file_size
         /\ FileRecord(forgotten)
              = [FileRecord(inode) EXCEPT !.links = LinksLeft(inode.hard_link_count)]
    <3>1. [k \in BlockIndex |-> 0] \in [BlockIndex -> Int]
      OBVIOUS
    <3>2. /\ forgotten \in BlockGroupINode
          /\ forgotten.hard_link_count = 0
          /\ forgotten.blocks = [k \in BlockIndex |-> 0]
          /\ forgotten.uid = inode.uid
          /\ forgotten.file_size = inode.file_size
          /\ forgotten.inode_mode = inode.inode_mode
          /\ forgotten.is_directory = inode.is_directory
      BY <1>1, <2>4, <3>1 DEF BlockGroupINode
    <3>3. LinksLeft(inode.hard_link_count) = 0
      BY <1>5 DEF LinksLeft
    <3> QED BY <1>1, <3>2, <3>3 DEF FileRecord, HasPlace
  <2> QED BY <2>8, <2>9, <2>10, <2>11, HandledByInode
<1> QED BY <1>2, <1>3, <1>4, <1>5

(* write_at, one block after another, whatever it takes for a block.       *)
LEMMA HandledByWriteAt ==
  ASSUME NEW d, Records(d), NEW n \in InodeNumbers, NEW inode \in InodeRead(d, n),
         NEW payload \in Seq(Cell), NEW from \in Int, NEW to \in Int,
         NEW first, NEW last, Writes(inode, IndicesTouched(first, last)),
         NEW t0, t0 = [disk |-> d, used |-> 0, inode |-> inode],
         NEW t1, t1 = WriteBlock(t0, n, first, from, BLOCK_SIZE, payload),
         NEW t2, t2 = WriteWholeBlocks(t1, n, first + 1, last - 1, payload),
         NEW t, t = IF first = last
                    THEN WriteBlock(t0, n, first, from, to, payload)
                    ELSE WriteBlock(t2, n, last, 0, to % BLOCK_SIZE, payload)
  PROVE  Handles(d, FlushInode(t.disk, t.inode), n, FileRecord(inode))
<1>1. inode \in BlockGroupINode /\ HasPlace(inode)
  BY ReadInode
<1>2. Working(t0) /\ t0.inode = inode
  BY <1>1 DEF Working, Records, Sound
<1>3. \A k \in {first, last} \cup first .. last : k \in BlockIndex /\ Clear(inode, k)
  BY WritesClear DEF IndicesTouched, ClearOver
<1>4. BLOCK_SIZE \in Int /\ 0 \in Int /\ to % BLOCK_SIZE \in Int
  BY BlockGroupAssumption
<1>5. first \in Int /\ last \in Int /\ first + 1 \in Int /\ last - 1 \in Int
      /\ first + 1 .. last - 1 \subseteq first .. last
  <2>1. PICK f \in Int, l \in Int : f = first /\ l = last
    <3>1. BlockIndex \subseteq Int /\ first \in BlockIndex /\ last \in BlockIndex
      BY <1>3, LayoutNumbers DEF BlockIndex
    <3> QED BY <3>1
  <2>2. f + 1 .. l - 1 \subseteq f .. l
    OBVIOUS
  <2> QED BY <2>1, <2>2
<1>6. CASE first = last
  <2>1. Progress(t0, t, n)
    BY <1>2, <1>3, <1>6, WriteBlockProgress
  <2> QED BY <1>1, <2>1, HandledByTransfer
<1>7. CASE first # last
  <2>1. Progress(t0, t1, n)
    BY <1>2, <1>3, <1>4, WriteBlockProgress
  <2>2. Working(t1) /\ \A k \in BlockIndex : Clear(inode, k) => Clear(t1.inode, k)
    BY <1>2, <2>1 DEF Progress
  <2>3. /\ first + 1 .. last - 1 \subseteq BlockIndex
        /\ \A k \in first + 1 .. last - 1 : Clear(t1.inode, k)
    BY <1>3, <1>5, <2>2
  <2>4. Progress(t1, t2, n)
    BY <1>5, <2>2, <2>3, WriteWholeBlocksProgress
  <2>5. Progress(t0, t2, n)
    BY <1>2, <2>1, <2>4, ProgressFurther
  <2>6. Working(t2) /\ Clear(t2.inode, last)
    BY <1>2, <1>3, <2>5 DEF Progress
  <2>7. Progress(t2, t, n)
    BY <1>3, <1>4, <1>7, <2>6, WriteBlockProgress
  <2>8. Progress(t0, t, n)
    BY <1>2, <2>5, <2>7, ProgressFurther
  <2> QED BY <1>1, <2>8, HandledByTransfer
<1> QED BY <1>6, <1>7

(* rename_file puts what it has not read where the number and then the     *)
(* contents send it.                                                       *)
LEMMA RenamedRecords ==
  ASSUME NEW d, Records(d), NEW n \in InodeNumbers, NEW inode \in JunkInodes
  PROVE  Records(FlushInode(write_inode_info(d, n, inode), inode))
<1>1. inode \in BlockGroupINode /\ HasPlace(inode)
  BY Ex2Assumption DEF HasPlace, BlockGroupINode
<1>2. Records(write_inode_info(d, n, inode))
  BY <1>1, StoreInode
<1> QED BY <1>1, <1>2, DestroyInode

-----------------------------------------------------------------------------

(* The inductive invariant of the file system.                             *)
IInv ==
  /\ TypeOK
  /\ Records(disk)
  /\ known \subseteq InodeNumbers
  /\ known # {}
  /\ \A fd \in DOMAIN mp : mp[fd].inode_number \in known
  /\ ~undefined => Files(disk, known)

(* While nothing uninitialized is used, a step may work on one file n.     *)
Kept(n) == ~undefined' => ~undefined /\ OthersKept(disk, disk', known, n)

(* The record callers know a file by, and what a step makes of file n.     *)
RecordOf(n) == FileRecord(inode_at(disk, n))

Outcome(n, record) ==
  ~undefined' => /\ ~undefined
                 /\ OthersKept(disk, disk', known, n)
                 /\ FileRecord(inode_at(disk', n)) = record

(* What every step must show, apart from the open descriptors.             *)
DiskStep ==
  /\ disk' \in [Blocks -> Content]
  /\ Records(disk')
  /\ known' \subseteq InodeNumbers
  /\ known \subseteq known'
  /\ ~undefined' => Files(disk', known')
  /\ \E n \in known' : Kept(n)

LEMMA IdleStep ==
  ASSUME IInv, disk' = disk, known' = known, undefined => undefined'
  PROVE  DiskStep
<1>1. PICK n \in known : Kept(n)
  BY DEF Kept, OthersKept, IInv
<1> QED BY <1>1 DEF IInv, DiskStep, TypeOK

(* A number that reads well while nothing uninitialized was used names the *)
(* inode that is read.                                                     *)
LEMMA NotedRead ==
  ASSUME IInv, NEW n \in known, NoteRead(n), NEW inode \in InodeRead(disk, n)
  PROVE  /\ n \in InodeNumbers
         /\ Records(disk)
         /\ undefined => undefined'
         /\ ~undefined' => /\ ~undefined
                           /\ InodeReadable(disk, n)
                           /\ inode = inode_at(disk, n)
<1>1. n \in InodeNumbers /\ Records(disk)
  BY DEF IInv
<1>2. InodeReadable(disk, n) => inode = inode_at(disk, n)
  BY <1>1, ReadInode
<1> QED BY <1>1, <1>2 DEF NoteRead

LEMMA HandlerStep ==
  ASSUME IInv, NEW n \in known, NoteRead(n), NEW inode \in InodeRead(disk, n),
         NEW record, Handles(disk, disk', n, record), known' = known
  PROVE  /\ DiskStep
         /\ Outcome(n, record)
         /\ ~undefined' => FileRecord(inode) = RecordOf(n)
<1>1. /\ n \in InodeNumbers /\ known \in SUBSET InodeNumbers
      /\ undefined => undefined'
      /\ ~undefined' => ~undefined /\ inode = inode_at(disk, n)
  BY NotedRead DEF IInv
<1>2. Records(disk') /\ disk' \in [Blocks -> Content]
  BY DEF Handles, Records, Sound
<1>3. ~undefined' => /\ Files(disk', known)
                     /\ OthersKept(disk, disk', known, n)
                     /\ FileRecord(inode_at(disk', n)) = record
  BY <1>1 DEF IInv, Handles
<1>4. Kept(n)
  BY <1>1, <1>3 DEF Kept
<1> QED BY <1>1, <1>2, <1>3, <1>4 DEF DiskStep, Outcome, RecordOf

(* The record may as well be told by the one on the disk.                  *)
LEMMA SameOutcome ==
  ASSUME NEW n, NEW r, NEW s, Outcome(n, r), ~undefined' => r = s
  PROVE  Outcome(n, s)
  BY DEF Outcome

LEMMA DescriptorsKept ==
  ASSUME IInv, DiskStep, mp' = mp, created_file_descriptors' = created_file_descriptors,
         alive' \in BOOLEAN, undefined' \in BOOLEAN
  PROVE  IInv'
<1>1. ~undefined' => ~undefined
  BY DEF DiskStep, Kept
<1>2. TypeOK'
  <2>1. known' \subseteq Nat
    BY InodeNumberType DEF DiskStep
  <2> QED BY <1>1, <2>1 DEF IInv, DiskStep, TypeOK
<1> QED BY <1>2 DEF IInv, DiskStep

(* What handlers take for granted of a descriptor.                         *)
Measured(my_file) ==
  my_file.position <= my_file.file_size /\ my_file.file_size \in 0 .. SizeLimit

-----------------------------------------------------------------------------

LEMMA CreateStep ==
  ASSUME IInv, NEW permissions \in Modes, NEW is_directory \in Kinds,
         NEW n, n = VacantInode(disk).ret,
         create_file(permissions, is_directory)
  PROVE  /\ IInv' /\ DiskStep
         /\ Outcome(n, [links |-> RecordOf(n).links + 1, size |-> 0,
                        mode |-> permissions, is_directory |-> is_directory])
         /\ ~undefined' /\ n \in known => n = ExhaustedInode(FirstGroup(disk))
         /\ ~undefined' => InodeReadable(disk, n) /\ n \div NUM_INODES_PER_GROUP \in Groups
         /\ known' = known \cup {n}
<1>1. Records(disk) /\ GroupsWithInodes(disk) # {}
  BY DEF IInv, create_file
<1>2. permissions \in SUBSET Permissions /\ is_directory \in BOOLEAN
  BY Ex2Assumption
<1>3. PICK g : g = FirstGroup(disk)
  OBVIOUS
<1>4. /\ known' = known \cup {n}
      /\ NoteRead(n)
      /\ mp' = mp /\ created_file_descriptors' = created_file_descriptors /\ alive' = alive
  BY DEF create_file
<1>5. PICK inode \in InodeRead(disk, n) :
        disk' = CreatedDisk(disk, inode, permissions, is_directory)
  BY DEF create_file
<1>6. /\ n \in InodeNumbers /\ Records(disk')
      /\ Creates(disk, disk', n, set_vacant_inode(inode, permissions, is_directory))
  <2>1. /\ n \in InodeNumbers
        /\ Creates(disk, disk', n, set_vacant_inode(inode, permissions, is_directory))
    BY <1>1, <1>2, <1>3, <1>5, CreateFile
  <2> QED BY <2>1 DEF Creates
<1>7. ~undefined' => ~undefined /\ InodeReadable(disk, n) /\ Files(disk, known)
  BY <1>4 DEF NoteRead, IInv
<1>8. ASSUME ~undefined'
      PROVE  /\ Files(disk', known')
             /\ Kept(n)
             /\ inode_at(disk', n) = set_vacant_inode(inode, permissions, is_directory)
             /\ n \in known => n = ExhaustedInode(g)
             /\ n \div NUM_INODES_PER_GROUP \in Groups
  <2>1. Files(disk, known) /\ InodeReadable(disk, n)
    BY <1>7, <1>8
  <2>2. /\ Files(disk', known')
        /\ OthersKept(disk, disk', known, n)
        /\ inode_at(disk', n) = set_vacant_inode(inode, permissions, is_directory)
        /\ n \in known => n = ExhaustedInode(g)
        /\ n \div NUM_INODES_PER_GROUP \in Groups
    BY <1>3, <1>4, <1>6, <2>1 DEF Creates
  <2> QED BY <1>7, <2>2 DEF Kept
<1>9. DiskStep
  <2>1. Kept(n)
    BY <1>8 DEF Kept
  <2>2. known' \subseteq InodeNumbers /\ known \subseteq known'
    BY <1>4, <1>6 DEF IInv
  <2>3. \E m \in known' : Kept(m)
    BY <1>4, <2>1
  <2>4. disk' \in [Blocks -> Content] /\ Records(disk') /\ (~undefined' => Files(disk', known'))
    BY <1>6, <1>8 DEF Records, Sound
  <2> QED BY <2>2, <2>3, <2>4 DEF DiskStep
<1>10. alive' \in BOOLEAN /\ undefined' \in BOOLEAN
  BY <1>4 DEF IInv, TypeOK, NoteRead
<1>11. IInv'
  BY <1>4, <1>9, <1>10, DescriptorsKept
<1>12. Outcome(n, [links |-> RecordOf(n).links + 1, size |-> 0,
                   mode |-> permissions, is_directory |-> is_directory])
  <2> SUFFICES ASSUME ~undefined'
               PROVE  FileRecord(inode_at(disk', n))
                        = [links |-> RecordOf(n).links + 1, size |-> 0,
                           mode |-> permissions, is_directory |-> is_directory]
    BY <1>7, <1>8 DEF Outcome, Kept
  <2>1. inode_at(disk', n) = set_vacant_inode(inode, permissions, is_directory)
    BY <1>8
  <2>2. inode = inode_at(disk, n) /\ inode \in BlockGroupINode
    BY <1>1, <1>6, <1>7, ReadInode
  <2> QED BY <2>1, <2>2 DEF set_vacant_inode, BlockGroupINode, FileRecord, RecordOf
<1>13. /\ ~undefined' /\ n \in known => n = ExhaustedInode(g)
       /\ ~undefined' => n \div NUM_INODES_PER_GROUP \in Groups
  BY <1>8
<1> QED BY <1>3, <1>4, <1>7, <1>9, <1>11, <1>12, <1>13

WithDescriptor(my_file) ==
  [fd \in DOMAIN mp \cup {created_file_descriptors} |->
     IF fd = created_file_descriptors THEN my_file ELSE mp[fd]]

LEMMA OpenStep ==
  ASSUME IInv, NEW n \in known, NEW mode \in Modes, my_open(n, mode)
  PROVE  /\ IInv' /\ DiskStep
         /\ \/ exit
            \/ /\ Outcome(n, RecordOf(n))
               /\ known' = known /\ alive' = alive
               /\ \E my_file : /\ my_file.inode_number = n
                               /\ ~undefined' => /\ my_file.file_size = RecordOf(n).size
                                                 /\ RecordOf(n).links > 0
                               /\ mp' = WithDescriptor(my_file)
<1>1. NoteRead(n) /\ undefined' \in BOOLEAN
  BY DEF my_open, NoteRead, IInv, TypeOK
<1>2. PICK inode \in InodeRead(disk, n) :
        \/ exit
        \/ /\ mp' = [fd \in DOMAIN mp \cup {created_file_descriptors} |->
                       IF fd = created_file_descriptors
                       THEN [inode_number |-> n, position |-> 0,
                             file_size |-> inode.file_size,
                             is_directory |-> inode.is_directory]
                       ELSE mp[fd]]
           /\ created_file_descriptors' = created_file_descriptors + 1
           /\ disk' = FlushInode(disk, inode)
           /\ known' = known /\ alive' = alive
           /\ inode.hard_link_count > 0
  BY DEF my_open
<1>3. n \in InodeNumbers /\ Records(disk) /\ (undefined => undefined')
  BY <1>1, <1>2, NotedRead
<1>4. CASE exit
  <2>1. DiskStep
    BY <1>3, <1>4, IdleStep DEF exit
  <2> QED BY <1>1, <1>4, <2>1, DescriptorsKept DEF exit
<1>5. CASE /\ mp' = [fd \in DOMAIN mp \cup {created_file_descriptors} |->
                       IF fd = created_file_descriptors
                       THEN [inode_number |-> n, position |-> 0,
                             file_size |-> inode.file_size,
                             is_directory |-> inode.is_directory]
                       ELSE mp[fd]]
           /\ created_file_descriptors' = created_file_descriptors + 1
           /\ disk' = FlushInode(disk, inode)
           /\ known' = known /\ alive' = alive
           /\ inode.hard_link_count > 0
  <2>1. Handles(disk, disk', n, FileRecord(inode))
    BY <1>3, <1>5, HandledByRead
  <2>2. /\ DiskStep
        /\ Outcome(n, FileRecord(inode))
        /\ ~undefined' => FileRecord(inode) = RecordOf(n)
    BY <1>1, <1>5, <2>1, HandlerStep
  <2>3. PICK my_file : my_file = [inode_number |-> n, position |-> 0,
                                  file_size |-> inode.file_size,
                                  is_directory |-> inode.is_directory]
    OBVIOUS
  <2>4. my_file \in MyFile /\ (~undefined' => Measured(my_file))
    <3>1. inode.file_size \in Int /\ inode.is_directory \in BOOLEAN /\ n \in Nat
      BY <1>3, ReadInode, InodeNumberType DEF BlockGroupINode
    <3>2. ASSUME ~undefined'
          PROVE  inode.file_size \in 0 .. SizeLimit
      <4>1. ~undefined /\ inode = inode_at(disk, n)
        BY <1>1, <1>2, <3>2, NotedRead
      <4> QED BY <4>1 DEF IInv, Files
    <3> QED BY <2>3, <3>1, <3>2, SizeLimitType DEF MyFile, Measured
  <2>5. \A fd \in DOMAIN mp' :
          \/ mp'[fd] = my_file
          \/ fd \in DOMAIN mp /\ mp'[fd] = mp[fd]
    BY <1>5, <2>3
  <2>6. DOMAIN mp' \subseteq 0 .. created_file_descriptors' - 1
        /\ created_file_descriptors' \in Nat
    BY <1>5 DEF IInv, TypeOK
  <2>7. \A fd \in DOMAIN mp' : /\ mp'[fd] \in MyFile
                               /\ ~undefined' => Measured(mp'[fd])
                               /\ mp'[fd].inode_number \in known
    BY <1>3, <2>3, <2>4, <2>5 DEF IInv, TypeOK, Measured
  <2>8. known' \subseteq Nat
    BY <1>5 DEF IInv, TypeOK
  <2>9. TypeOK'
    BY <1>1, <1>5, <2>2, <2>6, <2>7, <2>8 DEF IInv, TypeOK, DiskStep, Measured
  <2>10. IInv'
    BY <1>5, <2>2, <2>7, <2>9 DEF IInv, DiskStep
  <2>11. Outcome(n, RecordOf(n)) /\ (~undefined' => RecordOf(n).links > 0)
    <3>1. FileRecord(inode).links > 0
      BY <1>5 DEF FileRecord
    <3> QED BY <2>2, <3>1, SameOutcome
  <2>12. mp' = WithDescriptor(my_file)
    BY <1>5, <2>3 DEF WithDescriptor
  <2>13. ~undefined' => my_file.file_size = RecordOf(n).size
    BY <2>2, <2>3 DEF FileRecord
  <2>14. my_file.inode_number = n
    BY <2>3
  <2> QED BY <1>5, <2>2, <2>10, <2>11, <2>12, <2>13, <2>14
<1> QED BY <1>2, <1>4, <1>5

(* No new descriptors, and those there are belong to the same files.       *)
LEMMA DescriptorsChanged ==
  ASSUME IInv, DiskStep, created_file_descriptors' = created_file_descriptors,
         DOMAIN mp' \subseteq DOMAIN mp,
         \A fd \in DOMAIN mp' : /\ mp'[fd] \in MyFile
                                /\ ~undefined' => Measured(mp'[fd])
                                /\ mp'[fd].inode_number = mp[fd].inode_number,
         alive' \in BOOLEAN, undefined' \in BOOLEAN
  PROVE  IInv'
<1>1. TypeOK'
  <2>1. known' \subseteq Nat
    BY InodeNumberType DEF DiskStep
  <2> QED BY <2>1 DEF IInv, DiskStep, TypeOK, Measured
<1> QED BY <1>1 DEF IInv, DiskStep

(* A descriptor with another position or size.                             *)
LEMMA MovedDescriptor ==
  ASSUME IInv, undefined => undefined',
         NEW fd \in DOMAIN mp, NEW my_file, mp' = [mp EXCEPT ![fd] = my_file],
         my_file \in MyFile, ~undefined' => Measured(my_file),
         my_file.inode_number = mp[fd].inode_number
  PROVE  /\ DOMAIN mp' = DOMAIN mp
         /\ \A other \in DOMAIN mp' :
              /\ mp'[other] \in MyFile
              /\ ~undefined' => Measured(mp'[other])
              /\ mp'[other].inode_number = mp[other].inode_number
  BY DEF IInv, TypeOK, Measured

LEMMA ExitStep ==
  ASSUME IInv, exit, undefined => undefined', undefined' \in BOOLEAN
  PROVE  IInv' /\ DiskStep
<1>1. DiskStep
  BY IdleStep DEF exit
<1> QED BY <1>1, DescriptorsKept DEF exit

LEMMA CloseStep ==
  ASSUME IInv, NEW fd, my_close(fd)
  PROVE  IInv' /\ DiskStep
<1>1. DiskStep
  BY IdleStep DEF my_close
<1>2. /\ DOMAIN mp' = DOMAIN mp \ {fd}
      /\ \A other \in DOMAIN mp' : mp'[other] = mp[other]
  BY DEF my_close
<1>3. /\ alive' \in BOOLEAN /\ undefined' \in BOOLEAN
      /\ created_file_descriptors' = created_file_descriptors
      /\ undefined' = undefined
  BY DEF my_close, IInv, TypeOK
<1>4. \A other \in DOMAIN mp' : /\ mp'[other] \in MyFile
                                /\ ~undefined' => Measured(mp'[other])
                                /\ mp'[other].inode_number = mp[other].inode_number
  BY <1>2, <1>3 DEF IInv, TypeOK, Measured
<1> QED BY <1>1, <1>2, <1>3, <1>4, DescriptorsChanged

LEMMA BadDescriptorStep ==
  ASSUME IInv, NEW fd, BadDescriptor(fd)
  PROVE  IInv' /\ DiskStep
  BY ExitStep DEF BadDescriptor, IInv, TypeOK

LEMMA SeekStep ==
  ASSUME IInv, NEW fd, NEW position \in Positions, my_file_system_seek(fd, position)
  PROVE  IInv' /\ DiskStep
<1>1. CASE exit
  BY <1>1, ExitStep DEF my_file_system_seek, IInv, TypeOK
<1>2. CASE /\ mp[fd].file_size >= position
           /\ mp' = [mp EXCEPT ![fd].position = position]
           /\ UNCHANGED <<disk, created_file_descriptors, known, alive, undefined>>
  <2>1. DiskStep
    BY <1>2, IdleStep
  <2>2. PICK my_file : my_file = [mp[fd] EXCEPT !.position = position]
    OBVIOUS
  <2>3. fd \in DOMAIN mp /\ mp[fd] \in MyFile
    BY DEF my_file_system_seek, IInv, TypeOK
  <2>4. /\ my_file \in MyFile
        /\ ~undefined' => Measured(my_file)
        /\ my_file.inode_number = mp[fd].inode_number
    <3>1. position \in Int
      BY Ex2Assumption
    <3>2. /\ my_file \in MyFile
          /\ my_file.position = position
          /\ my_file.file_size = mp[fd].file_size
          /\ my_file.inode_number = mp[fd].inode_number
      BY <2>2, <2>3, <3>1 DEF MyFile
    <3>3. ~undefined => mp[fd].file_size \in 0 .. SizeLimit
      BY <2>3 DEF IInv, TypeOK
    <3> QED BY <1>2, <2>3, <3>1, <3>2, <3>3 DEF Measured, MyFile
  <2>5. mp' = [mp EXCEPT ![fd] = my_file]
    BY <1>2, <2>2
  <2>6. alive' \in BOOLEAN /\ undefined' \in BOOLEAN
    BY <1>2 DEF IInv, TypeOK
  <2> QED BY <1>2, <2>1, <2>3, <2>4, <2>5, <2>6, MovedDescriptor, DescriptorsChanged
<1> QED BY <1>1, <1>2 DEF my_file_system_seek

LEMMA ReadStep ==
  ASSUME IInv, NEW fd, NEW size \in 1 .. SizeLimit, my_file_system_read(fd, size)
  PROVE  /\ IInv' /\ DiskStep
         /\ \/ exit
            \/ /\ Outcome(mp[fd].inode_number, RecordOf(mp[fd].inode_number))
               /\ \/ mp' = mp
                  \/ mp' = [mp EXCEPT ![fd].position = @ + size]
               /\ UNCHANGED <<created_file_descriptors, known, alive>>
<1>1. PICK n : n = mp[fd].inode_number
  OBVIOUS
<1>2. fd \in DOMAIN mp /\ mp[fd] \in MyFile /\ n \in known /\ NoteRead(n)
  BY <1>1 DEF my_file_system_read, IInv, TypeOK
<1>3. PICK inode \in InodeRead(disk, n) :
        \/ exit
        \/ /\ disk' = FlushInode(disk, inode)
           /\ mp' = mp \/ mp' = [mp EXCEPT ![fd].position = @ + size]
           /\ UNCHANGED <<created_file_descriptors, known, alive>>
  BY <1>1 DEF my_file_system_read, OutOfModel
<1>4. n \in InodeNumbers /\ Records(disk) /\ (undefined => undefined')
  BY <1>2, <1>3, NotedRead
<1>5. undefined' \in BOOLEAN
  BY <1>2 DEF NoteRead, IInv, TypeOK
<1>6. CASE exit
  BY <1>4, <1>5, <1>6, ExitStep
<1>7. CASE /\ disk' = FlushInode(disk, inode)
           /\ mp' = mp \/ mp' = [mp EXCEPT ![fd].position = @ + size]
           /\ UNCHANGED <<created_file_descriptors, known, alive>>
  <2>1. DiskStep /\ Outcome(n, RecordOf(n))
    <3>1. Handles(disk, disk', n, FileRecord(inode))
      BY <1>4, <1>7, HandledByRead
    <3> QED BY <1>2, <1>7, <3>1, HandlerStep, SameOutcome
  <2>2. alive' \in BOOLEAN
    BY <1>7 DEF IInv, TypeOK
  <2>3. CASE mp' = mp
    BY <1>1, <1>5, <1>7, <2>1, <2>2, <2>3, DescriptorsKept
  <2>4. CASE mp' = [mp EXCEPT ![fd].position = @ + size]
    <3>1. PICK my_file : my_file = [mp[fd] EXCEPT !.position = @ + size]
      OBVIOUS
    <3>2. mp[fd].position + size <= mp[fd].file_size
      BY DEF my_file_system_read
    <3>3. my_file \in MyFile /\ (~undefined' => Measured(my_file))
          /\ my_file.inode_number = mp[fd].inode_number
      <4>1. PICK position \in Int : position = mp[fd].position + size
        BY <1>2 DEF MyFile
      <4>2. /\ my_file \in MyFile
            /\ my_file.position = position
            /\ my_file.file_size = mp[fd].file_size
            /\ my_file.inode_number = mp[fd].inode_number
        BY <1>2, <3>1, <4>1 DEF MyFile
      <4>3. ~undefined => mp[fd].file_size \in 0 .. SizeLimit
        BY <1>2 DEF IInv, TypeOK
      <4> QED BY <1>4, <3>2, <4>1, <4>2, <4>3 DEF Measured
    <3>4. mp' = [mp EXCEPT ![fd] = my_file]
      BY <2>4, <3>1
    <3> QED BY <1>1, <1>2, <1>4, <1>5, <1>7, <2>1, <2>2, <3>3, <3>4, MovedDescriptor,
               DescriptorsChanged
  <2> QED BY <1>7, <2>3, <2>4
<1> QED BY <1>3, <1>6, <1>7

LEMMA WriteStep ==
  ASSUME IInv, NEW fd, NEW payload \in Payloads, my_file_system_write(fd, payload)
  PROVE  /\ IInv' /\ DiskStep
         /\ \/ exit
            \/ /\ Outcome(mp[fd].inode_number, RecordOf(mp[fd].inode_number))
               /\ mp' = mp
               /\ UNCHANGED <<created_file_descriptors, known, alive>>
            \/ \E size \in 0 .. SizeLimit :
                 /\ mp[fd].file_size < size
                 /\ Outcome(mp[fd].inode_number,
                            [RecordOf(mp[fd].inode_number) EXCEPT !.size = size])
                 /\ ~undefined' => RecordOf(mp[fd].inode_number).links > 0
                 /\ mp' = [mp EXCEPT ![fd].file_size = size]
                 /\ UNCHANGED <<created_file_descriptors, known, alive>>
<1>1. PICK n, size : n = mp[fd].inode_number /\ size = mp[fd].file_size + Len(payload)
  OBVIOUS
<1>2. fd \in DOMAIN mp /\ mp[fd] \in MyFile /\ n \in known
  BY <1>1 DEF my_file_system_write, IInv, TypeOK
<1>3. payload \in Seq(Cell) /\ Len(payload) \in Nat /\ Len(payload) >= 1
  BY Ex2Assumption
<1>4. CASE exit /\ UNCHANGED undefined
  BY <1>4, ExitStep DEF IInv, TypeOK
<1>5. CASE NoteRead(n) /\ exit
  <2>1. undefined' \in BOOLEAN /\ (undefined => undefined')
    BY <1>5 DEF NoteRead, IInv, TypeOK
  <2> QED BY <1>5, <2>1, ExitStep
<1>6. CASE /\ size \in 0 .. SizeLimit
           /\ NoteRead(n)
           /\ \E inode \in InodeRead(disk, n) :
                \/ /\ disk' = FlushInode(disk, inode)
                   /\ UNCHANGED mp
                \/ /\ Writes(inode, IndicesWritten(mp[fd], payload))
                   /\ LET t == Transfer(disk, inode, mp[fd], payload)
                      IN  disk' = FlushInode(t.disk, t.inode)
                   /\ mp' = [mp EXCEPT ![fd].file_size = @ + Len(payload)]
                   /\ inode.hard_link_count > 0
           /\ UNCHANGED <<created_file_descriptors, known, alive>>
  <2>1. PICK inode \in InodeRead(disk, n) :
          \/ /\ disk' = FlushInode(disk, inode)
             /\ UNCHANGED mp
          \/ /\ Writes(inode, IndicesWritten(mp[fd], payload))
             /\ LET t == Transfer(disk, inode, mp[fd], payload)
                IN  disk' = FlushInode(t.disk, t.inode)
             /\ mp' = [mp EXCEPT ![fd].file_size = @ + Len(payload)]
             /\ inode.hard_link_count > 0
    BY <1>6
  <2>2. n \in InodeNumbers /\ Records(disk) /\ (undefined => undefined')
    BY <1>2, <1>6, <2>1, NotedRead
  <2>3. alive' \in BOOLEAN /\ undefined' \in BOOLEAN
    BY <1>6 DEF NoteRead, IInv, TypeOK
  <2>4. CASE disk' = FlushInode(disk, inode) /\ UNCHANGED mp
    <3>1. Handles(disk, disk', n, FileRecord(inode))
      BY <2>2, <2>4, HandledByRead
    <3>2. DiskStep /\ Outcome(n, RecordOf(n))
      BY <1>2, <1>6, <3>1, HandlerStep, SameOutcome
    <3> QED BY <1>1, <1>6, <2>3, <2>4, <3>2, DescriptorsKept
  <2>5. CASE /\ Writes(inode, IndicesWritten(mp[fd], payload))
             /\ LET t == Transfer(disk, inode, mp[fd], payload)
                IN  disk' = FlushInode(t.disk, t.inode)
             /\ mp' = [mp EXCEPT ![fd].file_size = @ + Len(payload)]
             /\ inode.hard_link_count > 0
    <3>1. PICK t : t = Transfer(disk, inode, mp[fd], payload)
      OBVIOUS
    <3>2. disk' = FlushInode(t.disk, t.inode)
      BY <2>5, <3>1
    <3>3. Handles(disk, disk', n, [FileRecord(inode) EXCEPT !.size = size])
      <4>1. ClearOver(inode, IndicesWritten(mp[fd], payload)) /\ size \in 0 .. SizeLimit
        BY <1>6, <2>5, WritesClear
      <4> QED BY <1>1, <1>2, <1>3, <2>2, <3>1, <3>2, <4>1, HandledByWrite
    <3>4. /\ DiskStep
          /\ Outcome(n, [RecordOf(n) EXCEPT !.size = size])
          /\ ~undefined' => RecordOf(n).links > 0
      <4>1. /\ DiskStep
            /\ Outcome(n, [FileRecord(inode) EXCEPT !.size = size])
            /\ ~undefined' => FileRecord(inode) = RecordOf(n)
        BY <1>2, <1>6, <3>3, HandlerStep
      <4>2. FileRecord(inode).links > 0
        BY <2>5 DEF FileRecord
      <4> QED BY <4>1, <4>2, SameOutcome
    <3>5. PICK my_file : my_file = [mp[fd] EXCEPT !.file_size = size]
      OBVIOUS
    <3>6. size \in Int /\ mp[fd].file_size < size
      BY <1>1, <1>2, <1>3 DEF MyFile
    <3>7. /\ my_file \in MyFile
          /\ ~undefined' => Measured(my_file)
          /\ my_file.inode_number = mp[fd].inode_number
      <4>1. /\ my_file \in MyFile
            /\ my_file.position = mp[fd].position
            /\ my_file.file_size = size
            /\ my_file.inode_number = mp[fd].inode_number
            /\ mp[fd].position \in Int /\ mp[fd].file_size \in Int
        BY <1>2, <3>5, <3>6 DEF MyFile
      <4>2. ~undefined => mp[fd].position <= mp[fd].file_size
        BY <1>2 DEF IInv, TypeOK
      <4> QED BY <1>6, <2>2, <3>6, <4>1, <4>2 DEF Measured
    <3>8. mp' = [mp EXCEPT ![fd] = my_file]
      BY <1>1, <2>5, <3>5
    <3>9. IInv'
      BY <1>2, <1>6, <2>2, <2>3, <3>4, <3>7, <3>8, MovedDescriptor, DescriptorsChanged
    <3>10. mp' = [mp EXCEPT ![fd].file_size = size]
      BY <1>1, <2>5
    <3> QED BY <1>1, <1>6, <3>4, <3>6, <3>9, <3>10
  <2> QED BY <2>1, <2>4, <2>5
<1>7. CASE \/ exit /\ UNCHANGED undefined
           \/ NoteRead(n) /\ exit
  BY <1>4, <1>5, <1>7
<1> QED BY <1>1, <1>6, <1>7 DEF my_file_system_write, OutOfModel

LEMMA WriteAtStep ==
  ASSUME IInv, NEW fd, NEW payload \in AtPayloads, NEW start_position \in Offsets,
         my_file_system_write_at(fd, start_position, payload)
  PROVE  /\ IInv' /\ DiskStep
         /\ \/ exit
            \/ /\ Outcome(mp[fd].inode_number, RecordOf(mp[fd].inode_number))
               /\ UNCHANGED <<mp, created_file_descriptors, known, alive>>
<1>1. PICK n, to : n = mp[fd].inode_number /\ to = start_position + Len(payload)
  OBVIOUS
<1>2. PICK first, last : /\ first = start_position \div BLOCKS_PER_INODE
                         /\ last = (to - 1) \div BLOCKS_PER_INODE
  OBVIOUS
<1>3. n \in known /\ NoteRead(n)
  BY <1>1, <1>2 DEF my_file_system_write_at, IInv, TypeOK
<1>4. undefined' \in BOOLEAN /\ (undefined => undefined')
  BY <1>3 DEF NoteRead, IInv, TypeOK
<1>5. payload \in Seq(Cell) /\ start_position \in Int /\ to \in Int
  BY <1>1, Ex2Assumption, BlockGroupAssumption DEF Offsets
<1>6. CASE exit
  BY <1>4, <1>6, ExitStep
<1>7. ASSUME NEW inode \in InodeRead(disk, n),
             Writes(inode, IndicesTouched(first, last)),
             LET t0 == [disk |-> disk, used |-> 0, inode |-> inode]
                 t1 == WriteBlock(t0, n, first, start_position, BLOCK_SIZE, payload)
                 t2 == WriteWholeBlocks(t1, n, first + 1, last - 1, payload)
                 t  == IF first = last
                       THEN WriteBlock(t0, n, first, start_position, to, payload)
                       ELSE WriteBlock(t2, n, last, 0, to % BLOCK_SIZE, payload)
             IN  disk' = FlushInode(t.disk, t.inode),
             UNCHANGED <<mp, created_file_descriptors, known, alive>>
      PROVE  IInv' /\ DiskStep /\ Outcome(n, RecordOf(n))
  <2>1. n \in InodeNumbers /\ Records(disk)
    BY <1>3, <1>7, NotedRead
  <2>2. PICK t0 : t0 = [disk |-> disk, used |-> 0, inode |-> inode]
    OBVIOUS
  <2>3. PICK t1 : t1 = WriteBlock(t0, n, first, start_position, BLOCK_SIZE, payload)
    OBVIOUS
  <2>4. PICK t2 : t2 = WriteWholeBlocks(t1, n, first + 1, last - 1, payload)
    OBVIOUS
  <2>5. PICK t : t = IF first = last
                     THEN WriteBlock(t0, n, first, start_position, to, payload)
                     ELSE WriteBlock(t2, n, last, 0, to % BLOCK_SIZE, payload)
    OBVIOUS
  <2>6. disk' = FlushInode(t.disk, t.inode)
    BY <1>7, <2>2, <2>3, <2>4, <2>5
  <2>7. Handles(disk, disk', n, FileRecord(inode))
    BY <1>5, <1>7, <2>1, <2>2, <2>3, <2>4, <2>5, <2>6, HandledByWriteAt
  <2>8. DiskStep /\ Outcome(n, RecordOf(n))
    BY <1>3, <1>7, <2>7, HandlerStep, SameOutcome
  <2>9. alive' \in BOOLEAN
    BY <1>7 DEF IInv, TypeOK
  <2> QED BY <1>4, <1>7, <2>8, <2>9, DescriptorsKept
<1> QED BY <1>1, <1>2, <1>6, <1>7 DEF my_file_system_write_at, OutOfModel

LEMMA DeleteStep ==
  ASSUME IInv, NEW n \in known, delete_file(n)
  PROVE  /\ IInv' /\ DiskStep
         /\ Outcome(n, [RecordOf(n) EXCEPT !.links = LinksLeft(RecordOf(n).links)])
         /\ UNCHANGED <<mp, created_file_descriptors, known, alive>>
<1>1. PICK inode \in InodeRead(disk, n) : disk' = DeletedDisk(disk, n, inode)
  BY DEF delete_file
<1>2. /\ NoteRead(n)
      /\ UNCHANGED <<mp, created_file_descriptors, known, alive>>
      /\ alive' \in BOOLEAN /\ undefined' \in BOOLEAN
  BY DEF delete_file, NoteRead, IInv, TypeOK
<1>3. n \in InodeNumbers /\ Records(disk)
  BY <1>1, <1>2, NotedRead
<1>4. /\ DiskStep
      /\ Outcome(n, [RecordOf(n) EXCEPT !.links = LinksLeft(RecordOf(n).links)])
  <2>1. Handles(disk, disk', n,
                [FileRecord(inode) EXCEPT !.links = LinksLeft(inode.hard_link_count)])
    BY <1>1, <1>3, HandledByDelete
  <2>2. FileRecord(inode).links = inode.hard_link_count
    BY DEF FileRecord
  <2> QED BY <1>2, <2>1, <2>2, HandlerStep, SameOutcome
<1> QED BY <1>2, <1>4, DescriptorsKept

LEMMA RenameStep ==
  ASSUME IInv, NEW n \in known, rename_file(n)
  PROVE  IInv' /\ DiskStep
<1>1. /\ undefined' = TRUE
      /\ UNCHANGED <<mp, created_file_descriptors, known, alive>>
      /\ alive' \in BOOLEAN
  BY DEF rename_file, IInv, TypeOK
<1>2. Records(disk')
  <2>1. PICK inode \in JunkInodes : disk' = FlushInode(write_inode_info(disk, n, inode), inode)
    BY DEF rename_file
  <2>2. n \in InodeNumbers /\ Records(disk)
    BY DEF IInv
  <2> QED BY <2>1, <2>2, RenamedRecords
<1>3. DiskStep
  BY <1>1, <1>2 DEF DiskStep, Kept, IInv, Records, Sound
<1> QED BY <1>1, <1>3, DescriptorsKept

LEMMA LinkStep ==
  ASSUME IInv, NEW n \in known, increment_hard_link_count(n)
  PROVE  /\ IInv' /\ DiskStep
         /\ Outcome(n, [RecordOf(n) EXCEPT !.links = RecordOf(n).links + 1])
         /\ UNCHANGED <<mp, created_file_descriptors, known, alive>>
<1>1. PICK inode \in InodeRead(disk, n) : disk' = LinkedDisk(disk, n, inode)
  BY DEF increment_hard_link_count
<1>2. /\ NoteRead(n)
      /\ UNCHANGED <<mp, created_file_descriptors, known, alive>>
      /\ alive' \in BOOLEAN /\ undefined' \in BOOLEAN
  BY DEF increment_hard_link_count, NoteRead, IInv, TypeOK
<1>3. n \in InodeNumbers /\ Records(disk)
  BY <1>1, <1>2, NotedRead
<1>4. /\ DiskStep
      /\ Outcome(n, [RecordOf(n) EXCEPT !.links = RecordOf(n).links + 1])
  <2>1. Handles(disk, disk', n, [FileRecord(inode) EXCEPT !.links = inode.hard_link_count + 1])
    BY <1>1, <1>3, HandledByLink
  <2>2. FileRecord(inode).links = inode.hard_link_count
    BY DEF FileRecord
  <2> QED BY <1>2, <2>1, <2>2, HandlerStep, SameOutcome
<1> QED BY <1>2, <1>4, DescriptorsKept

-----------------------------------------------------------------------------

(* The formatted disk holds no file yet.                                   *)
LEMMA FormattedFiles ==
  /\ Records(FormattedDisk)
  /\ Files(FormattedDisk, {})
  /\ GroupsWithInodes(FormattedDisk) # {}
<1>1. PICK d : d = FormattedDisk
  OBVIOUS
<1>2. /\ Sound(d)
      /\ \A g \in Groups : descriptor(d, g) = FreshDescriptor(g)
      /\ InodeBitsOf(d) = [g \in Groups |-> {}]
  BY <1>1, FormattedSound
<1>3. \A b \in Blocks : d[b].kind = "inode" =>
        \E i \in FormattedInodes : SlotOf(i) = b /\ d[b] = FreshInode(i)
  BY <1>1, FormattedSound DEF SlotOf
<1>4. ASSUME NEW i \in FormattedInodes
      PROVE  /\ i \in InodeNumbers
             /\ FreshInode(i).uid = i
             /\ Unused(FreshInode(i))
             /\ HasPlace(FreshInode(i))
  <2>1. i \in InodeNumbers
    BY UidAssumption
  <2>2. /\ FreshInode(i).uid = i
        /\ FreshInode(i).hard_link_count = 0
        /\ FreshInode(i).blocks = [k \in BlockIndex |-> 0]
    BY DEF FreshInode
  <2> QED BY <2>1, <2>2 DEF Unused, HasPlace
<1>5. Records(d)
  BY <1>2, <1>3, <1>4 DEF Records
<1>6. Files(d, {})
  <2>1. MarkedAreKnown(d, {})
    BY <1>2 DEF MarkedAreKnown
  <2>2. \A n \in InodeNumbers : InodeReadable(d, n) => Unused(inode_at(d, n))
    BY <1>3, <1>4, <1>5, ReadablePlace
  <2>3. InodesAtHome(d)
    BY <1>3, <1>4 DEF InodesAtHome
  <2> QED BY <2>1, <2>2, <2>3 DEF Files, NoneShared
<1>7. GroupsWithInodes(d) # {}
  <2>1. 0 \in Groups
    BY LayoutNumbers DEF Groups
  <2>2. 0 \in Nat /\ get_starting_block_group_descriptor(0) < OFFSET_SPAN
    <3>1. get_starting_block_group_descriptor(0) \in Blocks
      BY <2>1, HomesApart
    <3> QED BY <3>1, LayoutNumbers DEF Blocks
  <2>3. read_block_descriptor(d, 0) = descriptor(d, 0)
    BY <1>2, <2>1, <2>2, ReadDescriptor
  <2>4. read_block_descriptor(d, 0).free_inodes_count # 0
    BY <1>2, <2>1, <2>3, LayoutNumbers DEF FreshDescriptor
  <2> QED BY <2>1, <2>4 DEF GroupsWithInodes
<1> QED BY <1>1, <1>5, <1>6, <1>7

LEMMA InitIInv == Init => IInv
<1> SUFFICES ASSUME Init PROVE IInv
  OBVIOUS
<1>1. PICK root : root = VacantInode(FormattedDisk).ret
  OBVIOUS
<1>2. PICK inode \in InodeRead(FormattedDisk, root) :
        disk = CreatedDisk(FormattedDisk, inode, Permissions, TRUE)
  BY <1>1 DEF Init
<1>3. known = {root} /\ mp = << >> /\ created_file_descriptors = 0 /\ alive = TRUE
      /\ undefined = ~InodeReadable(FormattedDisk, root)
  BY <1>1 DEF Init
<1>4. /\ root \in InodeNumbers
      /\ Creates(FormattedDisk, disk, root, set_vacant_inode(inode, Permissions, TRUE))
  BY <1>1, <1>2, FormattedFiles, CreateFile
<1>5. Records(disk) /\ (~undefined => Files(disk, known))
  <2>1. known = {} \cup {root}
    BY <1>3
  <2> QED BY <1>3, <1>4, <2>1, FormattedFiles DEF Creates
<1>6. DOMAIN mp = {}
  BY <1>3
<1>7. TypeOK
  BY <1>3, <1>4, <1>5, <1>6, InodeNumberType DEF TypeOK, Records, Sound
<1> QED BY <1>3, <1>4, <1>5, <1>6, <1>7 DEF IInv

(* Every step keeps the invariant and, at most, works on one file.         *)
LEMMA NextStep ==
  ASSUME IInv, Next
  PROVE  IInv' /\ DiskStep
<1>1. CASE \E mode \in Modes, is_directory \in Kinds : create_file(mode, is_directory)
  BY <1>1, CreateStep
<1>2. CASE \E n \in known : \E mode \in Modes : my_open(n, mode)
  BY <1>2, OpenStep
<1>3. CASE \E n \in known : delete_file(n)
  BY <1>3, DeleteStep
<1>4. CASE \E n \in known : rename_file(n)
  BY <1>4, RenameStep
<1>5. CASE \E n \in known : increment_hard_link_count(n)
  BY <1>5, LinkStep
<1>6. CASE \E fd \in 0 .. created_file_descriptors : my_close(fd) \/ BadDescriptor(fd)
  BY <1>6, CloseStep, BadDescriptorStep
<1>7. CASE \E fd \in 0 .. created_file_descriptors :
             \E position \in Positions : my_file_system_seek(fd, position)
  BY <1>7, SeekStep
<1>8. CASE \E fd \in 0 .. created_file_descriptors :
             \E size \in 1 .. SizeLimit : my_file_system_read(fd, size)
  BY <1>8, ReadStep
<1>9. CASE \E fd \in 0 .. created_file_descriptors :
             \E payload \in Payloads : my_file_system_write(fd, payload)
  BY <1>9, WriteStep
<1>10. CASE \E fd \in 0 .. created_file_descriptors :
              \E payload \in AtPayloads, start_position \in Offsets :
                my_file_system_write_at(fd, start_position, payload)
  BY <1>10, WriteAtStep
<1> QED BY <1>1, <1>2, <1>3, <1>4, <1>5, <1>6, <1>7, <1>8, <1>9, <1>10 DEF Next

LEMMA Stutter ==
  ASSUME IInv, UNCHANGED vars
  PROVE  IInv' /\ DiskStep
<1>1. DiskStep
  BY IdleStep DEF vars
<1>2. alive' \in BOOLEAN /\ undefined' \in BOOLEAN
  BY DEF vars, IInv, TypeOK
<1> QED BY <1>1, <1>2, DescriptorsKept DEF vars

(* The inductive invariant: types, records that have a place, and as long  *)
(* as nothing uninitialized has been used, a disk of files.                *)
THEOREM FileSystemInvariant == Spec => []IInv
<1>1. Init => IInv
  BY InitIInv
<1>2. IInv /\ [Next]_vars => IInv'
  BY NextStep, Stutter
<1> QED BY <1>1, <1>2, PTL DEF Spec

(* What TLC checks on small disks, for every layout, any number of files   *)
(* and descriptors, all payloads, all positions, negative ones included,   *)
(* and any inode in uninitialized memory: the state stays well formed, and *)
(* until such an inode is used sizes keep the limit and positions keep to  *)
(* the sizes.                                                              *)
THEOREM FileSystemTypes == Spec => []TypeOK
<1>1. IInv => TypeOK
  BY DEF IInv
<1> QED BY <1>1, FileSystemInvariant, PTL

(* Descriptors and bitmaps stay at home, whatever uid, counts and size an  *)
(* uninitialized inode has, wherever its destructor sends it: only data    *)
(* written through the block list of such an inode can reach them, and     *)
(* there the process counts as gone.                                       *)
THEOREM MetadataStaysHome == Spec => []MetadataHome
<1>1. IInv => MetadataHome
  BY DEF IInv, Records, Sound, MetadataHome
<1> QED BY <1>1, FileSystemInvariant, PTL

(* An inode is on the disk under the number its callers know.              *)
THEOREM InodesStayHome == Spec => []InodesNameThemselves
<1>1. IInv => InodesNameThemselves
  <2> SUFFICES ASSUME IInv, ~undefined, NEW n \in known
               PROVE  InodeReadable(disk, n) /\ inode_at(disk, n).uid = n
    BY DEF InodesNameThemselves
  <2>1. /\ Records(disk) /\ Files(disk, known)
        /\ known \in SUBSET InodeNumbers
    BY DEF IInv
  <2> QED BY <2>1, ReadFile
<1> QED BY <1>1, FileSystemInvariant, PTL

(* No data block has two owners.                                           *)
THEOREM NoBlockIsShared == Spec => []NoSharedDataBlock
<1>1. IInv => NoSharedDataBlock
  <2> SUFFICES ASSUME IInv, ~undefined
               PROVE  \A m, n \in known : \A j, k \in BlockIndex :
                        LET b == inode_at(disk, m).blocks[j]
                        IN  /\ \/ b \in OwnBlocks \cup {0, -1}
                               \/ \E g \in Groups :
                                    b = ExhaustedBlock(g) /\ DataMapFull(disk, g)
                            /\ (b \in OwnBlocks /\ b = inode_at(disk, n).blocks[k])
                                 => m = n /\ j = k
    BY DEF NoSharedDataBlock
  <2>1. Records(disk) /\ Files(disk, known) /\ known \subseteq InodeNumbers
    BY DEF IInv
  <2>2. ASSUME NEW m \in known, NEW j \in BlockIndex, NEW b, b = inode_at(disk, m).blocks[j]
        PROVE  \/ b \in OwnBlocks \cup {0, -1}
               \/ \E g \in Groups : b = ExhaustedBlock(g) /\ DataMapFull(disk, g)
    <3>1. b \in DataBlockNumbers \cup {0, -1}
      BY <2>1, <2>2 DEF Files
    <3>2. Holdable(disk, b)
      BY <2>1, <2>2 DEF Files
    <3>3. CASE b \in DataBlockNumbers
      <4>1. PICK g \in Groups, bit \in -1 .. DATA_BLOCKS_PER_GROUP - 1 :
              b = DataBlock(g, bit)
        BY <3>3 DEF DataBlockNumbers
      <4>2. CASE bit = -1
        BY <3>2, <4>1, <4>2 DEF Holdable, ExhaustedBlock
      <4>3. CASE bit # -1
        <5>1. bit \in DataBits
          BY <4>3, LayoutNumbers DEF DataBits
        <5> QED BY <4>1, <5>1, OwnBlockPlace
      <4> QED BY <4>2, <4>3
    <3> QED BY <3>1, <3>3
  <2>3. ASSUME NEW m \in known, NEW n \in known, NEW j \in BlockIndex, NEW k \in BlockIndex,
               inode_at(disk, m).blocks[j] \in OwnBlocks,
               inode_at(disk, m).blocks[j] = inode_at(disk, n).blocks[k]
        PROVE  m = n /\ j = k
    BY <2>1, <2>3 DEF Files, NoneShared
  <2> QED BY <2>2, <2>3
<1> QED BY <1>1, FileSystemInvariant, PTL

(* What a file holds is marked.                                            *)
THEOREM HeldStaysMarked == Spec => []HeldIsMarked
<1>1. IInv => HeldIsMarked
  <2> SUFFICES ASSUME IInv, ~undefined, NEW n \in known, NEW g \in Groups
               PROVE  /\ \A bit \in InodeBits :
                           n = InodeNumber(g, bit) => bit \in inode_bitmap(disk, g).bits
                      /\ \A bit \in DataBits, k \in BlockIndex :
                           inode_at(disk, n).blocks[k] = DataBlock(g, bit)
                             => bit \in block_bitmap(disk, g).bits
    BY DEF HeldIsMarked
  <2>1. /\ KnownIsMarked(disk, n)
        /\ \A k \in BlockIndex : Holdable(disk, inode_at(disk, n).blocks[k])
    BY DEF IInv, Files
  <2>2. /\ InodeBitsOf(disk)[g] = inode_bitmap(disk, g).bits
        /\ DataBitsOf(disk)[g] = block_bitmap(disk, g).bits
    BY DEF InodeBitsOf, DataBitsOf
  <2> QED BY <2>1, <2>2 DEF KnownIsMarked, Holdable
<1> QED BY <1>1, FileSystemInvariant, PTL

(* A step works on one file: it leaves the records of all others alone,    *)
(* and all data but what is in blocks that this file names afterwards.     *)
THEOREM OneFileChanges == Spec => OneFileAtATime
<1> DEFINE OneFile ==
      ~undefined' =>
        \E n \in known' :
          /\ \A m \in known \ {n} : inode_at(disk', m) = inode_at(disk, m)
          /\ \A b \in DataBlockNumbers :
               disk'[b] # disk[b] =>
                 \E k \in BlockIndex : inode_at(disk', n).blocks[k] = b
<1>1. DiskStep => OneFile
  BY DEF DiskStep, Kept, OthersKept
<1>2. IInv /\ [Next]_vars => [OneFile]_vars
  BY <1>1, NextStep
<1>3. Spec => [][OneFile]_vars
  BY <1>2, FileSystemInvariant, PTL DEF Spec
<1> QED BY <1>3 DEF OneFileAtATime

-----------------------------------------------------------------------------
(***************************************************************************)
(* What callers that open no file twice can rely on, for every layout and  *)
(* any number of files: the size a descriptor caches is the size of its    *)
(* file, and EX2FILESYSTEM implements FileStore.                           *)
(***************************************************************************)

(* No file is open twice, and the inductive invariant that needs.          *)
OpenOnce ==
  \A fd, other \in DOMAIN mp : mp[fd].inode_number = mp[other].inode_number => fd = other

CInv == IInv /\ OpenOnce /\ CachedSizeIsCurrent

(* The size a step leaves to a file.                                       *)
LEMMA SizeAfter ==
  ASSUME NEW n, NEW record, Outcome(n, record), ~undefined', NEW m \in known,
         m = n => record.size = RecordOf(n).size
  PROVE  ~undefined /\ inode_at(disk', m).file_size = inode_at(disk, m).file_size
<1>1. /\ ~undefined
      /\ m # n => inode_at(disk', m) = inode_at(disk, m)
      /\ FileRecord(inode_at(disk', n)) = record
  BY DEF Outcome, OthersKept
<1>2. CASE m = n
  BY <1>1, <1>2 DEF RecordOf, FileRecord
<1>3. CASE m # n
  BY <1>1, <1>3
<1> QED BY <1>1, <1>2, <1>3

(* Descriptors that keep their file and size, over files that keep theirs, *)
(* but for inodes of full bitmaps.                                         *)
LEMMA SizesKept ==
  ASSUME CInv, NEW n, NEW record, Outcome(n, record),
         \/ record.size = RecordOf(n).size
         \/ n \in known => n \in { ExhaustedInode(g) : g \in Groups },
         \A fd \in DOMAIN mp' : /\ fd \in DOMAIN mp
                                /\ mp'[fd].inode_number = mp[fd].inode_number
                                /\ mp'[fd].file_size = mp[fd].file_size
  PROVE  OpenOnce' /\ CachedSizeIsCurrent'
<1>1. OpenOnce'
  BY DEF CInv, OpenOnce
<1>2. ASSUME ~undefined', NEW fd \in DOMAIN mp', NEW m, m = mp'[fd].inode_number,
             m \notin { ExhaustedInode(g) : g \in Groups }
      PROVE  mp'[fd].file_size = inode_at(disk', m).file_size
  <2>1. m = mp[fd].inode_number /\ m \in known /\ fd \in DOMAIN mp
    BY <1>2 DEF CInv, IInv
  <2>2. ~undefined /\ inode_at(disk', m).file_size = inode_at(disk, m).file_size
    BY <1>2, <2>1, SizeAfter
  <2>3. mp[fd].file_size = inode_at(disk, m).file_size
    BY <1>2, <2>1, <2>2 DEF CInv, CachedSizeIsCurrent
  <2> QED BY <1>2, <2>1, <2>2, <2>3
<1>3. CachedSizeIsCurrent'
  BY <1>2 DEF CachedSizeIsCurrent
<1> QED BY <1>1, <1>3

(* A disk that stays gives every file the outcome it has already.          *)
LEMMA IdleOutcome ==
  ASSUME disk' = disk, undefined => undefined', NEW n
  PROVE  Outcome(n, RecordOf(n))
  BY DEF Outcome, RecordOf, OthersKept

LEMMA ExitSizes ==
  ASSUME CInv, exit, undefined => undefined'
  PROVE  OpenOnce' /\ CachedSizeIsCurrent'
<1>1. Outcome(0, RecordOf(0))
  BY IdleOutcome DEF exit
<1> QED BY <1>1, SizesKept DEF exit

(* The write of a descriptor that is the only one of its file.             *)
LEMMA GrownSize ==
  ASSUME CInv, NEW fd \in DOMAIN mp, NEW n, n = mp[fd].inode_number, NEW size,
         Outcome(n, [RecordOf(n) EXCEPT !.size = size]),
         mp' = [mp EXCEPT ![fd].file_size = size]
  PROVE  OpenOnce' /\ CachedSizeIsCurrent'
<1>1. /\ DOMAIN mp' = DOMAIN mp
      /\ \A other \in DOMAIN mp : mp'[other].inode_number = mp[other].inode_number
      /\ \A other \in DOMAIN mp \ {fd} : mp'[other] = mp[other]
      /\ mp'[fd].file_size = size
  <2>1. mp[fd] \in MyFile
    BY DEF CInv, IInv, TypeOK
  <2> QED BY <2>1 DEF MyFile
<1>2. OpenOnce'
  BY <1>1 DEF CInv, OpenOnce
<1>3. ASSUME ~undefined', NEW other \in DOMAIN mp', NEW m, m = mp'[other].inode_number,
             m \notin { ExhaustedInode(g) : g \in Groups }
      PROVE  mp'[other].file_size = inode_at(disk', m).file_size
  <2>1. m = mp[other].inode_number /\ m \in known /\ other \in DOMAIN mp
    BY <1>1, <1>3 DEF CInv, IInv
  <2>2. CASE other = fd
    <3>1. FileRecord(inode_at(disk', n)) = [RecordOf(n) EXCEPT !.size = size]
      BY <1>3 DEF Outcome
    <3>2. inode_at(disk', n).file_size = size
      BY <3>1 DEF FileRecord, RecordOf
    <3> QED BY <1>1, <2>1, <2>2, <3>2
  <2>3. CASE other # fd
    <3>1. m # n
      BY <2>1, <2>3 DEF CInv, OpenOnce
    <3>2. ~undefined /\ inode_at(disk', m).file_size = inode_at(disk, m).file_size
      BY <1>3, <2>1, <3>1, SizeAfter
    <3>3. mp[other].file_size = inode_at(disk, m).file_size
      BY <1>3, <2>1, <3>2 DEF CInv, CachedSizeIsCurrent
    <3> QED BY <1>1, <2>1, <2>3, <3>2, <3>3
  <2> QED BY <2>2, <2>3
<1>4. CachedSizeIsCurrent'
  BY <1>3 DEF CachedSizeIsCurrent
<1> QED BY <1>2, <1>4

(* A new descriptor takes the size from the inode.                         *)
LEMMA OpenedSize ==
  ASSUME CInv, NEW n \in known, Outcome(n, RecordOf(n)),
         \A fd \in DOMAIN mp : mp[fd].inode_number # n,
         NEW my_file, my_file.inode_number = n,
         ~undefined' => my_file.file_size = RecordOf(n).size,
         mp' = WithDescriptor(my_file)
  PROVE  OpenOnce' /\ CachedSizeIsCurrent'
<1>1. /\ created_file_descriptors \notin DOMAIN mp
      /\ DOMAIN mp' = DOMAIN mp \cup {created_file_descriptors}
      /\ mp'[created_file_descriptors] = my_file
      /\ \A fd \in DOMAIN mp : mp'[fd] = mp[fd]
  <2>1. created_file_descriptors \notin DOMAIN mp
    BY DEF CInv, IInv, TypeOK
  <2> QED BY <2>1 DEF WithDescriptor
<1>2. OpenOnce'
  BY <1>1 DEF CInv, OpenOnce
<1>3. ASSUME ~undefined', NEW fd \in DOMAIN mp', NEW m, m = mp'[fd].inode_number,
             m \notin { ExhaustedInode(g) : g \in Groups }
      PROVE  mp'[fd].file_size = inode_at(disk', m).file_size
  <2>1. m \in known
    BY <1>1, <1>3 DEF CInv, IInv
  <2>2. ~undefined /\ inode_at(disk', m).file_size = inode_at(disk, m).file_size
    BY <1>3, <2>1, SizeAfter
  <2>3. CASE fd = created_file_descriptors
    BY <1>1, <1>3, <2>2, <2>3 DEF RecordOf, FileRecord
  <2>4. CASE fd \in DOMAIN mp
    BY <1>1, <1>3, <2>2, <2>4 DEF CInv, CachedSizeIsCurrent
  <2> QED BY <1>1, <2>3, <2>4
<1>4. CachedSizeIsCurrent'
  BY <1>3 DEF CachedSizeIsCurrent
<1> QED BY <1>2, <1>4

(* No step leaves a cached size behind.                                    *)
LEMMA SizesStep ==
  ASSUME ExclusiveOpen, CInv, Next
  PROVE  OpenOnce' /\ CachedSizeIsCurrent'
<1>1. IInv
  BY DEF CInv
<1>2. ASSUME NEW n, Outcome(n, RecordOf(n)), mp' = mp
      PROVE  OpenOnce' /\ CachedSizeIsCurrent'
  BY <1>2, SizesKept
<1>3. CASE \E mode \in Modes, is_directory \in Kinds : create_file(mode, is_directory)
  <2>1. PICK mode \in Modes, is_directory \in Kinds : create_file(mode, is_directory)
    BY <1>3
  <2>2. PICK n : n = VacantInode(disk).ret
    OBVIOUS
  <2>3. PICK record : record = [links |-> RecordOf(n).links + 1, size |-> 0,
                                mode |-> mode, is_directory |-> is_directory]
    OBVIOUS
  <2>4. /\ Outcome(n, record)
        /\ ~undefined' /\ n \in known => n = ExhaustedInode(FirstGroup(disk))
    BY <1>1, <2>1, <2>2, <2>3, CreateStep
  <2>5. FirstGroup(disk) \in Groups
    BY <2>1, FirstGroupCounts DEF create_file
  <2>6. mp' = mp
    BY <2>1 DEF create_file
  <2>7. CASE ~undefined'
    BY <2>4, <2>5, <2>6, <2>7, SizesKept
  <2>8. CASE undefined'
    BY <2>6, <2>8 DEF CInv, OpenOnce, CachedSizeIsCurrent
  <2> QED BY <2>7, <2>8
<1>4. CASE \E n \in known : \E mode \in Modes : my_open(n, mode)
  <2>1. PICK n \in known, mode \in Modes : my_open(n, mode)
    BY <1>4
  <2>2. CASE exit
    <3>1. undefined => undefined'
      BY <2>1 DEF my_open, NoteRead
    <3> QED BY <2>2, <3>1, ExitSizes
  <2>3. CASE /\ Outcome(n, RecordOf(n))
             /\ \E my_file : /\ my_file.inode_number = n
                             /\ ~undefined' => my_file.file_size = RecordOf(n).size
                             /\ mp' = WithDescriptor(my_file)
    <3>1. \A fd \in DOMAIN mp : mp[fd].inode_number # n
      BY <2>1 DEF my_open
    <3> QED BY <2>3, <3>1, OpenedSize
  <2> QED BY <1>1, <2>1, <2>2, <2>3, OpenStep
<1>5. CASE \E n \in known : delete_file(n)
  <2>1. PICK n \in known : delete_file(n)
    BY <1>5
  <2>2. PICK record : record = [RecordOf(n) EXCEPT !.links = LinksLeft(RecordOf(n).links)]
    OBVIOUS
  <2>3. record.size = RecordOf(n).size
    BY <2>2 DEF RecordOf, FileRecord
  <2>4. Outcome(n, record) /\ mp' = mp
    BY <1>1, <2>1, <2>2, DeleteStep
  <2> QED BY <2>3, <2>4, SizesKept
<1>6. CASE \E n \in known : rename_file(n)
  BY <1>6 DEF rename_file, CInv, OpenOnce, CachedSizeIsCurrent
<1>7. CASE \E n \in known : increment_hard_link_count(n)
  <2>1. PICK n \in known : increment_hard_link_count(n)
    BY <1>7
  <2>2. PICK record : record = [RecordOf(n) EXCEPT !.links = RecordOf(n).links + 1]
    OBVIOUS
  <2>3. record.size = RecordOf(n).size
    BY <2>2 DEF RecordOf, FileRecord
  <2>4. Outcome(n, record) /\ mp' = mp
    BY <1>1, <2>1, <2>2, LinkStep
  <2> QED BY <2>3, <2>4, SizesKept
<1>8. CASE \E fd \in 0 .. created_file_descriptors : my_close(fd)
  <2>1. PICK fd \in 0 .. created_file_descriptors : my_close(fd)
    BY <1>8
  <2>2. /\ disk' = disk /\ undefined' = undefined
        /\ \A other \in DOMAIN mp' : other \in DOMAIN mp /\ mp'[other] = mp[other]
    BY <2>1 DEF my_close
  <2>3. Outcome(0, RecordOf(0))
    BY <2>2, IdleOutcome
  <2> QED BY <2>2, <2>3, SizesKept
<1>9. CASE \E fd \in 0 .. created_file_descriptors : BadDescriptor(fd)
  BY <1>9, ExitSizes DEF BadDescriptor
<1>10. CASE \E fd \in 0 .. created_file_descriptors :
              \E position \in Positions : my_file_system_seek(fd, position)
  <2>1. PICK fd \in 0 .. created_file_descriptors, position \in Positions :
          my_file_system_seek(fd, position)
    BY <1>10
  <2>2. CASE exit
    BY <2>1, <2>2, ExitSizes DEF my_file_system_seek
  <2>3. CASE mp' = [mp EXCEPT ![fd].position = position] /\ disk' = disk
    <3>1. mp[fd] \in MyFile /\ fd \in DOMAIN mp /\ undefined' = undefined
      BY <1>1, <2>1 DEF my_file_system_seek, IInv, TypeOK
    <3>2. \A other \in DOMAIN mp' : /\ other \in DOMAIN mp
                                    /\ mp'[other].inode_number = mp[other].inode_number
                                    /\ mp'[other].file_size = mp[other].file_size
      BY <2>3, <3>1 DEF MyFile
    <3>3. Outcome(0, RecordOf(0))
      BY <2>3, <3>1, IdleOutcome
    <3> QED BY <3>2, <3>3, SizesKept
  <2> QED BY <2>1, <2>2, <2>3 DEF my_file_system_seek
<1>11. CASE \E fd \in 0 .. created_file_descriptors :
              \E size \in 1 .. SizeLimit : my_file_system_read(fd, size)
  <2>1. PICK fd \in 0 .. created_file_descriptors, size \in 1 .. SizeLimit :
          my_file_system_read(fd, size)
    BY <1>11
  <2>2. CASE exit
    <3>1. undefined => undefined'
      BY <2>1 DEF my_file_system_read, NoteRead
    <3> QED BY <2>2, <3>1, ExitSizes
  <2>3. CASE /\ Outcome(mp[fd].inode_number, RecordOf(mp[fd].inode_number))
             /\ mp' = mp \/ mp' = [mp EXCEPT ![fd].position = @ + size]
    <3>1. mp[fd] \in MyFile /\ fd \in DOMAIN mp
      BY <1>1, <2>1 DEF my_file_system_read, IInv, TypeOK
    <3>2. \A other \in DOMAIN mp' : /\ other \in DOMAIN mp
                                    /\ mp'[other].inode_number = mp[other].inode_number
                                    /\ mp'[other].file_size = mp[other].file_size
      BY <2>3, <3>1 DEF MyFile
    <3> QED BY <2>3, <3>2, SizesKept
  <2> QED BY <1>1, <2>1, <2>2, <2>3, ReadStep
<1>12. CASE \E fd \in 0 .. created_file_descriptors :
              \E payload \in Payloads : my_file_system_write(fd, payload)
  <2>1. PICK fd \in 0 .. created_file_descriptors, payload \in Payloads :
          my_file_system_write(fd, payload)
    BY <1>12
  <2>2. PICK n : n = mp[fd].inode_number
    OBVIOUS
  <2>3. CASE exit
    <3>1. undefined => undefined'
      BY <2>1 DEF my_file_system_write, NoteRead
    <3> QED BY <2>3, <3>1, ExitSizes
  <2>4. CASE Outcome(n, RecordOf(n)) /\ mp' = mp
    BY <1>2, <2>4
  <2>5. CASE \E size \in 0 .. SizeLimit :
               /\ Outcome(n, [RecordOf(n) EXCEPT !.size = size])
               /\ mp' = [mp EXCEPT ![fd].file_size = size]
    <3>1. fd \in DOMAIN mp
      BY <2>1 DEF my_file_system_write
    <3> QED BY <2>2, <2>5, <3>1, GrownSize
  <2> QED BY <1>1, <2>1, <2>2, <2>3, <2>4, <2>5, WriteStep
<1>13. CASE \E fd \in 0 .. created_file_descriptors :
              \E payload \in AtPayloads, start_position \in Offsets :
                my_file_system_write_at(fd, start_position, payload)
  <2>1. PICK fd \in 0 .. created_file_descriptors,
             payload \in AtPayloads, start_position \in Offsets :
          my_file_system_write_at(fd, start_position, payload)
    BY <1>13
  <2>2. CASE exit
    <3>1. undefined => undefined'
      BY <2>1 DEF my_file_system_write_at, NoteRead
    <3> QED BY <2>2, <3>1, ExitSizes
  <2> QED BY <1>1, <1>2, <2>1, <2>2, WriteAtStep
<1> QED BY <1>3, <1>4, <1>5, <1>6, <1>7, <1>8, <1>9, <1>10, <1>11, <1>12, <1>13 DEF Next

(* The size a descriptor caches is the size of its file: for callers that  *)
(* open no file twice, and as long as the file is not the one all further  *)
(* creations of a full group go to.                                        *)
THEOREM CachedSizesAreCurrent ==
  ASSUME ExclusiveOpen
  PROVE  Spec => []CachedSizeIsCurrent
<1>1. Init => CInv
  <2>1. Init => DOMAIN mp = {}
    BY DEF Init
  <2> QED BY <2>1, InitIInv DEF CInv, OpenOnce, CachedSizeIsCurrent
<1>2. CInv /\ [Next]_vars => CInv'
  <2> SUFFICES ASSUME CInv, [Next]_vars
               PROVE  CInv'
    OBVIOUS
  <2>1. CASE Next
    BY <2>1, NextStep, SizesStep DEF CInv
  <2>2. CASE UNCHANGED vars
    <3>1. IInv'
      BY <2>2, Stutter DEF CInv
    <3> QED BY <2>2, <3>1 DEF CInv, OpenOnce, CachedSizeIsCurrent, vars
  <2> QED BY <2>1, <2>2
<1>3. CInv => CachedSizeIsCurrent
  BY DEF CInv
<1> QED BY <1>1, <1>2, <1>3, PTL DEF Spec

-----------------------------------------------------------------------------

(* A step that gives its file the size it had leaves all sizes alone.      *)
LEMMA NoneShrinks ==
  ASSUME IInv, ~undefined', NEW n, NEW record, Outcome(n, record),
         record.size = RecordOf(n).size, NEW m \in known
  PROVE  ~(inode_at(disk', m).file_size < inode_at(disk, m).file_size)
<1>1. ~undefined /\ inode_at(disk', m).file_size = inode_at(disk, m).file_size
  BY SizeAfter
<1>2. inode_at(disk, m).file_size \in 0 .. SizeLimit /\ SizeLimit \in Nat
  BY <1>1, SizeLimitType DEF IInv, Files
<1> QED BY <1>1, <1>2

LEMMA ShrunkBy ==
  ASSUME IInv, Next, ~undefined', NEW m \in known,
         NEW new_size, new_size = inode_at(disk', m).file_size,
         new_size < inode_at(disk, m).file_size
  PROVE  \/ \E g \in Groups : m = ExhaustedInode(g)
         \/ \E fd \in DOMAIN mp :
              /\ mp[fd].inode_number = m
              /\ mp[fd].file_size < new_size
              /\ mp'[fd].file_size = new_size
<1>1. ASSUME NEW n, Outcome(n, RecordOf(n))
      PROVE  FALSE
  BY <1>1, NoneShrinks
<1>2. disk' # disk
  <2>1. undefined => undefined'
    BY NextStep DEF DiskStep, Kept
  <2> QED BY <1>1, <2>1, IdleOutcome
<1>3. CASE \E mode \in Modes, is_directory \in Kinds : create_file(mode, is_directory)
  <2>1. PICK mode \in Modes, is_directory \in Kinds : create_file(mode, is_directory)
    BY <1>3
  <2>2. PICK n : n = VacantInode(disk).ret
    OBVIOUS
  <2>3. PICK record : record = [links |-> RecordOf(n).links + 1, size |-> 0,
                                mode |-> mode, is_directory |-> is_directory]
    OBVIOUS
  <2>4. /\ Outcome(n, record)
        /\ n \in known => n = ExhaustedInode(FirstGroup(disk))
    BY <2>1, <2>2, <2>3, CreateStep
  <2>5. FirstGroup(disk) \in Groups
    BY <2>1, FirstGroupCounts DEF create_file
  <2>6. CASE m = n
    BY <2>4, <2>5, <2>6
  <2>7. CASE m # n
    <3>1. /\ ~undefined
          /\ inode_at(disk', m).file_size = inode_at(disk, m).file_size
      BY <2>4, <2>7, SizeAfter
    <3>2. inode_at(disk, m).file_size \in 0 .. SizeLimit /\ SizeLimit \in Nat
      BY <3>1, SizeLimitType DEF IInv, Files
    <3> QED BY <3>1, <3>2
  <2> QED BY <2>6, <2>7
<1>4. CASE \E n \in known : \E mode \in Modes : my_open(n, mode)
  BY <1>1, <1>2, <1>4, OpenStep DEF exit
<1>5. CASE \E n \in known : delete_file(n)
  <2>1. PICK n \in known : delete_file(n)
    BY <1>5
  <2>2. PICK record : record = [RecordOf(n) EXCEPT !.links = LinksLeft(RecordOf(n).links)]
    OBVIOUS
  <2>3. Outcome(n, record) /\ record.size = RecordOf(n).size
    BY <2>1, <2>2, DeleteStep DEF RecordOf, FileRecord
  <2> QED BY <2>3, NoneShrinks
<1>6. CASE \E n \in known : rename_file(n)
  BY <1>6 DEF rename_file
<1>7. CASE \E n \in known : increment_hard_link_count(n)
  <2>1. PICK n \in known : increment_hard_link_count(n)
    BY <1>7
  <2>2. PICK record : record = [RecordOf(n) EXCEPT !.links = RecordOf(n).links + 1]
    OBVIOUS
  <2>3. Outcome(n, record) /\ record.size = RecordOf(n).size
    BY <2>1, <2>2, LinkStep DEF RecordOf, FileRecord
  <2> QED BY <2>3, NoneShrinks
<1>8. CASE \E fd \in 0 .. created_file_descriptors :
              \/ my_close(fd) \/ BadDescriptor(fd)
              \/ \E position \in Positions : my_file_system_seek(fd, position)
  BY <1>2, <1>8 DEF my_close, BadDescriptor, my_file_system_seek, exit
<1>9. CASE \E fd \in 0 .. created_file_descriptors :
              \E size \in 1 .. SizeLimit : my_file_system_read(fd, size)
  BY <1>1, <1>2, <1>9, ReadStep DEF exit
<1>10. CASE \E fd \in 0 .. created_file_descriptors :
              \E payload \in Payloads : my_file_system_write(fd, payload)
  <2>1. PICK fd \in 0 .. created_file_descriptors, payload \in Payloads :
          my_file_system_write(fd, payload)
    BY <1>10
  <2>2. PICK n : n = mp[fd].inode_number
    OBVIOUS
  <2>3. PICK size \in 0 .. SizeLimit :
          /\ mp[fd].file_size < size
          /\ Outcome(n, [RecordOf(n) EXCEPT !.size = size])
          /\ mp' = [mp EXCEPT ![fd].file_size = size]
    BY <1>1, <1>2, <2>1, <2>2, WriteStep DEF exit
  <2>4. fd \in DOMAIN mp /\ mp[fd] \in MyFile
    BY <2>1 DEF my_file_system_write, IInv, TypeOK
  <2>5. mp'[fd].file_size = size
    BY <2>3, <2>4 DEF MyFile
  <2>6. CASE m = n
    <3>1. FileRecord(inode_at(disk', n)) = [RecordOf(n) EXCEPT !.size = size]
      BY <2>3 DEF Outcome
    <3>2. inode_at(disk', n).file_size = size
      BY <3>1 DEF FileRecord, RecordOf
    <3> QED BY <2>2, <2>3, <2>4, <2>5, <2>6, <3>2
  <2>7. CASE m # n
    <3>1. /\ ~undefined
          /\ inode_at(disk', m).file_size = inode_at(disk, m).file_size
      BY <2>3, <2>7, SizeAfter
    <3>2. inode_at(disk, m).file_size \in 0 .. SizeLimit /\ SizeLimit \in Nat
      BY <3>1, SizeLimitType DEF IInv, Files
    <3> QED BY <3>1, <3>2
  <2> QED BY <2>6, <2>7
<1>11. CASE \E fd \in 0 .. created_file_descriptors :
              \E payload \in AtPayloads, start_position \in Offsets :
                my_file_system_write_at(fd, start_position, payload)
  BY <1>1, <1>2, <1>11, WriteAtStep DEF exit
<1> QED BY <1>3, <1>4, <1>5, <1>6, <1>7, <1>8, <1>9, <1>10, <1>11 DEF Next

(* With several descriptors of one file, or an overflow inode, files do    *)
(* lose bytes, but in no other way: for every layout, any number of files  *)
(* and descriptors, and any caller.                                        *)
THEOREM OnlyStaleWritesShrink == Spec => ShrinksOnlyWhenStale
<1> DEFINE Shrunk ==
      ~undefined' =>
        \A n \in known :
          LET old_size == inode_at(disk, n).file_size
              new_size == inode_at(disk', n).file_size
          IN  new_size < old_size =>
                \/ \E g \in Groups : n = ExhaustedInode(g)
                \/ \E fd \in DOMAIN mp :
                     /\ mp[fd].inode_number = n
                     /\ mp[fd].file_size < new_size
                     /\ mp'[fd].file_size = new_size
<1>1. IInv /\ [Next]_vars => [Shrunk]_vars
  BY ShrunkBy
<1>2. Spec => [][Shrunk]_vars
  BY <1>1, FileSystemInvariant, PTL DEF Spec
<1> QED BY <1>2 DEF ShrinksOnlyWhenStale

-----------------------------------------------------------------------------

(* What refines the files and the open files of FileStore.                 *)
KnownFiles == [n \in known |-> RecordOf(n)]
OpenNumbers == { mp[fd].inode_number : fd \in DOMAIN mp }

(* No group has given out more inodes than it has, and what was read was   *)
(* written before.                                                         *)
SInv ==
  /\ CInv
  /\ ~undefined
  /\ known \cap { ExhaustedInode(g) : g \in Groups } = {}
  /\ IsFiniteSet(known)
  /\ Cardinality(known) <= NUM_INODES_PER_GROUP

(* A group whose inodes are all known and one more takes too many numbers. *)
LEMMA FullGroupIsLarge ==
  ASSUME NEW g \in Groups, NEW S, IsFiniteSet(S), ExhaustedInode(g) \in S,
         \A bit \in InodeBits : InodeNumber(g, bit) \in S
  PROVE  Cardinality(S) >= NUM_INODES_PER_GROUP + 1
<1>1. PICK base : base = get_starting_block_group_descriptor(g) + RESERVED_OFFSET_GROUPS
  OBVIOUS
<1>2. base \in Nat /\ NUM_INODES_PER_GROUP \in Nat
  <2>1. 0 \in 0 .. GroupSize - 1
    BY LayoutNumbers
  <2> QED BY <1>1, <2>1, AreaOnDisk, LayoutNumbers
<1>3. PICK T : T = base - 1 .. base + NUM_INODES_PER_GROUP - 1
  OBVIOUS
<1>4. T \subseteq S
  <2> SUFFICES ASSUME NEW x \in T PROVE x \in S
    OBVIOUS
  <2>1. x - base \in -1 .. NUM_INODES_PER_GROUP - 1 /\ x = base + (x - base)
    BY <1>2, <1>3
  <2>2. x = InodeNumber(g, x - base)
    BY <1>1, <2>1 DEF InodeNumber
  <2>3. CASE x - base = -1
    BY <2>2, <2>3 DEF ExhaustedInode
  <2>4. CASE x - base # -1
    <3>1. x - base \in InodeBits
      BY <1>2, <2>1, <2>4 DEF InodeBits
    <3> QED BY <2>2, <3>1
  <2> QED BY <2>3, <2>4
<1>5. Cardinality(T) = NUM_INODES_PER_GROUP + 1
  <2>1. /\ base - 1 \in Int /\ base + NUM_INODES_PER_GROUP - 1 \in Int
        /\ ~ base - 1 > base + NUM_INODES_PER_GROUP - 1
        /\ (base + NUM_INODES_PER_GROUP - 1) - (base - 1) + 1 = NUM_INODES_PER_GROUP + 1
    BY <1>2
  <2> QED BY <1>3, <2>1, FS_Interval
<1>6. Cardinality(T) <= Cardinality(S) /\ Cardinality(S) \in Nat
  BY <1>4, FS_Subset, FS_CardinalityType
<1> QED BY <1>2, <1>5, <1>6

(* The number of a bit is not the number before those of any group.        *)
LEMMA FirstBitsApart ==
  ASSUME NEW g \in Groups, NEW bit \in InodeBits
  PROVE  InodeNumber(g, bit) \notin { ExhaustedInode(h) : h \in Groups }
<1>1. /\ bit \in -1 .. NUM_INODES_PER_GROUP - 1 /\ bit # -1
      /\ -1 \in -1 .. NUM_INODES_PER_GROUP - 1
  BY LayoutNumbers DEF InodeBits
<1>2. \A h \in Groups : InodeNumber(h, -1) # InodeNumber(g, bit)
  BY <1>1, InodeNumbersApart
<1> QED BY <1>2 DEF ExhaustedInode

(* The number of a new file is new, if the callers know no more numbers    *)
(* than a group has.                                                       *)
LEMMA CreatedIsNew ==
  ASSUME MaxFiles <= NUM_INODES_PER_GROUP, SInv,
         NEW permissions \in Modes, NEW is_directory \in Kinds,
         create_file(permissions, is_directory),
         NEW n, n = VacantInode(disk).ret, ~undefined'
  PROVE  /\ n \notin known
         /\ n \notin { ExhaustedInode(g) : g \in Groups }
         /\ known' = known \cup {n}
         /\ IsFiniteSet(known')
         /\ Cardinality(known') <= NUM_INODES_PER_GROUP
<1>1. PICK g, found : g = FirstGroup(disk) /\ found = VacantInode(disk)
  OBVIOUS
<1>2. IInv /\ GroupsWithInodes(disk) # {} /\ known' = known \cup {n}
      /\ Cardinality(known \cup {n}) <= MaxFiles
  BY DEF SInv, CInv, create_file
<1>3. g \in Groups
  BY <1>1, <1>2, FirstGroupCounts
<1>4. n \in known => n = ExhaustedInode(g)
  BY <1>1, <1>2, CreateStep
<1>5. n \notin known
  BY <1>3, <1>4 DEF SInv
<1>6. IsFiniteSet(known') /\ Cardinality(known') <= NUM_INODES_PER_GROUP
  <2>1. IsFiniteSet(known')
    BY <1>2, FS_AddElement DEF SInv
  <2>2. Cardinality(known') \in Nat /\ MaxFiles \in Nat /\ NUM_INODES_PER_GROUP \in Nat
    BY <2>1, FS_CardinalityType, Ex2Assumption, LayoutNumbers
  <2> QED BY <1>2, <2>1, <2>2
<1>7. ~ (InodeMapFull(disk, g) /\ n = ExhaustedInode(g))
  <2> SUFFICES ASSUME InodeMapFull(disk, g), n = ExhaustedInode(g)
               PROVE  FALSE
    OBVIOUS
  <2>1. MarkedAreKnown(disk, known)
    BY DEF SInv, CInv, IInv, Files
  <2>2. \A bit \in InodeBits : InodeNumber(g, bit) \in known'
    BY <1>2, <1>3, <2>1, FullInodeMap DEF MarkedAreKnown
  <2>3. ExhaustedInode(g) \in known'
    BY <1>2
  <2>4. Cardinality(known') >= NUM_INODES_PER_GROUP + 1
    BY <1>3, <1>6, <2>2, <2>3, FullGroupIsLarge
  <2>5. Cardinality(known') \in Nat /\ NUM_INODES_PER_GROUP \in Nat
    BY <1>6, FS_CardinalityType, LayoutNumbers
  <2> QED BY <1>6, <2>4, <2>5
<1>8. \E bit \in InodeBits : n = InodeNumber(g, bit)
  <2>1. Records(disk)
    BY <1>2 DEF IInv
  <2>2. n = found.ret
    BY <1>1
  <2>3. \/ /\ InodeMapFull(disk, g)
           /\ n = ExhaustedInode(g)
           /\ InodeBitsOf(found.disk) = InodeBitsOf(disk)
        \/ \E bit \in InodeBits \ InodeBitsOf(disk)[g] :
             /\ \A lower \in InodeBits : lower < bit => lower \in InodeBitsOf(disk)[g]
             /\ n = InodeNumber(g, bit)
             /\ InodeBitsOf(found.disk) = [InodeBitsOf(disk) EXCEPT ![g] = @ \cup {bit}]
    BY <1>1, <1>2, <2>1, <2>2, VacantFound
  <2> QED BY <1>7, <2>3
<1>9. n \notin { ExhaustedInode(h) : h \in Groups }
  BY <1>3, <1>8, FirstBitsApart
<1> QED BY <1>2, <1>5, <1>6, <1>9

(* Where uninitialized memory shows nothing, an inode that is used has     *)
(* been read.                                                              *)
LEMMA ReadIsReadable ==
  ASSUME JunkInodes = {}, NEW d, NEW n, InodeRead(d, n) # {}
  PROVE  InodeReadable(d, n)
  BY DEF InodeRead, read_inode_info

LEMMA StaysDefined ==
  ASSUME JunkInodes = {}, ~undefined, Next
  PROVE  ~undefined'
<1>1. ASSUME NEW n, NoteRead(n), InodeRead(disk, n) # {}
      PROVE  ~undefined'
  BY <1>1, ReadIsReadable DEF NoteRead
<1>2. CASE \E mode \in Modes, is_directory \in Kinds : create_file(mode, is_directory)
  BY <1>1, <1>2 DEF create_file
<1>3. CASE \E n \in known : \E mode \in Modes : my_open(n, mode)
  BY <1>1, <1>3 DEF my_open
<1>4. CASE \E n \in known : \/ delete_file(n)
                            \/ rename_file(n)
                            \/ increment_hard_link_count(n)
  BY <1>1, <1>4 DEF delete_file, rename_file, increment_hard_link_count
<1>5. CASE \E fd \in 0 .. created_file_descriptors : my_close(fd) \/ BadDescriptor(fd)
  BY <1>5 DEF my_close, BadDescriptor
<1>6. CASE \E fd \in 0 .. created_file_descriptors :
             \E position \in Positions : my_file_system_seek(fd, position)
  BY <1>6 DEF my_file_system_seek
<1>7. CASE \E fd \in 0 .. created_file_descriptors :
             \E size \in 1 .. SizeLimit : my_file_system_read(fd, size)
  BY <1>1, <1>7 DEF my_file_system_read
<1>8. CASE \E fd \in 0 .. created_file_descriptors :
             \E payload \in Payloads : my_file_system_write(fd, payload)
  BY <1>1, <1>8 DEF my_file_system_write
<1>9. CASE \E fd \in 0 .. created_file_descriptors :
             \E payload \in AtPayloads, start_position \in Offsets :
               my_file_system_write_at(fd, start_position, payload)
  BY <1>1, <1>9 DEF my_file_system_write_at
<1> QED BY <1>2, <1>3, <1>4, <1>5, <1>6, <1>7, <1>8, <1>9 DEF Next

(* What an outcome for one file makes of all that are known.               *)
LEMMA FilesAfter ==
  ASSUME ~undefined', NEW n, NEW record, Outcome(n, record), known' = known
  PROVE  KnownFiles' = [KnownFiles EXCEPT ![n] = record]
<1>1. \A m \in known \ {n} : RecordOf(m)' = RecordOf(m)
  BY DEF Outcome, OthersKept, RecordOf
<1>2. RecordOf(n)' = record
  BY DEF Outcome, RecordOf
<1> QED BY <1>1, <1>2 DEF KnownFiles

-----------------------------------------------------------------------------

(* Each handler, as a step of FileStore.                                   *)
LEMMA ExitRefines ==
  ASSUME alive, exit
  PROVE  Store!Next
<1>1. Store!Die
  BY DEF exit, Store!Die
<1> QED BY <1>1 DEF Store!Next

LEMMA IdleRefines ==
  ASSUME NEW n, Outcome(n, RecordOf(n)), ~undefined', known' = known, alive' = alive,
         OpenNumbers' = OpenNumbers
  PROVE  UNCHANGED Store!vars
<1>1. KnownFiles' = KnownFiles
  BY FilesAfter DEF KnownFiles
<1> QED BY <1>1 DEF Store!vars, KnownFiles, RecordOf, OpenNumbers

LEMMA LinkRefines ==
  ASSUME SInv, ~undefined', NEW n \in known, increment_hard_link_count(n)
  PROVE  Store!Next
<1>1. /\ Outcome(n, [RecordOf(n) EXCEPT !.links = RecordOf(n).links + 1])
      /\ UNCHANGED <<mp, created_file_descriptors, known, alive>>
  BY LinkStep DEF SInv, CInv
<1>2. KnownFiles' = [KnownFiles EXCEPT ![n] = [RecordOf(n) EXCEPT !.links = RecordOf(n).links + 1]]
  BY <1>1, FilesAfter
<1>3. KnownFiles[n] = RecordOf(n) /\ DOMAIN KnownFiles = known
  BY DEF KnownFiles
<1>4. KnownFiles' = [KnownFiles EXCEPT ![n].links = @ + 1]
  BY <1>2, <1>3
<1>5. Store!Link(n)
  BY <1>1, <1>4 DEF Store!Link, KnownFiles, RecordOf
<1>6. alive
  BY DEF increment_hard_link_count
<1> QED BY <1>5, <1>6 DEF Store!Next

LEMMA DeleteRefines ==
  ASSUME SInv, ~undefined', NEW n \in known, delete_file(n)
  PROVE  Store!Next \/ UNCHANGED Store!vars
<1>1. PICK links : links = RecordOf(n).links
  OBVIOUS
<1>2. /\ Outcome(n, [RecordOf(n) EXCEPT !.links = LinksLeft(links)])
      /\ UNCHANGED <<mp, created_file_descriptors, known, alive>>
  BY <1>1, DeleteStep DEF SInv, CInv
<1>3. links \in Nat
  <2>1. inode_at(disk, n) \in BlockGroupINode
    BY ReadablePlace DEF SInv, CInv, IInv, Files
  <2> QED BY <1>1, <2>1 DEF BlockGroupINode, RecordOf, FileRecord
<1>4. CASE links = 0
  <2>1. [RecordOf(n) EXCEPT !.links = LinksLeft(links)] = RecordOf(n)
    BY <1>1, <1>4 DEF LinksLeft, RecordOf, FileRecord
  <2>2. Outcome(n, RecordOf(n)) /\ OpenNumbers' = OpenNumbers
    BY <1>2, <2>1 DEF OpenNumbers
  <2> QED BY <1>2, <2>2, IdleRefines
<1>5. CASE links > 0
  <2>1. KnownFiles' = [KnownFiles EXCEPT ![n] = [RecordOf(n) EXCEPT !.links = links - 1]]
    BY <1>2, <1>3, <1>5, FilesAfter DEF LinksLeft
  <2>2. KnownFiles[n] = RecordOf(n) /\ DOMAIN KnownFiles = known
    BY DEF KnownFiles
  <2>3. KnownFiles' = [KnownFiles EXCEPT ![n].links = @ - 1] /\ KnownFiles[n].links > 0
    BY <1>1, <1>5, <2>1, <2>2
  <2>4. Store!Unlink(n)
    BY <1>2, <2>3 DEF Store!Unlink, KnownFiles, RecordOf
  <2>5. alive
    BY DEF delete_file
  <2> QED BY <2>4, <2>5 DEF Store!Next
<1> QED BY <1>3, <1>4, <1>5

LEMMA OpenRefines ==
  ASSUME SInv, ~undefined', NEW n \in known, NEW mode \in Modes, my_open(n, mode)
  PROVE  Store!Next
<1>1. alive
  BY DEF my_open
<1>2. CASE exit
  BY <1>1, <1>2, ExitRefines
<1>3. CASE /\ Outcome(n, RecordOf(n))
           /\ known' = known /\ alive' = alive
           /\ \E my_file : /\ my_file.inode_number = n
                           /\ ~undefined' => /\ my_file.file_size = RecordOf(n).size
                                             /\ RecordOf(n).links > 0
                           /\ mp' = WithDescriptor(my_file)
  <2>1. PICK my_file : /\ my_file.inode_number = n
                       /\ RecordOf(n).links > 0
                       /\ mp' = WithDescriptor(my_file)
    BY <1>3
  <2>2. KnownFiles' = KnownFiles /\ KnownFiles[n].links > 0
    <3>1. KnownFiles' = [KnownFiles EXCEPT ![n] = RecordOf(n)]
      BY <1>3, FilesAfter
    <3> QED BY <2>1, <3>1 DEF KnownFiles
  <2>3. created_file_descriptors \notin DOMAIN mp
    BY DEF SInv, CInv, IInv, TypeOK
  <2>4. /\ DOMAIN mp' = DOMAIN mp \cup {created_file_descriptors}
        /\ mp'[created_file_descriptors] = my_file
        /\ \A fd \in DOMAIN mp : mp'[fd] = mp[fd]
    BY <2>1, <2>3 DEF WithDescriptor
  <2>5. OpenNumbers' = OpenNumbers \cup {n}
    BY <2>1, <2>4 DEF OpenNumbers
  <2>6. Store!Open(n)
    BY <1>3, <2>2, <2>5 DEF Store!Open, KnownFiles, RecordOf, OpenNumbers
  <2> QED BY <1>1, <2>6 DEF Store!Next
<1> QED BY <1>2, <1>3, OpenStep DEF SInv, CInv

LEMMA CloseRefines ==
  ASSUME SInv, NEW fd, my_close(fd)
  PROVE  Store!Next
<1>1. PICK n : n = mp[fd].inode_number
  OBVIOUS
<1>2. fd \in DOMAIN mp /\ n \in known
  BY <1>1 DEF my_close, SInv, CInv, IInv
<1>3. /\ DOMAIN mp' = DOMAIN mp \ {fd}
      /\ \A other \in DOMAIN mp' : mp'[other] = mp[other]
  BY DEF my_close
<1>4. \A other \in DOMAIN mp \ {fd} : mp[other].inode_number # n
  BY <1>1, <1>2 DEF SInv, CInv, OpenOnce
<1>5. OpenNumbers' = OpenNumbers \ {n}
  BY <1>1, <1>3, <1>4 DEF OpenNumbers
<1>6. Store!Close(n)
  BY <1>5 DEF my_close, Store!Close, OpenNumbers
<1> QED BY <1>2, <1>6 DEF my_close, Store!Next

LEMMA WriteRefines ==
  ASSUME SInv, ~undefined', NEW fd, NEW payload \in Payloads,
         my_file_system_write(fd, payload)
  PROVE  Store!Next \/ UNCHANGED Store!vars
<1>1. PICK n : n = mp[fd].inode_number
  OBVIOUS
<1>2. alive /\ fd \in DOMAIN mp /\ n \in known /\ mp[fd] \in MyFile
  BY <1>1 DEF my_file_system_write, SInv, CInv, IInv, TypeOK
<1>3. CASE exit
  BY <1>2, <1>3, ExitRefines
<1>4. CASE /\ Outcome(n, RecordOf(n))
           /\ mp' = mp
           /\ UNCHANGED <<created_file_descriptors, known, alive>>
  <2>1. OpenNumbers' = OpenNumbers
    BY <1>4 DEF OpenNumbers
  <2> QED BY <1>4, <2>1, IdleRefines
<1>5. CASE \E size \in 0 .. SizeLimit :
             /\ mp[fd].file_size < size
             /\ Outcome(n, [RecordOf(n) EXCEPT !.size = size])
             /\ ~undefined' => RecordOf(n).links > 0
             /\ mp' = [mp EXCEPT ![fd].file_size = size]
             /\ UNCHANGED <<created_file_descriptors, known, alive>>
  <2>1. PICK size \in 0 .. SizeLimit :
          /\ mp[fd].file_size < size
          /\ Outcome(n, [RecordOf(n) EXCEPT !.size = size])
          /\ RecordOf(n).links > 0
          /\ mp' = [mp EXCEPT ![fd].file_size = size]
          /\ UNCHANGED <<created_file_descriptors, known, alive>>
    BY <1>5
  <2>2. mp[fd].file_size = RecordOf(n).size
    <3>1. n \notin { ExhaustedInode(g) : g \in Groups }
      BY <1>2 DEF SInv
    <3>2. ~undefined /\ CachedSizeIsCurrent
      BY DEF SInv, CInv
    <3> QED BY <1>1, <1>2, <3>1, <3>2 DEF CachedSizeIsCurrent, RecordOf, FileRecord
  <2>3. KnownFiles' = [KnownFiles EXCEPT ![n] = [RecordOf(n) EXCEPT !.size = size]]
    BY <2>1, FilesAfter
  <2>4. KnownFiles[n] = RecordOf(n) /\ DOMAIN KnownFiles = known
    BY <1>2 DEF KnownFiles
  <2>5. /\ size \in KnownFiles[n].size + 1 .. SizeLimit
        /\ KnownFiles' = [KnownFiles EXCEPT ![n].size = size]
        /\ KnownFiles[n].links > 0
    <3>1. mp[fd].file_size \in Int /\ SizeLimit \in Nat
      BY <1>2, SizeLimitType DEF MyFile
    <3>2. size \in mp[fd].file_size + 1 .. SizeLimit
      BY <2>1, <3>1
    <3> QED BY <2>1, <2>2, <2>3, <2>4, <3>2
  <2>6. /\ DOMAIN mp' = DOMAIN mp
        /\ \A other \in DOMAIN mp : mp'[other].inode_number = mp[other].inode_number
    BY <1>2, <2>1 DEF MyFile
  <2>7. OpenNumbers' = OpenNumbers /\ n \in OpenNumbers
    BY <1>1, <1>2, <2>6 DEF OpenNumbers
  <2>8. Store!Grow(n)
    BY <2>1, <2>5, <2>7 DEF Store!Grow, KnownFiles, RecordOf, OpenNumbers
  <2> QED BY <1>2, <2>8 DEF Store!Next
<1> QED BY <1>1, <1>3, <1>4, <1>5, WriteStep DEF SInv, CInv

LEMMA ReadRefines ==
  ASSUME SInv, ~undefined', NEW fd, NEW size \in 1 .. SizeLimit,
         my_file_system_read(fd, size)
  PROVE  Store!Next \/ UNCHANGED Store!vars
<1>1. PICK n : n = mp[fd].inode_number
  OBVIOUS
<1>2. alive /\ fd \in DOMAIN mp /\ mp[fd] \in MyFile
  BY DEF my_file_system_read, SInv, CInv, IInv, TypeOK
<1>3. CASE exit
  BY <1>2, <1>3, ExitRefines
<1>4. CASE /\ Outcome(n, RecordOf(n))
           /\ mp' = mp \/ mp' = [mp EXCEPT ![fd].position = @ + size]
           /\ UNCHANGED <<created_file_descriptors, known, alive>>
  <2>1. /\ DOMAIN mp' = DOMAIN mp
        /\ \A other \in DOMAIN mp : mp'[other].inode_number = mp[other].inode_number
    BY <1>2, <1>4 DEF MyFile
  <2>2. OpenNumbers' = OpenNumbers
    BY <2>1 DEF OpenNumbers
  <2> QED BY <1>4, <2>2, IdleRefines
<1> QED BY <1>1, <1>3, <1>4, ReadStep DEF SInv, CInv

LEMMA SeekRefines ==
  ASSUME SInv, ~undefined', NEW fd, NEW position, my_file_system_seek(fd, position)
  PROVE  Store!Next \/ UNCHANGED Store!vars
<1>1. alive /\ fd \in DOMAIN mp /\ mp[fd] \in MyFile
  BY DEF my_file_system_seek, SInv, CInv, IInv, TypeOK
<1>2. CASE exit
  BY <1>1, <1>2, ExitRefines
<1>3. CASE /\ mp' = [mp EXCEPT ![fd].position = position]
           /\ UNCHANGED <<disk, created_file_descriptors, known, alive>>
  <2>1. /\ DOMAIN mp' = DOMAIN mp
        /\ \A other \in DOMAIN mp : mp'[other].inode_number = mp[other].inode_number
    BY <1>1, <1>3 DEF MyFile
  <2>2. OpenNumbers' = OpenNumbers
    BY <2>1 DEF OpenNumbers
  <2>3. undefined => undefined'
    BY DEF SInv
  <2>4. Outcome(0, RecordOf(0))
    BY <1>3, <2>3, IdleOutcome
  <2> QED BY <1>3, <2>2, <2>4, IdleRefines
<1> QED BY <1>2, <1>3 DEF my_file_system_seek

LEMMA WriteAtRefines ==
  ASSUME SInv, ~undefined', NEW fd, NEW payload \in AtPayloads, NEW start_position \in Offsets,
         my_file_system_write_at(fd, start_position, payload)
  PROVE  Store!Next \/ UNCHANGED Store!vars
<1>1. CASE exit
  BY <1>1, ExitRefines DEF my_file_system_write_at
<1>2. CASE /\ Outcome(mp[fd].inode_number, RecordOf(mp[fd].inode_number))
           /\ UNCHANGED <<mp, created_file_descriptors, known, alive>>
  <2>1. OpenNumbers' = OpenNumbers
    BY <1>2 DEF OpenNumbers
  <2> QED BY <1>2, <2>1, IdleRefines
<1> QED BY <1>1, <1>2, WriteAtStep DEF SInv, CInv

LEMMA CreateRefines ==
  ASSUME MaxFiles <= NUM_INODES_PER_GROUP, SInv, ~undefined',
         NEW permissions \in Modes, NEW is_directory \in Kinds,
         create_file(permissions, is_directory)
  PROVE  Store!Next
<1>1. PICK n : n = VacantInode(disk).ret
  OBVIOUS
<1>2. /\ n \notin known
      /\ known' = known \cup {n}
  BY <1>1, CreatedIsNew
<1>3. /\ IInv' /\ InodeReadable(disk, n)
      /\ Outcome(n, [links |-> RecordOf(n).links + 1, size |-> 0,
                     mode |-> permissions, is_directory |-> is_directory])
  BY <1>1, CreateStep DEF SInv, CInv
<1>4. RecordOf(n).links = 0
  <2>1. n \in InodeNumbers \ known
    BY <1>2, <1>3 DEF IInv
  <2>2. Unused(inode_at(disk, n))
    BY <1>3, <2>1 DEF SInv, CInv, IInv, Files
  <2> QED BY <2>2 DEF Unused, RecordOf, FileRecord
<1>5. /\ \A m \in known : RecordOf(m)' = RecordOf(m)
      /\ RecordOf(n)' = [links |-> 1, size |-> 0,
                         mode |-> permissions, is_directory |-> is_directory]
  BY <1>2, <1>3, <1>4 DEF Outcome, OthersKept, RecordOf
<1>6. /\ DOMAIN KnownFiles = known /\ DOMAIN KnownFiles' = known'
      /\ \A m \in known : KnownFiles[m] = RecordOf(m)
      /\ \A m \in known' : KnownFiles'[m] = RecordOf(m)'
  BY DEF KnownFiles
<1>7. n \in DOMAIN KnownFiles' \ DOMAIN KnownFiles
  BY <1>2, <1>6
<1>8. KnownFiles' = [m \in DOMAIN KnownFiles \cup {n} |->
                       IF m = n
                       THEN Store!File(1, 0, KnownFiles'[n].mode, KnownFiles'[n].is_directory)
                       ELSE KnownFiles[m]]
  <2>1. KnownFiles' = [m \in known \cup {n} |-> RecordOf(m)']
    BY <1>2 DEF KnownFiles
  <2>2. RecordOf(n)' = Store!File(1, 0, KnownFiles'[n].mode, KnownFiles'[n].is_directory)
    BY <1>2, <1>5, <1>6 DEF Store!File
  <2> QED BY <1>5, <1>6, <2>1, <2>2
<1>9. UNCHANGED <<OpenNumbers, alive>> /\ alive
  BY DEF create_file, OpenNumbers
<1>10. Store!Create
  BY <1>7, <1>8, <1>9 DEF Store!Create, KnownFiles, RecordOf, OpenNumbers
<1> QED BY <1>9, <1>10 DEF Store!Next

(* The formatted disk with its root directory.                             *)
LEMMA RootIsFirst ==
  ASSUME JunkInodes = {}, Init
  PROVE  SInv /\ Store!Init
<1>1. PICK root : root = VacantInode(FormattedDisk).ret
  OBVIOUS
<1>2. PICK inode \in InodeRead(FormattedDisk, root) :
        disk = CreatedDisk(FormattedDisk, inode, Permissions, TRUE)
  BY <1>1 DEF Init
<1>3. /\ known = {root} /\ mp = << >> /\ alive = TRUE
      /\ undefined = ~InodeReadable(FormattedDisk, root)
  BY <1>1 DEF Init
<1>4. InodeReadable(FormattedDisk, root) /\ ~undefined
  BY <1>2, <1>3, ReadIsReadable
<1>5. PICK g : g = FirstGroup(FormattedDisk)
  OBVIOUS
<1>6. \E bit \in InodeBits : g \in Groups /\ root = InodeNumber(g, bit)
  <2>1. PICK found : found = VacantInode(FormattedDisk)
    OBVIOUS
  <2>2. /\ g \in Groups
        /\ \/ /\ InodeMapFull(FormattedDisk, g)
              /\ root = ExhaustedInode(g)
              /\ InodeBitsOf(found.disk) = InodeBitsOf(FormattedDisk)
           \/ \E bit \in InodeBits \ InodeBitsOf(FormattedDisk)[g] :
                /\ \A lower \in InodeBits : lower < bit => lower \in InodeBitsOf(FormattedDisk)[g]
                /\ root = InodeNumber(g, bit)
                /\ InodeBitsOf(found.disk)
                     = [InodeBitsOf(FormattedDisk) EXCEPT ![g] = @ \cup {bit}]
    <3>1. root = found.ret
      BY <1>1, <2>1
    <3> QED BY <1>5, <2>1, <3>1, FormattedFiles, VacantFound
  <2>3. ~ InodeMapFull(FormattedDisk, g)
    <3>1. 0 \in InodeBits
      BY LayoutNumbers DEF InodeBits
    <3>2. InodeBitsOf(FormattedDisk)[g] = {}
      BY <2>2, FormattedSound
    <3> QED BY <2>2, <3>1, <3>2, FullInodeMap
  <2> QED BY <2>2, <2>3
<1>7. SInv
  <2>1. CInv
    <3>1. DOMAIN mp = {}
      BY <1>3
    <3> QED BY <3>1, InitIInv DEF CInv, OpenOnce, CachedSizeIsCurrent
  <2>2. known \cap { ExhaustedInode(h) : h \in Groups } = {}
    BY <1>3, <1>6, FirstBitsApart
  <2>3. IsFiniteSet(known) /\ Cardinality(known) <= NUM_INODES_PER_GROUP
    <3>1. IsFiniteSet({root}) /\ Cardinality({root}) = 1
      BY FS_Singleton
    <3>2. NUM_INODES_PER_GROUP \in Nat \ {0}
      BY LayoutAssumption
    <3> QED BY <1>3, <3>1, <3>2
  <2> QED BY <1>4, <2>1, <2>2, <2>3 DEF SInv
<1>8. FileRecord(inode_at(disk, root)) = Store!File(1, 0, Permissions, TRUE)
  <2>1. inode = inode_at(FormattedDisk, root)
    BY <1>2, <1>4 DEF InodeRead, read_inode_info
  <2>2. /\ root \in InodeNumbers
        /\ inode_at(disk, root) = set_vacant_inode(inode, Permissions, TRUE)
    <3>1. /\ root \in InodeNumbers
          /\ Creates(FormattedDisk, disk, root, set_vacant_inode(inode, Permissions, TRUE))
      BY <1>1, <1>2, FormattedFiles, CreateFile
    <3>2. {root} = {} \cup {root}
      OBVIOUS
    <3> QED BY <1>4, <3>1, <3>2, FormattedFiles DEF Creates
  <2>3. Unused(inode) /\ inode \in BlockGroupINode
    BY <1>4, <2>1, <2>2, FormattedFiles, ReadablePlace DEF Files
  <2> QED BY <2>2, <2>3
          DEF set_vacant_inode, Unused, BlockGroupINode, FileRecord, Store!File
<1>9. Store!Init
  <2>1. [n \in known |-> FileRecord(inode_at(disk, n))]
          = [m \in {root} |-> Store!File(1, 0, Permissions, TRUE)]
    BY <1>3, <1>8
  <2>2. { mp[fd].inode_number : fd \in DOMAIN mp } = {}
    BY <1>3
  <2> QED BY <1>3, <2>1, <2>2 DEF Store!Init
<1> QED BY <1>7, <1>9

(* And every step.                                                         *)
LEMMA StepRefines ==
  ASSUME ExclusiveOpen, JunkInodes = {}, MaxFiles <= NUM_INODES_PER_GROUP, SInv, Next
  PROVE  SInv' /\ (Store!Next \/ UNCHANGED Store!vars)
<1>1. ~undefined'
  BY StaysDefined DEF SInv
<1>2. CInv'
  BY NextStep, SizesStep DEF SInv, CInv
<1>3. ASSUME known' = known
      PROVE  SInv'
  BY <1>1, <1>2, <1>3 DEF SInv
<1>4. CASE \E mode \in Modes, is_directory \in Kinds : create_file(mode, is_directory)
  <2>1. PICK mode \in Modes, is_directory \in Kinds : create_file(mode, is_directory)
    BY <1>4
  <2>2. PICK n : n = VacantInode(disk).ret
    OBVIOUS
  <2>3. /\ n \notin { ExhaustedInode(g) : g \in Groups }
        /\ known' = known \cup {n}
        /\ IsFiniteSet(known')
        /\ Cardinality(known') <= NUM_INODES_PER_GROUP
    BY <1>1, <2>1, <2>2, CreatedIsNew
  <2>4. SInv'
    BY <1>1, <1>2, <2>3 DEF SInv
  <2> QED BY <1>1, <2>1, <2>4, CreateRefines
<1>5. CASE \E n \in known : \E mode \in Modes : my_open(n, mode)
  <2>1. known' = known
    BY <1>5 DEF my_open, exit
  <2> QED BY <1>1, <1>3, <1>5, <2>1, OpenRefines
<1>6. CASE \E n \in known : delete_file(n)
  <2>1. known' = known
    BY <1>6 DEF delete_file
  <2> QED BY <1>1, <1>3, <1>6, <2>1, DeleteRefines
<1>7. CASE \E n \in known : rename_file(n)
  BY <1>1, <1>7 DEF rename_file
<1>8. CASE \E n \in known : increment_hard_link_count(n)
  <2>1. known' = known
    BY <1>8 DEF increment_hard_link_count
  <2> QED BY <1>1, <1>3, <1>8, <2>1, LinkRefines
<1>9. CASE \E fd \in 0 .. created_file_descriptors : my_close(fd)
  <2>1. known' = known
    BY <1>9 DEF my_close
  <2> QED BY <1>3, <1>9, <2>1, CloseRefines
<1>10. CASE \E fd \in 0 .. created_file_descriptors : BadDescriptor(fd)
  <2>1. known' = known
    BY <1>10 DEF BadDescriptor, exit
  <2> QED BY <1>3, <1>10, <2>1, ExitRefines DEF BadDescriptor
<1>11. CASE \E fd \in 0 .. created_file_descriptors :
              \E position \in Positions : my_file_system_seek(fd, position)
  <2>1. known' = known
    BY <1>11 DEF my_file_system_seek, exit
  <2> QED BY <1>1, <1>3, <1>11, <2>1, SeekRefines
<1>12. CASE \E fd \in 0 .. created_file_descriptors :
              \E size \in 1 .. SizeLimit : my_file_system_read(fd, size)
  <2>1. known' = known
    BY <1>12 DEF my_file_system_read, OutOfModel, exit
  <2> QED BY <1>1, <1>3, <1>12, <2>1, ReadRefines
<1>13. CASE \E fd \in 0 .. created_file_descriptors :
              \E payload \in Payloads : my_file_system_write(fd, payload)
  <2>1. known' = known
    BY <1>13 DEF my_file_system_write, OutOfModel, exit
  <2> QED BY <1>1, <1>3, <1>13, <2>1, WriteRefines
<1>14. CASE \E fd \in 0 .. created_file_descriptors :
              \E payload \in AtPayloads, start_position \in Offsets :
                my_file_system_write_at(fd, start_position, payload)
  <2>1. PICK fd \in 0 .. created_file_descriptors,
             payload \in AtPayloads, start_position \in Offsets :
          my_file_system_write_at(fd, start_position, payload)
    BY <1>14
  <2>2. known' = known
    BY <2>1 DEF my_file_system_write_at, OutOfModel, exit
  <2> QED BY <1>1, <1>3, <2>1, <2>2, WriteAtRefines
<1> QED BY <1>4, <1>5, <1>6, <1>7, <1>8, <1>9, <1>10, <1>11, <1>12, <1>13, <1>14 DEF Next

(* EX2FILESYSTEM is a store of files to callers that open no file twice    *)
(* and create no more files than a group has inodes, on a disk that holds  *)
(* the inodes it is asked for, so that no read shows uninitialized memory  *)
(* (rename_file, which always does, is left out).  Every number            *)
(* create_file returns is then new, and every call changes the one file it *)
(* is about, as FileStore says, or none.                                   *)
THEOREM FileSystemImplementsFileStore ==
  ASSUME ExclusiveOpen, JunkInodes = {}, MaxFiles <= NUM_INODES_PER_GROUP
  PROVE  Spec => ImplementsFileStore
<1>1. Init => SInv /\ Store!Init
  BY RootIsFirst
<1>2. SInv /\ [Next]_vars => SInv' /\ [Store!Next]_(Store!vars)
  <2> SUFFICES ASSUME SInv, [Next]_vars
               PROVE  SInv' /\ [Store!Next]_(Store!vars)
    OBVIOUS
  <2>1. CASE Next
    BY <2>1, StepRefines
  <2>2. CASE UNCHANGED vars
    <3>1. IInv'
      BY <2>2, Stutter DEF SInv, CInv
    <3>2. SInv'
      BY <2>2, <3>1 DEF SInv, CInv, OpenOnce, CachedSizeIsCurrent, vars
    <3>3. UNCHANGED Store!vars
      BY <2>2 DEF vars, Store!vars
    <3> QED BY <3>2, <3>3
  <2> QED BY <2>1, <2>2
<1> QED BY <1>1, <1>2, PTL DEF Spec, ImplementsFileStore, Store!Spec

-----------------------------------------------------------------------------

(* Every number in use is counted in the descriptor of a group.            *)
NumbersCounted == \A n \in known : n \div NUM_INODES_PER_GROUP \in Groups

DInv == IInv /\ (~undefined => NumbersCounted)

LEMMA NumbersStayCounted ==
  ASSUME DInv, Next
  PROVE  DInv' /\ DiskStep
<1>1. IInv' /\ DiskStep /\ (undefined => undefined')
  BY NextStep DEF DInv, DiskStep, Kept
<1>2. CASE \E mode \in Modes, is_directory \in Kinds : create_file(mode, is_directory)
  <2>1. PICK n : n = VacantInode(disk).ret
    OBVIOUS
  <2>2. /\ known' = known \cup {n}
        /\ ~undefined' => n \div NUM_INODES_PER_GROUP \in Groups
    BY <1>2, <2>1, CreateStep DEF DInv
  <2> QED BY <1>1, <2>2 DEF DInv, NumbersCounted
<1>3. CASE known' = known
  BY <1>1, <1>3 DEF DInv, NumbersCounted
<1>4. \/ \E mode \in Modes, is_directory \in Kinds : create_file(mode, is_directory)
      \/ known' = known
  <2>1. ASSUME NEW n \in known, NEW mode \in Modes, my_open(n, mode) PROVE known' = known
    BY <2>1 DEF my_open, exit
  <2>2. ASSUME NEW n \in known,
               delete_file(n) \/ rename_file(n) \/ increment_hard_link_count(n)
        PROVE  known' = known
    BY <2>2 DEF delete_file, rename_file, increment_hard_link_count
  <2>3. ASSUME NEW fd, my_close(fd) \/ BadDescriptor(fd) PROVE known' = known
    BY <2>3 DEF my_close, BadDescriptor, exit
  <2>4. ASSUME NEW fd, NEW position, my_file_system_seek(fd, position) PROVE known' = known
    BY <2>4 DEF my_file_system_seek, exit
  <2>5. ASSUME NEW fd, NEW size, my_file_system_read(fd, size) PROVE known' = known
    BY <2>5 DEF my_file_system_read, OutOfModel, exit
  <2>6. ASSUME NEW fd, NEW payload, my_file_system_write(fd, payload) PROVE known' = known
    BY <2>6 DEF my_file_system_write, OutOfModel, exit
  <2>7. ASSUME NEW fd, NEW payload, NEW start_position,
               my_file_system_write_at(fd, start_position, payload)
        PROVE  known' = known
    BY <2>7 DEF my_file_system_write_at, OutOfModel, exit
  <2> QED BY <2>1, <2>2, <2>3, <2>4, <2>5, <2>6, <2>7 DEF Next
<1> QED BY <1>2, <1>3, <1>4

LEMMA InitCounted ==
  ASSUME Init
  PROVE  DInv
<1> SUFFICES ASSUME ~undefined PROVE NumbersCounted
  BY InitIInv DEF DInv
<1>1. PICK root : root = VacantInode(FormattedDisk).ret
  OBVIOUS
<1>2. PICK inode \in InodeRead(FormattedDisk, root) :
        disk = CreatedDisk(FormattedDisk, inode, Permissions, TRUE)
  BY <1>1 DEF Init
<1>3. known = {root} /\ undefined = ~InodeReadable(FormattedDisk, root)
  BY <1>1 DEF Init
<1>4. InodeReadable(FormattedDisk, root)
  BY <1>3
<1>5. Creates(FormattedDisk, disk, root, set_vacant_inode(inode, Permissions, TRUE))
  BY <1>1, <1>2, FormattedFiles, CreateFile
<1>6. root \div NUM_INODES_PER_GROUP \in Groups
  <2>1. Files(FormattedDisk, {}) /\ known = {} \cup {root}
    BY <1>3, FormattedFiles
  <2> QED BY <1>4, <1>5, <2>1 DEF Creates
<1> QED BY <1>3, <1>6 DEF NumbersCounted

(* The last link of a file in a group that exists is taken out of the      *)
(* count of that group's descriptor.                                       *)
LEMMA DeletionIsCounted ==
  ASSUME NEW d, Records(d), NEW n \in InodeNumbers, NEW inode \in InodeRead(d, n),
         NEW g \in Groups, g = n \div NUM_INODES_PER_GROUP,
         inode.hard_link_count = 1,
         NEW e, e = DeletedDisk(d, n, inode)
  PROVE  read_block_descriptor(e, g) # read_block_descriptor(d, g)
<1>1. PICK r, home : /\ r = read_block_descriptor(d, g)
                     /\ home = get_starting_block_group_descriptor(g)
  OBVIOUS
<1>2. PICK count : count = (r.free_inodes_count + COUNT_SPAN - 1) % COUNT_SPAN
  OBVIOUS
<1>3. PICK counted : counted = [r EXCEPT !.free_inodes_count = count]
  OBVIOUS
<1>4. PICK forgotten :
        forgotten = [inode EXCEPT !.hard_link_count = 0, !.blocks = [k \in BlockIndex |-> 0]]
  OBVIOUS
<1>5. PICK f : f = FlushRecord(d, counted)
  OBVIOUS
<1>6. g \in Nat /\ home < OFFSET_SPAN /\ home \in Blocks /\ home \in MetadataBlocks
  <2>1. home \in Blocks /\ home \in MetadataBlocks
    BY <1>1, HomesApart, MetadataPlaces
  <2> QED BY <1>1, <2>1, GroupsAreNumbers, LayoutNumbers DEF Blocks
<1>7. r \in BlockGroupDescriptor /\ r.block_number = home
  BY <1>1, <1>6, ReadDescriptor DEF Records
<1>8. count \in Count /\ count # r.free_inodes_count
  <2>1. COUNT_SPAN \in Nat /\ COUNT_SPAN > 1 /\ r.free_inodes_count \in Nat
        /\ r.free_inodes_count < COUNT_SPAN
    BY <1>7, BlockGroupAssumption, LayoutNumbers DEF BlockGroupDescriptor, Count
  <2> QED BY <1>2, <2>1 DEF Count
<1>9. /\ counted \in BlockGroupDescriptor /\ counted.block_number = home
      /\ counted.free_inodes_count = count
  BY <1>3, <1>7, <1>8 DEF BlockGroupDescriptor
<1>10. e = FlushInode(f, forgotten)
  BY <1>1, <1>2, <1>3, <1>4, <1>5, <1>7 DEF DeletedDisk, BlockGroupDescriptor
<1>11. /\ Sound(f) /\ SameBits(f, d) /\ OnlyMetadata(d, f) /\ f[home] = counted
  <2>1. counted \in Content /\ d \in [Blocks -> Content]
    BY <1>9, ContentKinds DEF Records, Sound
  <2> QED BY <1>1, <1>5, <1>6, <1>9, <2>1, FlushHome, FlushDescriptor, DescriptorMetadata
          DEF Records
<1>12. Records(f)
  BY <1>11, ChangeMetadata
<1>13. forgotten \in BlockGroupINode /\ HasPlace(forgotten)
  <2>1. inode \in BlockGroupINode /\ HasPlace(inode)
    BY ReadInode
  <2>2. [k \in BlockIndex |-> 0] \in [BlockIndex -> Int]
    OBVIOUS
  <2>3. /\ forgotten \in BlockGroupINode
        /\ forgotten.blocks = [k \in BlockIndex |-> 0]
        /\ forgotten.uid = inode.uid
        /\ forgotten.file_size = inode.file_size
    BY <1>4, <2>1, <2>2 DEF BlockGroupINode
  <2> QED BY <2>1, <2>3 DEF HasPlace
<1>14. Records(e) /\ e[home] = f[home]
  <2>1. forgotten.uid \in InodeNumbers
    BY <1>13 DEF HasPlace
  <2>2. SlotOf(forgotten.uid) # home
    BY <1>6, <2>1, SlotPlace
  <2> QED BY <1>6, <1>10, <1>12, <1>13, <2>2, DestroyInode
<1>15. read_block_descriptor(e, g) = counted
  <2>1. read_block_descriptor(e, g) = descriptor(e, g)
    BY <1>1, <1>6, <1>14, ReadDescriptor DEF Records
  <2> QED BY <1>1, <1>11, <1>14, <2>1 DEF descriptor
<1> QED BY <1>1, <1>8, <1>9, <1>15

(* A step that leaves its file no fewer links than it had detaches none.   *)
LEMMA StillAttached ==
  ASSUME DInv, ~undefined', DiskStep,
         NEW n, NEW record, Outcome(n, record),
         n \in known => record.links >= RecordOf(n).links,
         NEW m \in known, Attached(disk, m)
  PROVE  Attached(disk', m)
<1>1. m \in InodeNumbers /\ Records(disk) /\ Records(disk') /\ m \in known'
      /\ Files(disk, known) /\ Files(disk', known')
  BY DEF DInv, IInv, DiskStep, Outcome
<1>2. /\ InodeReadable(disk', m)
      /\ inode_at(disk', m) \in BlockGroupINode /\ inode_at(disk, m) \in BlockGroupINode
  BY <1>1, ReadablePlace DEF Files
<1>3. inode_at(disk', m).hard_link_count \in Nat /\ inode_at(disk, m).hard_link_count \in Nat
      /\ inode_at(disk, m).hard_link_count > 0
  BY <1>2 DEF BlockGroupINode, Attached
<1>4. inode_at(disk', m).hard_link_count >= inode_at(disk, m).hard_link_count
  <2>1. CASE m = n
    BY <1>3, <2>1 DEF Outcome, RecordOf, FileRecord
  <2>2. CASE m # n
    <3>1. inode_at(disk', m) = inode_at(disk, m)
      BY <2>2 DEF Outcome, OthersKept
    <3> QED BY <1>3, <3>1
  <2> QED BY <2>1, <2>2
<1> QED BY <1>2, <1>3, <1>4 DEF Attached

(* Who takes the last link of a file tells the descriptor of its group.    *)
LEMMA DetachedStep ==
  ASSUME DInv, Next, ~undefined', NEW m \in known,
         Attached(disk, m), ~Attached(disk', m),
         NEW g, g = m \div NUM_INODES_PER_GROUP
  PROVE  read_block_descriptor(disk', g) # read_block_descriptor(disk, g)
<1>1. /\ IInv /\ ~undefined /\ DiskStep /\ Files(disk, known)
      /\ g \in Groups
  <2>1. IInv /\ DiskStep /\ ~undefined
    BY NumbersStayCounted DEF DInv, DiskStep, Kept
  <2> QED BY <2>1 DEF DInv, IInv, NumbersCounted
<1>2. \A n \in known : RecordOf(n).links \in Nat
  <2>1. ASSUME NEW n \in known PROVE inode_at(disk, n) \in BlockGroupINode
    BY <1>1, ReadablePlace DEF IInv, Files
  <2> QED BY <2>1 DEF RecordOf, FileRecord, BlockGroupINode
<1>3. ASSUME NEW n, NEW record, Outcome(n, record),
             n \in known => record.links >= RecordOf(n).links
      PROVE  FALSE
  BY <1>1, <1>3, StillAttached
<1>4. ASSUME NEW n, Outcome(n, RecordOf(n)) PROVE FALSE
  BY <1>2, <1>3, <1>4
<1>5. disk' # disk
  BY <1>1, <1>4, IdleOutcome
<1>6. CASE \E n \in known : delete_file(n)
  <2>1. PICK n \in known : delete_file(n)
    BY <1>6
  <2>2. PICK inode \in InodeRead(disk, n) : disk' = DeletedDisk(disk, n, inode)
    BY <2>1 DEF delete_file
  <2>3. n \in InodeNumbers /\ Records(disk) /\ inode = inode_at(disk, n)
    <3>1. NoteRead(n)
      BY <2>1 DEF delete_file
    <3> QED BY <1>1, <2>2, <3>1, NotedRead
  <2>4. PICK record : record = [RecordOf(n) EXCEPT !.links = LinksLeft(RecordOf(n).links)]
    OBVIOUS
  <2>5. Outcome(n, record)
    BY <1>1, <2>1, <2>4, DeleteStep
  <2>6. m = n
    <3> SUFFICES ASSUME m # n PROVE FALSE
      OBVIOUS
    <3>1. inode_at(disk', m) = inode_at(disk, m)
      BY <1>1, <2>5 DEF Outcome, OthersKept
    <3>2. InodeReadable(disk', m)
      BY <1>1 DEF DiskStep, Files
    <3> QED BY <3>1, <3>2 DEF Attached
  <2>7. record.links = LinksLeft(inode.hard_link_count) /\ inode.hard_link_count \in Nat
        /\ inode_at(disk', n).hard_link_count = record.links
        /\ inode.hard_link_count > 0
    <3>1. RecordOf(n).links = inode.hard_link_count
      BY <2>3 DEF RecordOf, FileRecord
    <3>2. record.links = LinksLeft(RecordOf(n).links)
      BY <2>4 DEF RecordOf, FileRecord
    <3>3. inode_at(disk', n).hard_link_count = record.links
      BY <1>1, <2>5 DEF Outcome, FileRecord
    <3>4. inode.hard_link_count > 0
      BY <2>3, <2>6 DEF Attached
    <3> QED BY <1>2, <3>1, <3>2, <3>3, <3>4
  <2>8. inode.hard_link_count = 1
    <3>1. ~ (inode_at(disk', n).hard_link_count > 0)
      <4>1. InodeReadable(disk', n)
        BY <1>1 DEF DiskStep, Files
      <4> QED BY <2>6, <4>1 DEF Attached
    <3> QED BY <2>7, <3>1 DEF LinksLeft
  <2> QED BY <1>1, <2>2, <2>3, <2>6, <2>8, DeletionIsCounted
<1>7. CASE \E mode \in Modes, is_directory \in Kinds : create_file(mode, is_directory)
  <2>1. PICK mode \in Modes, is_directory \in Kinds : create_file(mode, is_directory)
    BY <1>7
  <2>2. PICK n : n = VacantInode(disk).ret
    OBVIOUS
  <2>3. PICK record : record = [links |-> RecordOf(n).links + 1, size |-> 0,
                                mode |-> mode, is_directory |-> is_directory]
    OBVIOUS
  <2>4. Outcome(n, record)
    BY <1>1, <2>1, <2>2, <2>3, CreateStep
  <2> QED BY <1>2, <1>3, <2>3, <2>4
<1>8. CASE \E n \in known : \E mode \in Modes : my_open(n, mode)
  BY <1>1, <1>4, <1>5, <1>8, OpenStep DEF exit
<1>9. CASE \E n \in known : rename_file(n)
  BY <1>9 DEF rename_file
<1>10. CASE \E n \in known : increment_hard_link_count(n)
  <2>1. PICK n \in known : increment_hard_link_count(n)
    BY <1>10
  <2>2. PICK record : record = [RecordOf(n) EXCEPT !.links = RecordOf(n).links + 1]
    OBVIOUS
  <2>3. Outcome(n, record) /\ record.links = RecordOf(n).links + 1
    BY <1>1, <2>1, <2>2, LinkStep DEF RecordOf, FileRecord
  <2> QED BY <1>2, <1>3, <2>3
<1>11. CASE \E fd \in 0 .. created_file_descriptors :
              \/ my_close(fd) \/ BadDescriptor(fd)
              \/ \E position \in Positions : my_file_system_seek(fd, position)
  BY <1>5, <1>11 DEF my_close, BadDescriptor, my_file_system_seek, exit
<1>12. CASE \E fd \in 0 .. created_file_descriptors :
              \E size \in 1 .. SizeLimit : my_file_system_read(fd, size)
  BY <1>1, <1>4, <1>5, <1>12, ReadStep DEF exit
<1>13. CASE \E fd \in 0 .. created_file_descriptors :
              \E payload \in Payloads : my_file_system_write(fd, payload)
  <2>1. PICK fd \in 0 .. created_file_descriptors, payload \in Payloads :
          my_file_system_write(fd, payload)
    BY <1>13
  <2>2. PICK n : n = mp[fd].inode_number
    OBVIOUS
  <2>3. ASSUME NEW size, Outcome(n, [RecordOf(n) EXCEPT !.size = size]) PROVE FALSE
    <3>1. PICK record : record = [RecordOf(n) EXCEPT !.size = size]
      OBVIOUS
    <3>2. record.links = RecordOf(n).links
      BY <3>1 DEF RecordOf, FileRecord
    <3>3. Outcome(n, record)
      BY <2>3, <3>1
    <3> QED BY <1>2, <1>3, <3>2, <3>3
  <2> QED BY <1>1, <1>4, <1>5, <2>1, <2>2, <2>3, WriteStep DEF exit
<1>14. CASE \E fd \in 0 .. created_file_descriptors :
              \E payload \in AtPayloads, start_position \in Offsets :
                my_file_system_write_at(fd, start_position, payload)
  BY <1>1, <1>4, <1>5, <1>14, WriteAtStep DEF exit
<1> QED BY <1>6, <1>7, <1>8, <1>9, <1>10, <1>11, <1>12, <1>13, <1>14 DEF Next

(* A file that is no longer attached to its inode was detached by          *)
(* delete_file, and its group's descriptor tells: for every handler but    *)
(* rename_file, which detaches files whatever is on the disk, and until an *)
(* inode that could not be read is written back over one.                  *)
THEOREM OnlyDeletionDetaches == Spec => FilesDetachedByDeletion
<1> DEFINE Told == ~undefined' =>
                     \A n \in known :
                       Attached(disk, n) /\ ~Attached(disk', n) =>
                         LET g == n \div NUM_INODES_PER_GROUP
                         IN  read_block_descriptor(disk', g) # read_block_descriptor(disk, g)
<1>1. Init => DInv
  BY InitCounted
<1>2. DInv /\ [Next]_vars => DInv' /\ [Told]_vars
  <2> SUFFICES ASSUME DInv, [Next]_vars
               PROVE  DInv' /\ [Told]_vars
    OBVIOUS
  <2>1. CASE Next
    BY <2>1, NumbersStayCounted, DetachedStep
  <2>2. CASE UNCHANGED vars
    <3>1. IInv'
      BY <2>2, Stutter DEF DInv
    <3> QED BY <2>2, <3>1 DEF DInv, NumbersCounted, vars
  <2> QED BY <2>1, <2>2
<1> QED BY <1>1, <1>2, PTL DEF Spec, FilesDetachedByDeletion

-----------------------------------------------------------------------------
(***************************************************************************)
(* What a write within the block of the end of a file leaves of the file's *)
(* bytes, for every layout, also after memory nobody wrote has been read.  *)
(***************************************************************************)

(* Block 0 takes zeros only from the search in a group that does not       *)
(* exist, and such a search finds nothing.                                 *)
LEMMA FoundLeavesZero ==
  ASSUME NEW d, Records(d), NEW n \in InodeNumbers,
         NEW found, found = find_first_empty_data_block(d, n), found.ret # -1
  PROVE  found.disk[0] = d[0]
<1>1. PICK g : g = n \div NUM_INODES_PER_GROUP
  OBVIOUS
<1>2. PICK block_descriptor : block_descriptor = read_block_descriptor(d, g)
  OBVIOUS
<1>3. PICK taken : taken = TakeLowestBit(d, get_starting_block_bitmap(g), DataBits)
  OBVIOUS
<1>4. /\ block_descriptor.free_blocks_count # 0
      /\ found.disk = FlushRecord(taken.disk, block_descriptor)
  BY <1>1, <1>2, <1>3 DEF find_first_empty_data_block
<1>5. g \in Groups /\ block_descriptor.block_number = get_starting_block_group_descriptor(g)
  BY <1>1, <1>2, <1>4, InodeNumberType, ReadDescriptor DEF Records
<1>6. \A c, r : r.block_number \in Blocks \ {0} => FlushRecord(c, r)[0] = c[0]
  BY BlocksReadable DEF FlushRecord, write_block_disk_helper
<1>7. found.disk[0] = taken.disk[0]
  BY <1>4, <1>5, <1>6, HomesApart
<1>8. PICK home : home = get_starting_block_bitmap(g)
  OBVIOUS
<1>9. home \in Blocks \ {0} /\ Address(home) = home /\ d[home].block_number = home
      /\ d[home] \in BitMapBlock
  <2>1. home \in Blocks \ {0}
    BY <1>5, <1>8, HomesApart
  <2> QED BY <1>5, <1>8, <2>1, BlocksReadable DEF Records, Sound, MetadataAtHome, block_bitmap
<1>10. PICK r : r = [d[home] EXCEPT !.bits = set_bit(@, get_least_significant_bit(d[home].bits, DataBits), DataBits)]
  OBVIOUS
<1>11. r.block_number = home
  BY <1>9, <1>10 DEF BitMapBlock
<1>12. taken.disk = FlushRecord(d, r)
  BY <1>3, <1>8, <1>9, <1>10 DEF TakeLowestBit
<1> QED BY <1>6, <1>7, <1>9, <1>11, <1>12

(* A block of the file's own written by WriteBlock: the buffer is in it,   *)
(* over what it held, and of the others only descriptors and bitmaps may   *)
(* have changed.                                                           *)
LEMMA WrittenCells ==
  ASSUME NEW t, Working(t), NEW n \in InodeNumbers, NEW k \in BlockIndex, Clear(t.inode, k),
         NEW from \in Int, NEW to \in Int, NEW payload \in Seq(Cell),
         NEW w, w = WriteBlock(t, n, k, from, to, payload),
         NEW y, y = w.inode.blocks[k], y \in OwnBlocks
  PROVE  /\ \A b \in Blocks \ MetadataBlocks : b # y => w.disk[b] = t.disk[b]
         /\ w.disk[y] = [kind |-> "data",
                         cells |-> write_helper(retreive_block_disk_helper(t.disk, y),
                                                from, to, payload, t.used)]
<1>1. PICK held : held = get_data_block(t, n, k)
  OBVIOUS
<1>2. Working(held) /\ Wrote(t, held, k)
  BY <1>1, HoldBlock
<1>3. PICK content :
        content = [kind |-> "data",
                   cells |-> write_helper(retreive_block_disk_helper(held.disk, held.inode.blocks[k]),
                                          from, to, payload, t.used)]
  OBVIOUS
<1>4. /\ w.inode = held.inode
      /\ w.disk = write_block_disk_helper(held.disk, held.inode.blocks[k], content)
  BY <1>1, <1>2, <1>3 DEF WriteBlock, Working
<1>5. /\ held.inode.blocks[k] = y
      /\ y \in DataBlockNumbers /\ y \in Blocks \ MetadataBlocks /\ y # 0 /\ y # -1
      /\ Address(y) = y /\ Readable(y)
  <2>1. y \in DataBlockNumbers
    BY OwnBlockPlace
  <2> QED BY <1>4, <2>1, BlockNumberPlace
<1>6. content \in DataContent
  <2>1. held.disk \in [Blocks -> Content] /\ t.used \in Int
    BY <1>2 DEF Working
  <2> QED BY <1>3, <2>1, BufferCells DEF DataContent
<1>7. \A b \in Blocks : w.disk[b] = IF b = y THEN content ELSE held.disk[b]
  BY <1>2, <1>4, <1>5, <1>6, StoreData DEF Working
<1>8. held.disk[0] = t.disk[0]
  <2>1. CASE t.inode.blocks[k] # 0
    <3>1. held = t
      BY <1>1, <2>1 DEF get_data_block
    <3> QED BY <3>1
  <2>2. CASE t.inode.blocks[k] = 0
    <3>1. PICK found : found = find_first_empty_data_block(t.disk, n)
      OBVIOUS
    <3>2. held.disk = found.disk /\ held.inode.blocks[k] = found.ret
      BY <1>1, <2>2, <3>1 DEF get_data_block, Working, BlockGroupINode
    <3> QED BY <1>5, <3>1, <3>2, FoundLeavesZero DEF Working
  <2> QED BY <2>1, <2>2
<1>9. \A b \in Blocks \ MetadataBlocks : held.disk[b] = t.disk[b]
  <2>1. CASE t.inode.blocks[k] # 0
    <3>1. held = t
      BY <1>1, <2>1 DEF get_data_block
    <3> QED BY <3>1
  <2>2. CASE t.inode.blocks[k] = 0
    <3>1. PICK found : found = find_first_empty_data_block(t.disk, n)
      OBVIOUS
    <3>2. held.disk = found.disk
      BY <1>1, <2>2, <3>1 DEF get_data_block, Working, BlockGroupINode
    <3>3. OnlyMetadata(t.disk, found.disk)
      BY <3>1, FindBlock DEF Working, Records
    <3> QED BY <1>8, <3>2, <3>3 DEF OnlyMetadata
  <2> QED BY <2>1, <2>2
<1>10. retreive_block_disk_helper(held.disk, y) = retreive_block_disk_helper(t.disk, y)
  BY <1>5, <1>9 DEF retreive_block_disk_helper
<1> QED BY <1>3, <1>5, <1>7, <1>9, <1>10

(* The block of a file a byte is in, and its place there.                  *)
BlockOf(at)  == at \div BLOCK_SIZE
OffsetIn(at) == at % BLOCK_SIZE

LEMMA BlockParts ==
  /\ \A x \in Nat : BlockOf(x) \in Nat /\ OffsetIn(x) \in Offsets
  /\ \A x, y \in Nat : x <= y => BlockOf(x) <= BlockOf(y)
  /\ \A x, y \in Nat : BlockOf(x) = BlockOf(y) => OffsetIn(y) = OffsetIn(x) + (y - x)
  /\ \A x \in Nat : x < SizeLimit => BlockOf(x) \in BlockIndex
<1>1. BLOCK_SIZE \in Nat \ {0} /\ BLOCKS_PER_INODE \in Nat
  BY BlockGroupAssumption, LayoutNumbers
<1>2. ASSUME NEW x \in Nat
      PROVE  /\ BlockOf(x) \in Nat /\ OffsetIn(x) \in Offsets
             /\ x = BlockOf(x) * BLOCK_SIZE + OffsetIn(x)
  <2>1. PICK q, r, c : q = BlockOf(x) /\ r = OffsetIn(x) /\ c = BLOCK_SIZE
    OBVIOUS
  <2>2. c \in Nat \ {0} /\ q = x \div c /\ r = x % c
    BY <1>1, <2>1 DEF BlockOf, OffsetIn
  <2>3. q \in Nat
    BY <2>2
  <2>4. r \in 0 .. c - 1
    BY <2>2
  <2>5. x = c * q + r
    BY <2>2
  <2>6. c * q = q * c
    BY <2>2, <2>3
  <2> QED BY <2>1, <2>3, <2>4, <2>5, <2>6 DEF Offsets
<1>3. ASSUME NEW x \in Nat, NEW y \in Nat, x <= y
      PROVE  BlockOf(x) <= BlockOf(y)
  BY <1>1, <1>3, DivisionGrows DEF BlockOf
<1>4. ASSUME NEW x \in Nat, NEW y \in Nat, BlockOf(x) = BlockOf(y)
      PROVE  OffsetIn(y) = OffsetIn(x) + (y - x)
  <2>1. PICK s \in Int : s = BlockOf(x) * BLOCK_SIZE
    BY <1>1, <1>2
  <2>2. x = s + OffsetIn(x) /\ y = s + OffsetIn(y)
    BY <1>2, <1>4, <2>1
  <2>3. OffsetIn(x) \in Int /\ OffsetIn(y) \in Int
    BY <1>1, <1>2 DEF Offsets
  <2> QED BY <2>1, <2>2, <2>3
<1>5. ASSUME NEW x \in Nat, x < SizeLimit
      PROVE  BlockOf(x) \in BlockIndex
  BY <1>1, <1>5, DivisionBelow DEF BlockOf, BlockIndex, SizeLimit
<1> QED BY <1>2, <1>3, <1>4, <1>5

(* The bytes before the end of a file and those of a buffer that ends in   *)
(* the same block k, from offset from on.                                  *)
EndsIn(size, length, k, from) ==
  /\ k \in BlockIndex /\ from \in Nat
  /\ \A at \in 0 .. size - 1 :
       /\ BlockOf(at) \in BlockIndex /\ OffsetIn(at) \in Offsets
       /\ BlockOf(at) = k => OffsetIn(at) < from
  /\ \A i \in 1 .. length :
       /\ BlockOf(size + i - 1) = k
       /\ OffsetIn(size + i - 1) \in Offsets
       /\ OffsetIn(size + i - 1) = from + i - 1

LEMMA EndPlaces ==
  ASSUME NEW size \in Nat, NEW length \in Nat, length >= 1, size + length <= SizeLimit,
         NEW k, k = BlockOf(size), k = BlockOf(size + length - 1),
         NEW from, from = OffsetIn(size)
  PROVE  EndsIn(size, length, k, from)
<1>1. SizeLimit \in Nat /\ Offsets \subseteq Nat
  BY BlockGroupAssumption, LayoutNumbers DEF SizeLimit, Offsets
<1>2. size < SizeLimit
  BY <1>1
<1>3. k \in BlockIndex /\ from \in Offsets /\ k \in Nat
  BY <1>2, BlockParts
<1>4. ASSUME NEW at \in 0 .. size - 1
      PROVE  /\ BlockOf(at) \in BlockIndex /\ OffsetIn(at) \in Offsets
             /\ BlockOf(at) = k => OffsetIn(at) < from
  <2>1. at \in Nat /\ at < size /\ at < SizeLimit
    BY <1>1
  <2>2. BlockOf(at) \in BlockIndex /\ OffsetIn(at) \in Offsets
    BY <2>1, BlockParts
  <2>3. BlockOf(at) = k => from = OffsetIn(at) + (size - at)
    BY <2>1, BlockParts
  <2>4. PICK o \in Nat : o = OffsetIn(at)
    BY <1>1, <2>2
  <2>5. BlockOf(at) = k => o < from
    BY <2>1, <2>3, <2>4
  <2> QED BY <2>2, <2>4, <2>5
<1>5. ASSUME NEW i \in 1 .. length
      PROVE  /\ BlockOf(size + i - 1) = k
             /\ OffsetIn(size + i - 1) \in Offsets
             /\ OffsetIn(size + i - 1) = from + i - 1
  <2>1. PICK at, last : at = size + i - 1 /\ last = size + length - 1
    OBVIOUS
  <2>2. at \in Nat /\ last \in Nat /\ size <= at /\ at <= last /\ at - size = i - 1
    BY <2>1
  <2>3. /\ BlockOf(size) <= BlockOf(at) /\ BlockOf(at) <= BlockOf(last)
        /\ BlockOf(at) \in Nat /\ OffsetIn(at) \in Offsets
    BY <2>2, BlockParts
  <2>4. BlockOf(last) = k
    BY <2>1
  <2>5. BlockOf(at) = k
    BY <1>3, <2>3, <2>4
  <2>6. OffsetIn(at) = from + (at - size)
    BY <2>2, <2>5, BlockParts
  <2>7. from \in Nat
    BY <1>1, <1>3
  <2>8. OffsetIn(at) = from + i - 1
    BY <2>2, <2>6, <2>7
  <2> QED BY <2>1, <2>3, <2>5, <2>8
<1>6. from \in Nat
  BY <1>1, <1>3
<1> QED BY <1>3, <1>4, <1>5, <1>6 DEF EndsIn

(* A block of file n rewritten through WriteBlock, with the inode written  *)
(* back: what the file reads in that block and in the others.              *)
OneBlock(d, inode, n, k, from, to, payload) ==
  WriteBlock([disk |-> d, used |-> 0, inode |-> inode], n, k, from, to, payload)

HeldIn(d, n, k) == retreive_block_disk_helper(d, inode_at(d, n).blocks[k])

Rewritten(d, e, n, k, from, to, payload) ==
  LET y == inode_at(e, n).blocks[k]
  IN  /\ HeldIn(e, n, k)
           = write_helper(retreive_block_disk_helper(d, y), from, to, payload, 0)
      /\ \A j \in BlockIndex \ {k} : HeldIn(e, n, j) = HeldIn(d, n, j)
      /\ inode_at(d, n).blocks[k] # 0 => y = inode_at(d, n).blocks[k]

(* No file names a descriptor or bitmap.                                   *)
LEMMA ListedClear ==
  ASSUME NEW d, NEW K, Files(d, K), NEW n \in K, NEW k \in BlockIndex
  PROVE  Clear(inode_at(d, n), k)
<1>1. inode_at(d, n).blocks[k] \in DataBlockNumbers \cup {0, -1}
  BY DEF Files
<1>2. -1 \notin MetadataBlocks
  BY HomesApart, BlockNumberPlace DEF MetadataBlocks
<1> QED BY <1>1, <1>2, BlockNumberPlace DEF Clear

LEMMA BlockRewritten ==
  ASSUME NEW d, Records(d), NEW K \in SUBSET InodeNumbers, Files(d, K), NEW n \in K,
         NEW k \in BlockIndex, NEW from \in Int, NEW to \in Int, NEW payload \in Seq(Cell),
         NEW inode, inode = inode_at(d, n),
         NEW changed \in BlockGroupINode, HasPlace(changed),
         changed.uid = n, changed.blocks = inode.blocks,
         NEW t, t = OneBlock(d, changed, n, k, from, to, payload),
         NEW e, e = FlushInode(t.disk, t.inode), inode_at(e, n).blocks[k] \in OwnBlocks
  PROVE  Rewritten(d, e, n, k, from, to, payload)
<1>1. PICK t0, y :
        /\ t0 = [disk |-> d, used |-> 0, inode |-> changed]
        /\ t = WriteBlock(t0, n, k, from, to, payload)
        /\ y = inode_at(e, n).blocks[k] /\ y \in OwnBlocks
  BY DEF OneBlock
<1>2. /\ n \in InodeNumbers /\ InodeReadable(d, n) /\ ClearOfData(n)
      /\ inode \in BlockGroupINode /\ HasPlace(inode)
  <2>1. n \in InodeNumbers /\ InodeReadable(d, n) /\ ClearOfData(n)
    BY DEF Files
  <2> QED BY <2>1, ReadablePlace
<1>3. /\ Working(t0) /\ t0.disk = d /\ t0.used = 0 /\ t0.inode = changed
      /\ Clear(t0.inode, k)
  <2>1. Clear(changed, k)
    BY ListedClear DEF Clear
  <2> QED BY <1>1, <2>1 DEF Working, Records, Sound
<1>4. Working(t) /\ Wrote(t0, t, k)
  BY <1>1, <1>2, <1>3, WriteOneBlock
<1>5. /\ SlotOf(n) \in Blocks
      /\ \A b \in Blocks : b # SlotOf(n) => e[b] = t.disk[b]
      /\ inode_at(e, n) = t.inode
  <2>1. SlotOf(n) \in Blocks
    BY <1>2, SlotIsOnDisk
  <2>2. t.inode \in BlockGroupINode /\ HasPlace(t.inode) /\ t.inode.uid = n /\ Records(t.disk)
    BY <1>3, <1>4 DEF Working, Wrote, BlockGroupINode
  <2> QED BY <2>1, <2>2, StoredInode
<1>6. SlotOf(n) \notin DataBlockNumbers \cup {0}
  BY <1>2 DEF ClearOfData, SlotOf
<1>7. /\ y \in DataBlockNumbers /\ y \in Blocks \ MetadataBlocks /\ y # 0
      /\ y # SlotOf(n) /\ Address(y) = y /\ Readable(y)
  BY <1>1, <1>6, OwnBlockPlace, BlockNumberPlace
<1>8. PICK cells : cells = write_helper(retreive_block_disk_helper(d, y), from, to, payload, 0)
  OBVIOUS
<1>9. /\ \A b \in Blocks \ MetadataBlocks : b # y => t.disk[b] = d[b]
      /\ t.disk[y] = [kind |-> "data", cells |-> cells]
  <2>1. y = t.inode.blocks[k]
    BY <1>1, <1>5
  <2> QED BY <1>1, <1>2, <1>3, <1>8, <2>1, WrittenCells
<1>10. /\ \A b \in Blocks \ MetadataBlocks : b # y /\ b # SlotOf(n) => e[b] = d[b]
       /\ e[y] = [kind |-> "data", cells |-> cells]
  BY <1>5, <1>7, <1>9
<1>11. retreive_block_disk_helper(e, y) = cells
  BY <1>7, <1>10 DEF retreive_block_disk_helper
<1>12. \A j \in BlockIndex \ {k} : inode_at(e, n).blocks[j] = inode.blocks[j]
  BY <1>3, <1>4, <1>5 DEF Wrote
<1>13. y = inode.blocks[k] \/ (inode.blocks[k] = 0 /\ Spare(d, y))
  <2>1. y = t.inode.blocks[k] /\ inode.blocks[k] = t0.inode.blocks[k]
    BY <1>1, <1>3, <1>5
  <2>2. CASE t.inode.blocks[k] = t0.inode.blocks[k]
    BY <2>1, <2>2
  <2>3. CASE t0.inode.blocks[k] = 0 /\ Allotted(t0.disk, t.disk, t.inode.blocks[k])
    <3>1. Allotted(d, t.disk, y)
      BY <1>3, <2>1, <2>3
    <3>2. Spare(d, y)
      BY <1>1, <3>1, AllottedIsHoldable
    <3> QED BY <2>1, <2>3, <3>2
  <2> QED BY <1>4, <2>2, <2>3 DEF Wrote
<1>14. ASSUME NEW j \in BlockIndex \ {k}
       PROVE  inode.blocks[j] # y
  <2> SUFFICES ASSUME inode.blocks[j] = y PROVE FALSE
    OBVIOUS
  <2>1. Holdable(d, y)
    BY DEF Files
  <2>2. y = inode.blocks[k]
    BY <1>1, <1>13, <2>1, SpareIsNotHeld
  <2> QED BY <1>1, <2>2 DEF Files, NoneShared
<1>15. ASSUME NEW j \in BlockIndex \ {k}
       PROVE  retreive_block_disk_helper(e, inode_at(e, n).blocks[j])
                = retreive_block_disk_helper(d, inode.blocks[j])
  <2>1. PICK x : x = inode.blocks[j] /\ x = inode_at(e, n).blocks[j] /\ x # y
    BY <1>12, <1>14
  <2>2. x \in DataBlockNumbers \cup {0, -1}
    BY <2>1 DEF Files
  <2>3. Readable(x) => Address(x) = x /\ x \in Blocks \ MetadataBlocks /\ x # SlotOf(n)
    BY <1>6, <2>2, BlockNumberPlace DEF Readable
  <2>4. Readable(x) => e[Address(x)] = d[Address(x)]
    BY <1>10, <2>1, <2>3
  <2> QED BY <2>1, <2>4 DEF retreive_block_disk_helper
<1>16. HeldIn(e, n, k) = cells
  BY <1>1, <1>11 DEF HeldIn
<1>17. \A j \in BlockIndex \ {k} : HeldIn(e, n, j) = HeldIn(d, n, j)
  BY <1>15 DEF HeldIn
<1> QED BY <1>1, <1>8, <1>13, <1>16, <1>17 DEF Rewritten

(* The bytes of file n that are on disk e are those of its first size      *)
(* bytes on disk d, with the buffer behind them.                           *)
Appends(d, e, n, size, payload) ==
  /\ \A at \in 0 .. size - 1 : Byte(e, n, at) = Byte(d, n, at)
  /\ \A i \in DOMAIN payload : Byte(e, n, size + i - 1) = payload[i]

(* What is written within the block of the end of a file appends.          *)
LEMMA TransferAppends ==
  ASSUME NEW d, Records(d), NEW K \in SUBSET InodeNumbers, Files(d, K), NEW n \in K,
         NEW my_file \in MyFile, n = my_file.inode_number,
         NEW payload \in Seq(Cell), Len(payload) >= 1,
         NEW size \in Nat, size = my_file.file_size, size + Len(payload) <= SizeLimit,
         NEW k, k = BlockOf(size), k = BlockOf(size + Len(payload) - 1),
         k = BlockOf(my_file.position + Len(payload) - 1),
         NEW inode, inode = inode_at(d, n),
         OffsetIn(size) = 0 \/ inode.blocks[k] # 0,
         NEW t, t = Transfer(d, inode, my_file, payload),
         NEW e, e = FlushInode(t.disk, t.inode), inode_at(e, n).blocks[k] \in OwnBlocks
  PROVE  Appends(d, e, n, size, payload)
<1>1. size \in Nat /\ Len(payload) \in Nat
  BY DEF MyFile
<1>2. /\ n \in InodeNumbers /\ inode \in BlockGroupINode /\ HasPlace(inode) /\ inode.uid = n
  <2>1. n \in InodeNumbers /\ InodeReadable(d, n) /\ inode.uid = n
    BY ReadFile DEF Files
  <2> QED BY <2>1, ReadablePlace
<1>3. PICK from : from = OffsetIn(size)
  OBVIOUS
<1>4. EndsIn(size, Len(payload), k, from)
  BY <1>1, <1>3, EndPlaces
<1>5. k \in BlockIndex /\ from \in Nat
  BY <1>4 DEF EndsIn
<1>6. PICK to \in Int : to = from + Len(payload)
  BY <1>1, <1>5
<1>7. PICK changed : changed = [inode EXCEPT !.file_size = size + Len(payload)]
  OBVIOUS
<1>8. t = OneBlock(d, changed, n, k, from, to, payload)
  BY <1>3, <1>6, <1>7 DEF Transfer, BlockOf, OffsetIn, OneBlock
<1>9. /\ changed \in BlockGroupINode /\ HasPlace(changed)
      /\ changed.uid = n /\ changed.blocks = inode.blocks
  <2>1. size + Len(payload) \in Int
    BY <1>1
  <2>2. /\ changed \in BlockGroupINode /\ changed.uid = inode.uid
        /\ changed.blocks = inode.blocks
    BY <1>2, <1>7, <2>1 DEF BlockGroupINode
  <2> QED BY <1>2, <2>2 DEF HasPlace
<1>10. Rewritten(d, e, n, k, from, to, payload)
  <2> HIDE <1>3, <1>7
  <2>1. from \in Int
    BY <1>5
  <2> QED BY <1>5, <1>6, <1>8, <1>9, <2>1, BlockRewritten, Zenon
<1>11. PICK y, old, cells :
         /\ y = inode_at(e, n).blocks[k]
         /\ old = retreive_block_disk_helper(d, y)
         /\ cells = write_helper(old, from, to, payload, 0)
  OBVIOUS
<1>12. /\ HeldIn(e, n, k) = cells
       /\ \A j \in BlockIndex \ {k} : HeldIn(e, n, j) = HeldIn(d, n, j)
       /\ inode.blocks[k] # 0 => y = inode.blocks[k]
  BY <1>10, <1>11 DEF Rewritten
<1>13. \A f, at : Byte(f, n, at) = HeldIn(f, n, BlockOf(at))[OffsetIn(at)]
  BY DEF Byte, BlockOf, OffsetIn, HeldIn
<1>14. ASSUME NEW at \in 0 .. size - 1
       PROVE  Byte(e, n, at) = Byte(d, n, at)
  <2>1. PICK j, o : j = BlockOf(at) /\ o = OffsetIn(at)
    OBVIOUS
  <2>2. j \in BlockIndex /\ o \in Offsets /\ (j = k => o < from)
    BY <1>4, <2>1 DEF EndsIn
  <2>3. /\ Byte(e, n, at) = HeldIn(e, n, j)[o]
        /\ Byte(d, n, at) = HeldIn(d, n, j)[o]
    BY <1>13, <2>1
  <2>4. CASE j # k
    BY <1>12, <2>2, <2>3, <2>4
  <2>5. CASE j = k
    <3>1. o < from /\ from # 0 /\ o \in Nat
      BY <1>5, <2>2, <2>5, BlockGroupAssumption DEF Offsets
    <3>2. y = inode.blocks[k]
      BY <1>3, <1>12, <3>1
    <3>3. HeldIn(d, n, k) = old
      BY <1>11, <3>2 DEF HeldIn
    <3>4. o \notin from .. to - 1
      BY <1>5, <1>6, <3>1
    <3>5. cells[o] = old[o]
      BY <1>11, <2>2, <3>4 DEF write_helper
    <3> QED BY <1>12, <2>3, <2>5, <3>3, <3>5
  <2> QED BY <2>4, <2>5
<1>15. ASSUME NEW i \in DOMAIN payload
       PROVE  Byte(e, n, size + i - 1) = payload[i]
  <2>1. i \in 1 .. Len(payload)
    OBVIOUS
  <2>2. PICK at, o : at = size + i - 1 /\ o = OffsetIn(at)
    OBVIOUS
  <2>3. BlockOf(at) = k /\ o \in Offsets /\ o = from + i - 1
    BY <1>4, <2>1, <2>2 DEF EndsIn
  <2>4. o \in from .. to - 1 /\ 0 + (o - from) + 1 = i
    <3>1. i \in Nat /\ i >= 1 /\ i <= Len(payload)
      BY <1>1, <2>1
    <3> QED BY <1>1, <1>5, <1>6, <2>3, <3>1
  <2>5. Byte(e, n, at) = cells[o]
    BY <1>12, <1>13, <2>2, <2>3
  <2>6. cells[o] = payload[i]
    BY <1>11, <2>3, <2>4 DEF write_helper
  <2> QED BY <2>2, <2>5, <2>6
<1> QED BY <1>14, <1>15 DEF Appends

(* Only a write of its own makes the cached size of a descriptor grow.     *)
LEMMA GrownByWrite ==
  ASSUME IInv, Next, NEW fd \in DOMAIN mp, fd \in DOMAIN mp',
         mp[fd].file_size < mp'[fd].file_size
  PROVE  \E payload \in Payloads : my_file_system_write(fd, payload)
<1>1. mp[fd] \in MyFile /\ mp[fd].file_size \in Int /\ created_file_descriptors \notin DOMAIN mp
  BY DEF IInv, TypeOK, MyFile
<1>2. mp'[fd] # mp[fd] /\ mp' # mp /\ ~ exit
  BY <1>1 DEF exit
<1>3. ASSUME NEW other, NEW position, mp' = [mp EXCEPT ![other].position = position],
             other \in DOMAIN mp
      PROVE  FALSE
  <2>1. mp'[fd].file_size = mp[fd].file_size
    BY <1>1, <1>3 DEF MyFile
  <2> QED BY <1>1, <2>1
<1>4. CASE \E mode \in Modes, is_directory \in Kinds : create_file(mode, is_directory)
  BY <1>2, <1>4 DEF create_file
<1>5. CASE \E n \in known :
             \/ \E mode \in Modes : my_open(n, mode)
             \/ delete_file(n)
             \/ rename_file(n)
             \/ increment_hard_link_count(n)
  BY <1>1, <1>2, <1>5 DEF my_open, delete_file, rename_file, increment_hard_link_count
<1>6. ASSUME NEW other, my_close(other) \/ BadDescriptor(other)
      PROVE  FALSE
  BY <1>2, <1>6 DEF my_close, BadDescriptor
<1>7. ASSUME NEW other, NEW position, my_file_system_seek(other, position)
      PROVE  FALSE
  BY <1>2, <1>3, <1>7 DEF my_file_system_seek
<1>8. ASSUME NEW other, NEW size, my_file_system_read(other, size)
      PROVE  FALSE
  <2>1. /\ other \in DOMAIN mp
        /\ mp' = mp \/ exit
             \/ mp' = [mp EXCEPT ![other].position = mp[other].position + size]
    BY <1>8 DEF my_file_system_read, OutOfModel
  <2> QED BY <1>2, <1>3, <2>1
<1>9. ASSUME NEW other, NEW payload \in AtPayloads, NEW start_position \in Offsets,
             my_file_system_write_at(other, start_position, payload)
      PROVE  FALSE
  BY <1>2, <1>9 DEF my_file_system_write_at, OutOfModel
<1>10. ASSUME NEW other, NEW payload \in Payloads, my_file_system_write(other, payload)
       PROVE  other = fd
  <2> SUFFICES ASSUME other # fd PROVE FALSE
    OBVIOUS
  <2>1. \/ mp' = mp \/ exit
        \/ mp' = [mp EXCEPT ![other].file_size = mp[other].file_size + Len(payload)]
    BY <1>10 DEF my_file_system_write, OutOfModel
  <2> QED BY <1>2, <2>1
<1> QED BY <1>4, <1>5, <1>6, <1>7, <1>8, <1>9, <1>10 DEF Next

(* That write appends when it keeps to the block of the end of the file.   *)
LEMMA WriteAppends ==
  ASSUME IInv, NEW fd \in DOMAIN mp, NEW payload \in Payloads,
         my_file_system_write(fd, payload), ~undefined',
         NEW n, n = mp[fd].inode_number,
         NEW size, size = mp[fd].file_size, size < mp'[fd].file_size,
         NEW k, k = BlockOf(size), k = BlockOf(mp'[fd].file_size - 1),
         k = BlockOf(mp[fd].position + mp'[fd].file_size - size - 1),
         OffsetIn(size) = 0 \/ inode_at(disk, n).blocks[k] # 0,
         inode_at(disk', n).blocks[k] \in OwnBlocks
  PROVE  /\ Len(payload) = mp'[fd].file_size - size
         /\ Appends(disk, disk', n, size, payload)
<1>1. /\ mp[fd] \in MyFile /\ n \in known
      /\ known \in SUBSET InodeNumbers /\ Records(disk)
  BY DEF IInv, TypeOK
<1>2. payload \in Seq(Cell) /\ Len(payload) \in Nat /\ Len(payload) >= 1
  BY Ex2Assumption
<1>3. size \in Int /\ mp[fd].position \in Int /\ SizeLimit \in Nat
  BY <1>1, SizeLimitType DEF MyFile
<1>4. mp' # mp /\ ~ exit
  BY <1>3 DEF exit
<1>5. /\ size + Len(payload) \in 0 .. SizeLimit
      /\ NoteRead(n)
      /\ \E inode \in InodeRead(disk, n) :
           /\ LET t == Transfer(disk, inode, mp[fd], payload)
              IN  disk' = FlushInode(t.disk, t.inode)
           /\ mp' = [mp EXCEPT ![fd].file_size = @ + Len(payload)]
  BY <1>4 DEF my_file_system_write, OutOfModel
<1>6. PICK inode \in InodeRead(disk, n) :
        /\ LET t == Transfer(disk, inode, mp[fd], payload)
           IN  disk' = FlushInode(t.disk, t.inode)
        /\ mp' = [mp EXCEPT ![fd].file_size = @ + Len(payload)]
  BY <1>5
<1>7. /\ ~undefined /\ inode = inode_at(disk, n)
      /\ size \in Nat /\ size + Len(payload) <= SizeLimit
  <2>1. ~undefined /\ inode = inode_at(disk, n)
    BY <1>1, <1>5, <1>6, NotedRead
  <2>2. size \in 0 .. SizeLimit
    BY <2>1 DEF IInv, TypeOK
  <2> QED BY <1>2, <1>3, <1>5, <2>1, <2>2
<1>8. Files(disk, known)
  BY <1>7 DEF IInv
<1>9. mp'[fd].file_size = size + Len(payload)
  BY <1>1, <1>6 DEF MyFile
<1>10. /\ k = BlockOf(size + Len(payload) - 1)
       /\ k = BlockOf(mp[fd].position + Len(payload) - 1)
  <2>1. PICK first, last : /\ first = mp[fd].position + mp'[fd].file_size - size - 1
                           /\ last = mp[fd].position + Len(payload) - 1
    OBVIOUS
  <2>2. first = last
    <3>1. PICK position \in Int, length \in Nat : position = mp[fd].position /\ length = Len(payload)
      BY <1>2, <1>3
    <3>2. first = position + (size + length) - size - 1
      BY <1>9, <2>1, <3>1
    <3>3. first = position + length - 1
      BY <1>3, <3>2
    <3> QED BY <2>1, <3>1, <3>3
  <2>3. k = BlockOf(first)
    BY <2>1
  <2>4. k = BlockOf(size + Len(payload) - 1)
    <3>1. PICK end : end = mp'[fd].file_size - 1
      OBVIOUS
    <3>2. end = size + Len(payload) - 1
      BY <1>2, <1>3, <1>9, <3>1
    <3>3. k = BlockOf(end)
      BY <3>1
    <3> QED BY <3>2, <3>3
  <2> QED BY <2>1, <2>2, <2>3, <2>4
<1>11. PICK t : t = Transfer(disk, inode, mp[fd], payload)
  OBVIOUS
<1>12. disk' = FlushInode(t.disk, t.inode)
  BY <1>6, <1>11
<1>13. Appends(disk, disk', n, size, payload)
  BY <1>1, <1>2, <1>7, <1>8, <1>10, <1>11, <1>12, TransferAppends
<1>14. Len(payload) = mp'[fd].file_size - size
  BY <1>2, <1>3, <1>9
<1> QED BY <1>13, <1>14

(* A write within the block of the end of the file keeps all that the file *)
(* held and puts the buffer behind it.                                     *)
THEOREM WritesAppend == Spec => AppendsWithinBlock
<1> DEFINE Appended ==
      \A fd \in DOMAIN mp \cap DOMAIN mp' :
       LET n        == mp[fd].inode_number
           old_size == mp[fd].file_size
           new_size == mp'[fd].file_size
       IN  (/\ old_size < new_size
            /\ ~undefined'
            /\ old_size = inode_at(disk, n).file_size
            /\ old_size \div BLOCK_SIZE = (new_size - 1) \div BLOCK_SIZE
            /\ old_size \div BLOCK_SIZE
                 = (mp[fd].position + new_size - old_size - 1) \div BLOCK_SIZE
            /\ \/ old_size % BLOCK_SIZE = 0
               \/ inode_at(disk, n).blocks[old_size \div BLOCK_SIZE] # 0
            /\ inode_at(disk', n).blocks[old_size \div BLOCK_SIZE] \in OwnBlocks)
           => /\ \A at \in 0 .. old_size - 1 : Byte(disk', n, at) = Byte(disk, n, at)
              /\ \E payload \in Payloads :
                   /\ Len(payload) = new_size - old_size
                   /\ \A i \in DOMAIN payload :
                        Byte(disk', n, old_size + i - 1) = payload[i]
<1>1. IInv /\ Next => Appended
  <2> SUFFICES ASSUME IInv, Next, NEW fd \in DOMAIN mp, fd \in DOMAIN mp',
                      NEW n, n = mp[fd].inode_number,
                      NEW size, size = mp[fd].file_size,
                      NEW new_size, new_size = mp'[fd].file_size,
                      size < new_size, ~undefined',
                      BlockOf(size) = BlockOf(new_size - 1),
                      BlockOf(size) = BlockOf(mp[fd].position + new_size - size - 1),
                      OffsetIn(size) = 0 \/ inode_at(disk, n).blocks[BlockOf(size)] # 0,
                      inode_at(disk', n).blocks[BlockOf(size)] \in OwnBlocks
               PROVE  /\ \A at \in 0 .. size - 1 : Byte(disk', n, at) = Byte(disk, n, at)
                      /\ \E payload \in Payloads :
                           /\ Len(payload) = new_size - size
                           /\ \A i \in DOMAIN payload :
                                Byte(disk', n, size + i - 1) = payload[i]
    BY DEF BlockOf, OffsetIn
  <2>1. PICK payload \in Payloads : my_file_system_write(fd, payload)
    BY GrownByWrite
  <2>2. /\ Len(payload) = new_size - size
        /\ Appends(disk, disk', n, size, payload)
    BY <2>1, WriteAppends
  <2> QED BY <2>2 DEF Appends
<1>2. IInv /\ UNCHANGED vars => Appended
  <2> SUFFICES ASSUME IInv, UNCHANGED vars, NEW fd \in DOMAIN mp
               PROVE  ~(mp[fd].file_size < mp'[fd].file_size)
    OBVIOUS
  <2> QED BY DEF vars, IInv, TypeOK, MyFile
<1>3. IInv /\ [Next]_vars => [Appended]_vars
  BY <1>1, <1>2
<1>4. Spec => [][Appended]_vars
  BY <1>3, FileSystemInvariant, PTL DEF Spec
<1> QED BY <1>4 DEF AppendsWithinBlock
===============================================================================
