-------------------------- MODULE BlockGroupTheorems --------------------------
(***************************************************************************)
(* Where things are, for every layout that satisfies LayoutAssumption, and *)
(* what the operators of BlockGroup do to a disk whose descriptors and     *)
(* bitmaps are where they belong: they stay there, and of all the bitmaps  *)
(* only the one that is written changes.                                   *)
(***************************************************************************)
EXTENDS BlockGroup, FiniteSetTheorems, TLAPS

(* A set of naturals that is not empty has a least element: the shortest   *)
(* of the intervals 0 .. m - 1 that end before one of its elements.        *)
LEMMA LeastNatural ==
  ASSUME NEW S, S \subseteq Nat, S # {}
  PROVE  \E n \in S : \A m \in S : n <= m
<1>1. PICK top \in S : TRUE
  OBVIOUS
<1> DEFINE U == 0 .. top
           T == { x \in SUBSET U : \E m \in S : m <= top /\ x = 0 .. m - 1 }
<1>2. IsWellFoundedOn(StrictSubsetOrdering(U), SUBSET U)
  <2>1. IsFiniteSet(U) BY <1>1, FS_Interval
  <2>2. FiniteSubsetsOf(U) = SUBSET U
    <3> HIDE DEF U
    <3> QED BY <2>1, FS_FiniteSubsetsOfFinite
  <2>3. IsWellFoundedOn(StrictSubsetOrdering(U), FiniteSubsetsOf(U))
    BY FS_StrictSubsetOrderingWellFounded
  <2> QED BY <2>2, <2>3
<1>3. T # {}
  <2>1. 0 .. top - 1 \in SUBSET U BY <1>1
  <2>2. 0 .. top - 1 \in T BY <1>1, <2>1
  <2> QED BY <2>2
<1>4. T \subseteq SUBSET U
  OBVIOUS
<1>5. PICK x \in T : \A y \in T : ~ (<<y, x>> \in StrictSubsetOrdering(U))
  <2> HIDE DEF T, U
  <2> QED BY <1>2, <1>3, <1>4, WFMin
<1>6. PICK n \in S : n <= top /\ x = 0 .. n - 1
  BY <1>5
<1>7. ASSUME NEW m \in S, m < n PROVE FALSE
  <2>1. 0 .. m - 1 \in T
    <3>1. m <= top /\ m \in Nat BY <1>1, <1>6, <1>7
    <3>2. 0 .. m - 1 \in SUBSET U BY <1>1, <3>1
    <3> QED BY <3>1, <3>2
  <2>2. 0 .. m - 1 \subseteq x /\ 0 .. m - 1 # x
    <3>1. m \in x /\ m \notin 0 .. m - 1 BY <1>6, <1>7
    <3> QED BY <1>6, <1>7, <3>1
  <2>3. <<0 .. m - 1, x>> \in StrictSubsetOrdering(U)
    BY <2>1, <2>2, <1>4, <1>5 DEF StrictSubsetOrdering
  <2> QED BY <1>5, <2>1, <2>3
<1> QED BY <1>6, <1>7

(* A larger factor gives a larger product.                                 *)
LEMMA ProductGrows ==
  ASSUME NEW a \in Int, NEW b \in Int, NEW c \in Nat, a <= b
  PROVE  a * c <= b * c
  OBVIOUS

(* A place in areas of equal size determines the area and the offset in it.*)
LEMMA PlaceUnique ==
  ASSUME NEW g \in Nat, NEW h \in Nat, NEW x \in Nat, NEW y \in Nat,
         NEW s \in Nat, x < s, y < s, g * s + x = h * s + y
  PROVE  g = h /\ x = y
<1>1. ~ g < h
  <2> SUFFICES ASSUME g < h PROVE FALSE OBVIOUS
  <2>1. (g + 1) * s <= h * s BY ProductGrows
  <2>2. (g + 1) * s = g * s + s OBVIOUS
  <2> QED BY <2>1, <2>2
<1>2. ~ h < g
  <2> SUFFICES ASSUME h < g PROVE FALSE OBVIOUS
  <2>1. (h + 1) * s <= g * s BY ProductGrows
  <2>2. (h + 1) * s = h * s + s OBVIOUS
  <2> QED BY <2>1, <2>2
<1> QED BY <1>1, <1>2

(* The area a place is in.                                                 *)
LEMMA DivisionBounds ==
  ASSUME NEW x \in Nat, NEW c \in Nat \ {0}, NEW q, q = x \div c
  PROVE  q \in Nat /\ q * c <= x /\ x < q * c + c
  OBVIOUS

LEMMA DivisionBelow ==
  ASSUME NEW x \in Nat, NEW c \in Nat \ {0}, NEW m \in Nat, x < m * c
  PROVE  x \div c \in 0 .. m - 1
<1>1. PICK q : q = x \div c
  OBVIOUS
<1>2. q \in Nat /\ q * c <= x
  BY <1>1, DivisionBounds
<1>3. ~ m <= q
  <2> SUFFICES ASSUME m <= q PROVE FALSE
    OBVIOUS
  <2>1. m * c <= q * c
    BY <1>2, ProductGrows
  <2>2. m * c \in Int /\ q * c \in Int
    BY <1>2
  <2> QED BY <1>2, <2>1, <2>2
<1> QED BY <1>1, <1>2, <1>3

LEMMA DivisionGrows ==
  ASSUME NEW x \in Nat, NEW y \in Nat, NEW c \in Nat \ {0}, x <= y
  PROVE  x \div c \in Nat /\ y \div c \in Nat /\ x \div c <= y \div c
<1>1. PICK p, q : p = x \div c /\ q = y \div c
  OBVIOUS
<1>2. p \in Nat /\ p * c <= x
  BY <1>1, DivisionBounds
<1>3. q \in Nat /\ y < q * c + c
  BY <1>1, DivisionBounds
<1>4. ~ q + 1 <= p
  <2> SUFFICES ASSUME q + 1 <= p PROVE FALSE
    OBVIOUS
  <2>1. (q + 1) * c <= p * c
    BY <1>2, <1>3, ProductGrows
  <2>2. (q + 1) * c = q * c + c /\ q * c \in Int /\ p * c \in Int
    BY <1>2, <1>3
  <2> QED BY <1>2, <1>3, <2>1, <2>2
<1> QED BY <1>1, <1>2, <1>3, <1>4

(* The constants as numbers, and the part of a group area each range of    *)
(* offsets takes: 0 .. 2 descriptor and bitmaps, then the slots and data.  *)
LEMMA LayoutNumbers ==
  /\ NUM_GROUPS \in Nat /\ NUM_GROUPS > 0
  /\ RESERVED_OFFSET_GROUPS \in Nat /\ RESERVED_OFFSET_GROUPS >= 2
  /\ NUM_INODES_PER_GROUP \in Nat /\ NUM_INODES_PER_GROUP > 2
  /\ DATA_BLOCKS_PER_GROUP \in Nat /\ DATA_BLOCKS_PER_GROUP > 0
  /\ BLOCKS_PER_INODE \in Nat /\ BLOCKS_PER_INODE > 0
  /\ DISK_BLOCKS \in Nat /\ OFFSET_SPAN \in Nat /\ DISK_BLOCKS <= OFFSET_SPAN
  /\ GroupSize \in Nat
  /\ RESERVED_OFFSET_GROUPS + NUM_INODES_PER_GROUP + DATA_BLOCKS_PER_GROUP <= GroupSize
  /\ 3 + NUM_INODES_PER_GROUP + DATA_BLOCKS_PER_GROUP <= GroupSize
  /\ RESERVED_OFFSET_GROUPS + NUM_GROUPS * GroupSize <= DISK_BLOCKS
<1>1. NUM_GROUPS * BLOCKS_PER_INODE >= 1
  <2>1. 1 * BLOCKS_PER_INODE <= NUM_GROUPS * BLOCKS_PER_INODE
    BY LayoutAssumption, ProductGrows
  <2> QED BY <2>1, LayoutAssumption
<1>2. NUM_GROUPS * BLOCKS_PER_INODE \in Nat
  BY LayoutAssumption
<1>3. NUM_INODES_PER_GROUP > 2
  BY <1>1, <1>2, LayoutAssumption
<1> QED BY <1>3, LayoutAssumption DEF GroupSize

(* Group numbers are naturals.                                             *)
LEMMA GroupsAreNumbers == Groups \subseteq Nat
  BY LayoutNumbers DEF Groups

(* Every offset of a group area is on the disk.                            *)
LEMMA AreaOnDisk ==
  ASSUME NEW g \in Groups, NEW x \in 0 .. GroupSize - 1
  PROVE  /\ get_starting_block_group_descriptor(g) \in Nat
         /\ get_starting_block_group_descriptor(g) >= 2
         /\ get_starting_block_group_descriptor(g) + x \in Blocks
<1>1. g \in Nat /\ g + 1 <= NUM_GROUPS
  BY LayoutNumbers DEF Groups
<1>2. (g + 1) * GroupSize <= NUM_GROUPS * GroupSize
  BY <1>1, LayoutNumbers, ProductGrows
<1>3. (g + 1) * GroupSize = g * GroupSize + GroupSize /\ g * GroupSize \in Nat
  BY <1>1, LayoutNumbers
<1>4. NUM_GROUPS * GroupSize \in Nat
  BY LayoutNumbers
<1> HIDE DEF GroupSize
<1> QED
  BY <1>2, <1>3, <1>4, LayoutNumbers DEF get_starting_block_group_descriptor, Blocks

(* Two places in group areas are the same only if group and offset are.    *)
LEMMA AreaPlaces ==
  ASSUME NEW g \in Groups, NEW h \in Groups,
         NEW x \in 0 .. GroupSize - 1, NEW y \in 0 .. GroupSize - 1,
         get_starting_block_group_descriptor(g) + x
           = get_starting_block_group_descriptor(h) + y
  PROVE  g = h /\ x = y
<1>1. g \in Nat /\ h \in Nat /\ g * GroupSize \in Nat /\ h * GroupSize \in Nat
  BY GroupsAreNumbers, LayoutNumbers
<1>2. g * GroupSize + x = h * GroupSize + y
  BY <1>1, LayoutNumbers DEF get_starting_block_group_descriptor
<1> QED BY <1>1, <1>2, LayoutNumbers, PlaceUnique

(* Descriptor and bitmaps are the first three blocks of a group area.      *)
LEMMA MetadataPlaces ==
  /\ \A g \in Groups :
       /\ get_starting_block_bitmap(g) = get_starting_block_group_descriptor(g) + 1
       /\ get_starting_block_inode_bitmap(g) = get_starting_block_group_descriptor(g) + 2
  /\ \A b \in MetadataBlocks :
       \E g \in Groups, k \in 0 .. 2 : b = get_starting_block_group_descriptor(g) + k
  /\ \A g \in Groups :
       /\ get_starting_block_group_descriptor(g) \in MetadataBlocks
       /\ get_starting_block_bitmap(g) \in MetadataBlocks
       /\ get_starting_block_inode_bitmap(g) \in MetadataBlocks
<1>1. \A g \in Groups : get_starting_block_group_descriptor(g) \in Nat
  BY AreaOnDisk, LayoutNumbers
<1>2. \A b \in MetadataBlocks :
       \E g \in Groups, k \in 0 .. 2 : b = get_starting_block_group_descriptor(g) + k
  <2> SUFFICES ASSUME NEW b \in MetadataBlocks
               PROVE  \E g \in Groups, k \in 0 .. 2 :
                        b = get_starting_block_group_descriptor(g) + k
    OBVIOUS
  <2>1. PICK g \in Groups : b \in {get_starting_block_group_descriptor(g),
             get_starting_block_bitmap(g), get_starting_block_inode_bitmap(g)}
    BY DEF MetadataBlocks
  <2>2. get_starting_block_group_descriptor(g) + 0 = get_starting_block_group_descriptor(g)
    BY <1>1
  <2> QED BY <2>1, <2>2 DEF get_starting_block_bitmap, get_starting_block_inode_bitmap
<1> QED
  BY <1>2 DEF get_starting_block_bitmap, get_starting_block_inode_bitmap, MetadataBlocks

(* A block of the disk is addressed as itself: no wrap before OFFSET_SPAN. *)
LEMMA NoWrap ==
  ASSUME NEW b \in 0 .. OFFSET_SPAN - 1
  PROVE  Address(b) = b
<1>1. (b + OFFSET_SPAN) % (2 * OFFSET_SPAN) = b + OFFSET_SPAN
  BY LayoutNumbers
<1> QED BY <1>1, LayoutNumbers DEF Address

(* And it can be read.                                                     *)
LEMMA BlocksReadable ==
  ASSUME NEW b \in Blocks
  PROVE  Address(b) = b /\ Readable(b)
<1>1. b \in 0 .. OFFSET_SPAN - 1
  BY LayoutNumbers DEF Blocks
<1> QED BY <1>1, NoWrap DEF Readable

(* Data blocks, the overflow block included, are on the disk, clear of     *)
(* descriptors and bitmaps, and a different block for every group and bit. *)
THEOREM DataBlocksApart ==
  ASSUME NEW g \in Groups, NEW bit \in -1 .. DATA_BLOCKS_PER_GROUP - 1
  PROVE  /\ DataBlock(g, bit) \in Blocks \ MetadataBlocks
         /\ DataBlock(g, bit) \in Nat
         /\ \A h \in Groups, other \in -1 .. DATA_BLOCKS_PER_GROUP - 1 :
              DataBlock(h, other) = DataBlock(g, bit) => h = g /\ other = bit
<1> DEFINE place(n) == RESERVED_OFFSET_GROUPS + NUM_INODES_PER_GROUP + n
<1>1. \A n \in -1 .. DATA_BLOCKS_PER_GROUP - 1 :
        place(n) \in 3 .. GroupSize - 1
  BY LayoutNumbers
<1>2. \A h \in Groups, n \in -1 .. DATA_BLOCKS_PER_GROUP - 1 :
        DataBlock(h, n) = get_starting_block_group_descriptor(h) + place(n)
  <2>1. \A h \in Groups : get_starting_block_group_descriptor(h) \in Nat
    BY AreaOnDisk, LayoutNumbers
  <2> QED BY <2>1, LayoutNumbers DEF DataBlock
<1> HIDE DEF place
<1>3. DataBlock(g, bit) \in Blocks
  BY <1>1, <1>2, AreaOnDisk, LayoutNumbers
<1>4. DataBlock(g, bit) \notin MetadataBlocks
  <2> SUFFICES ASSUME DataBlock(g, bit) \in MetadataBlocks PROVE FALSE
    OBVIOUS
  <2>1. PICK h \in Groups, k \in 0 .. 2 :
          DataBlock(g, bit) = get_starting_block_group_descriptor(h) + k
    BY MetadataPlaces
  <2>2. k \in 0 .. GroupSize - 1 /\ place(bit) \in 0 .. GroupSize - 1
    BY <1>1, LayoutNumbers
  <2>3. place(bit) = k
    BY <1>2, <2>1, <2>2, AreaPlaces
  <2> QED BY <1>1, <2>3, LayoutNumbers
<1>5. ASSUME NEW h \in Groups, NEW other \in -1 .. DATA_BLOCKS_PER_GROUP - 1,
             DataBlock(h, other) = DataBlock(g, bit)
      PROVE  h = g /\ other = bit
  <2>1. place(bit) \in 0 .. GroupSize - 1 /\ place(other) \in 0 .. GroupSize - 1
    BY <1>1, LayoutNumbers
  <2>2. h = g /\ place(other) = place(bit)
    BY <1>2, <1>5, <2>1, AreaPlaces
  <2> QED BY <2>2, LayoutNumbers DEF place
<1> QED BY <1>3, <1>4, <1>5, LayoutNumbers DEF Blocks

(* The inode numbers of two groups or two bits are never the same.         *)
THEOREM InodeNumbersApart ==
  ASSUME NEW g \in Groups, NEW bit \in -1 .. NUM_INODES_PER_GROUP - 1
  PROVE  /\ InodeNumber(g, bit) \in Nat
         /\ \A h \in Groups, other \in -1 .. NUM_INODES_PER_GROUP - 1 :
              InodeNumber(h, other) = InodeNumber(g, bit) => h = g /\ other = bit
<1> DEFINE place(n) == RESERVED_OFFSET_GROUPS + n
<1>1. \A n \in -1 .. NUM_INODES_PER_GROUP - 1 : place(n) \in 0 .. GroupSize - 1
  BY LayoutNumbers
<1>2. \A h \in Groups, n \in -1 .. NUM_INODES_PER_GROUP - 1 :
        InodeNumber(h, n) = get_starting_block_group_descriptor(h) + place(n)
  <2>1. \A h \in Groups : get_starting_block_group_descriptor(h) \in Nat
    BY AreaOnDisk, LayoutNumbers
  <2> QED BY <2>1, LayoutNumbers DEF InodeNumber
<1> HIDE DEF place
<1>3. InodeNumber(g, bit) \in Nat
  <2>1. get_starting_block_group_descriptor(g) \in Nat BY <1>1, AreaOnDisk
  <2> QED BY <1>1, <1>2, <2>1, LayoutNumbers
<1>4. ASSUME NEW h \in Groups, NEW other \in -1 .. NUM_INODES_PER_GROUP - 1,
             InodeNumber(h, other) = InodeNumber(g, bit)
      PROVE  h = g /\ other = bit
  <2>1. h = g /\ place(other) = place(bit)
    BY <1>1, <1>2, <1>4, AreaPlaces
  <2> QED BY <2>1, LayoutNumbers DEF place
<1> QED BY <1>3, <1>4

-----------------------------------------------------------------------------

InodeBitsOf(d) == [g \in Groups |-> inode_bitmap(d, g).bits]
DataBitsOf(d)  == [g \in Groups |-> block_bitmap(d, g).bits]

(* No record that looks like a descriptor outside the descriptors' blocks, *)
(* block 0 excepted: there the zeros read from a group that does not exist *)
(* are put back.                                                           *)
NoStrayDescriptor(d) ==
  \A b \in Blocks :
    d[b].kind = "descriptor" =>
      b = 0 \/ \E g \in Groups : b = get_starting_block_group_descriptor(g)

Sound(d) ==
  /\ d \in [Blocks -> Content]
  /\ MetadataAtHome(d)
  /\ NoStrayDescriptor(d)

(* The blocks where e differs from d are descriptors, bitmaps, or block 0. *)
OnlyMetadata(d, e) ==
  \A b \in Blocks :
    \/ e[b] = d[b]
    \/ b \in MetadataBlocks \cup {0} /\ e[b].kind # "inode"

(* Same descriptors and bitmaps, as far as the bits go.                    *)
SameBits(d, e) == InodeBitsOf(d) = InodeBitsOf(e) /\ DataBitsOf(d) = DataBitsOf(e)

-----------------------------------------------------------------------------

(* The inode record that initialize_inodes writes is one, for any number.  *)
LEMMA FreshInodeType ==
  ASSUME NEW i \in InodeNumbers
  PROVE  FreshInode(i) \in BlockGroupINode
  BY DEF FreshInode, BlockGroupINode, Permissions

(* An inode number is a natural, and the descriptor it leads to is below   *)
(* the wrap.                                                               *)
LEMMA InodeNumberType ==
  ASSUME NEW i \in InodeNumbers
  PROVE  /\ i \in Nat
         /\ i \div NUM_INODES_PER_GROUP \in Nat
         /\ get_starting_block_group_descriptor(i \div NUM_INODES_PER_GROUP) < OFFSET_SPAN
<1>1. i \in Nat
  BY UidAssumption DEF InodeNumbers
<1>2. i \div NUM_INODES_PER_GROUP \in Nat
  BY <1>1, LayoutNumbers
<1> QED BY <1>1, <1>2, SlotAssumption

(* The kind tells the four contents apart.                                 *)
LEMMA ContentKinds ==
  /\ \A c \in BlockGroupDescriptor : c \in Content /\ c.kind = "descriptor"
  /\ \A c \in BitMapBlock : c \in Content /\ c.kind = "bitmap"
  /\ \A c \in BlockGroupINode : c \in Content /\ c.kind = "inode"
  /\ \A c \in DataContent : c \in Content /\ c.kind = "data"
  BY DEF Content, BlockGroupDescriptor, BitMapBlock, BlockGroupINode, DataContent

(* A bitmap with other bits keeps its place.                               *)
LEMMA NewBits ==
  ASSUME NEW old \in BitMapBlock, NEW bits \in SUBSET Nat
  PROVE  /\ [old EXCEPT !.bits = bits] \in BitMapBlock
         /\ [old EXCEPT !.bits = bits].bits = bits
         /\ [old EXCEPT !.bits = bits].block_number = old.block_number
  BY DEF BitMapBlock

(* A write is seen in the block its offset names, if that can be read.     *)
LEMMA WriteEffect ==
  ASSUME NEW d \in [Blocks -> Content], NEW c \in Content, NEW n
  PROVE  /\ write_block_disk_helper(d, n, c) \in [Blocks -> Content]
         /\ \A b \in Blocks :
              write_block_disk_helper(d, n, c)[b] =
                IF Readable(n) /\ Address(n) = b THEN c ELSE d[b]
  BY DEF write_block_disk_helper, Readable

(* A write to a block of the disk goes there.                              *)
LEMMA WriteHome ==
  ASSUME NEW d \in [Blocks -> Content], NEW c \in Content, NEW n \in Blocks
  PROVE  /\ write_block_disk_helper(d, n, c) \in [Blocks -> Content]
         /\ \A b \in Blocks :
              write_block_disk_helper(d, n, c)[b] = IF b = n THEN c ELSE d[b]
  BY WriteEffect, BlocksReadable

(* A destructor puts its record where the record says.                     *)
LEMMA FlushHome ==
  ASSUME NEW d \in [Blocks -> Content], NEW r \in Content, NEW home \in Blocks,
         r.block_number = home
  PROVE  /\ FlushRecord(d, r) \in [Blocks -> Content]
         /\ \A b \in Blocks : FlushRecord(d, r)[b] = IF b = home THEN r ELSE d[b]
  BY WriteHome DEF FlushRecord

(* If that is a place of metadata, so is all that changes.                 *)
LEMMA FlushMetadata ==
  ASSUME NEW d \in [Blocks -> Content], NEW r \in Content, r.kind # "inode",
         r.block_number \in Blocks, r.block_number \in MetadataBlocks \cup {0}
  PROVE  OnlyMetadata(d, FlushRecord(d, r))
<1>1. \A b \in Blocks : FlushRecord(d, r)[b] = IF b = r.block_number THEN r ELSE d[b]
  BY FlushHome
<1> QED BY <1>1 DEF OnlyMetadata

(* One such change after another is one.                                   *)
LEMMA OnlyMetadataTwice ==
  ASSUME NEW d, NEW e, NEW f, OnlyMetadata(d, e), OnlyMetadata(e, f)
  PROVE  OnlyMetadata(d, f)
  BY DEF OnlyMetadata

(* The places of descriptors and bitmaps, all on the disk and all apart.   *)
LEMMA HomesApart ==
  ASSUME NEW g \in Groups
  PROVE  /\ get_starting_block_group_descriptor(g) \in Blocks \ {0}
         /\ get_starting_block_bitmap(g) \in Blocks \ {0}
         /\ get_starting_block_inode_bitmap(g) \in Blocks \ {0}
         /\ \A h \in Groups :
              /\ get_starting_block_group_descriptor(g) # get_starting_block_bitmap(h)
              /\ get_starting_block_group_descriptor(g) # get_starting_block_inode_bitmap(h)
              /\ get_starting_block_bitmap(g) # get_starting_block_inode_bitmap(h)
              /\ get_starting_block_group_descriptor(g) = get_starting_block_group_descriptor(h)
                   => g = h
              /\ get_starting_block_bitmap(g) = get_starting_block_bitmap(h) => g = h
              /\ get_starting_block_inode_bitmap(g) = get_starting_block_inode_bitmap(h)
                   => g = h
<1>1. {0, 1, 2} \subseteq 0 .. GroupSize - 1
  BY LayoutNumbers
<1>2. \A h \in Groups :
        /\ get_starting_block_group_descriptor(h) = get_starting_block_group_descriptor(h) + 0
        /\ get_starting_block_group_descriptor(h) \in Nat
        /\ get_starting_block_group_descriptor(h) >= 2
        /\ \A k \in {0, 1, 2} : get_starting_block_group_descriptor(h) + k \in Blocks
  BY <1>1, AreaOnDisk
<1>3. \A h \in Groups : \A k, l \in {0, 1, 2} :
        get_starting_block_group_descriptor(g) + k = get_starting_block_group_descriptor(h) + l
          => g = h /\ k = l
  BY <1>1, AreaPlaces
<1>4. \A h \in Groups :
        /\ get_starting_block_bitmap(h) = get_starting_block_group_descriptor(h) + 1
        /\ get_starting_block_inode_bitmap(h) = get_starting_block_group_descriptor(h) + 2
  BY MetadataPlaces
<1>5. /\ get_starting_block_group_descriptor(g) \in Blocks \ {0}
      /\ get_starting_block_bitmap(g) \in Blocks \ {0}
      /\ get_starting_block_inode_bitmap(g) \in Blocks \ {0}
  BY <1>2, <1>4
<1>6. ASSUME NEW h \in Groups
      PROVE  /\ get_starting_block_group_descriptor(g) # get_starting_block_bitmap(h)
             /\ get_starting_block_group_descriptor(g) # get_starting_block_inode_bitmap(h)
             /\ get_starting_block_bitmap(g) # get_starting_block_inode_bitmap(h)
  <2>1. 0 # 1 /\ 0 # 2 /\ 1 # 2 OBVIOUS
  <2> QED BY <1>2, <1>3, <1>4, <1>6, <2>1
<1>7. ASSUME NEW h \in Groups
      PROVE  /\ get_starting_block_group_descriptor(g) = get_starting_block_group_descriptor(h)
                  => g = h
             /\ get_starting_block_bitmap(g) = get_starting_block_bitmap(h) => g = h
             /\ get_starting_block_inode_bitmap(g) = get_starting_block_inode_bitmap(h)
                  => g = h
  BY <1>2, <1>3, <1>4, <1>7
<1> QED BY <1>5, <1>6, <1>7

-----------------------------------------------------------------------------

(* An inode or data block written clear of the metadata.                   *)
LEMMA StoreElsewhere ==
  ASSUME NEW d, Sound(d), NEW c \in Content, c.kind # "descriptor", NEW n,
         Readable(n) => Address(n) \notin MetadataBlocks
  PROVE  /\ Sound(write_block_disk_helper(d, n, c))
         /\ SameBits(write_block_disk_helper(d, n, c), d)
<1> DEFINE e == write_block_disk_helper(d, n, c)
<1>1. /\ e \in [Blocks -> Content]
      /\ \A b \in Blocks : e[b] = IF Readable(n) /\ Address(n) = b THEN c ELSE d[b]
  BY WriteEffect DEF Sound
<1> HIDE DEF e
<1>2. \A g \in Groups :
        /\ descriptor(e, g) = descriptor(d, g)
        /\ inode_bitmap(e, g) = inode_bitmap(d, g)
        /\ block_bitmap(e, g) = block_bitmap(d, g)
  BY <1>1, MetadataPlaces, HomesApart DEF descriptor, inode_bitmap, block_bitmap
<1>3. MetadataAtHome(e)
  BY <1>2 DEF Sound, MetadataAtHome
<1>4. NoStrayDescriptor(e)
  BY <1>1 DEF Sound, NoStrayDescriptor
<1>5. SameBits(e, d)
  BY <1>2 DEF SameBits, InodeBitsOf, DataBitsOf
<1> QED BY <1>1, <1>3, <1>4, <1>5 DEF Sound, e

(* A descriptor that names a descriptor's block, or block 0.               *)
LEMMA FlushDescriptor ==
  ASSUME NEW d, Sound(d), NEW r \in BlockGroupDescriptor,
         \/ r.block_number = 0
         \/ \E g \in Groups : r.block_number = get_starting_block_group_descriptor(g)
  PROVE  Sound(FlushRecord(d, r)) /\ SameBits(FlushRecord(d, r), d)
<1> DEFINE e == FlushRecord(d, r)
<1>1. r.block_number \in Blocks
  <2>1. 0 \in Blocks BY LayoutNumbers DEF Blocks
  <2> QED BY <2>1, HomesApart
<1>2. /\ e \in [Blocks -> Content]
      /\ \A b \in Blocks : e[b] = IF b = r.block_number THEN r ELSE d[b]
  BY <1>1, ContentKinds, WriteHome DEF Sound, FlushRecord
<1> HIDE DEF e
<1>3. \A g \in Groups :
        /\ inode_bitmap(e, g) = inode_bitmap(d, g)
        /\ block_bitmap(e, g) = block_bitmap(d, g)
  BY <1>2, HomesApart DEF inode_bitmap, block_bitmap
<1>4. ASSUME NEW g \in Groups
      PROVE  /\ descriptor(e, g) \in BlockGroupDescriptor
             /\ descriptor(e, g).block_number = get_starting_block_group_descriptor(g)
  <2>1. CASE r.block_number = get_starting_block_group_descriptor(g)
    BY <1>2, <2>1, HomesApart DEF descriptor
  <2>2. CASE r.block_number # get_starting_block_group_descriptor(g)
    <3>1. descriptor(e, g) = descriptor(d, g)
      BY <1>2, <2>2, HomesApart DEF descriptor
    <3> QED BY <3>1 DEF Sound, MetadataAtHome
  <2> QED BY <2>1, <2>2
<1>5. MetadataAtHome(e)
  BY <1>3, <1>4 DEF Sound, MetadataAtHome
<1>6. NoStrayDescriptor(e)
  BY <1>2 DEF Sound, NoStrayDescriptor
<1>7. SameBits(e, d)
  BY <1>3 DEF SameBits, InodeBitsOf, DataBitsOf
<1> QED BY <1>2, <1>5, <1>6, <1>7 DEF Sound, e

(* It changes nothing else.                                                *)
LEMMA DescriptorMetadata ==
  ASSUME NEW d \in [Blocks -> Content], NEW r \in BlockGroupDescriptor,
         \/ r.block_number = 0
         \/ \E g \in Groups : r.block_number = get_starting_block_group_descriptor(g)
  PROVE  OnlyMetadata(d, FlushRecord(d, r))
<1>1. r \in Content /\ r.kind # "inode"
  <2>1. "descriptor" # "inode" OBVIOUS
  <2> QED BY <2>1, ContentKinds
<1>2. r.block_number \in Blocks /\ r.block_number \in MetadataBlocks \cup {0}
  <2>1. 0 \in Blocks BY LayoutNumbers DEF Blocks
  <2> QED BY <2>1, HomesApart, MetadataPlaces
<1> QED BY <1>1, <1>2, FlushMetadata

(* The inode bitmap of one group, with new bits of that group.             *)
LEMMA FlushInodeBitMap ==
  ASSUME NEW d, Sound(d), NEW g \in Groups, NEW bits \in SUBSET InodeBits,
         NEW r \in BitMapBlock, r.bits = bits, r.block_number = get_starting_block_inode_bitmap(g)
  PROVE  /\ Sound(FlushRecord(d, r))
         /\ InodeBitsOf(FlushRecord(d, r)) = [InodeBitsOf(d) EXCEPT ![g] = bits]
         /\ DataBitsOf(FlushRecord(d, r)) = DataBitsOf(d)
<1> DEFINE e == FlushRecord(d, r)
<1>1. /\ e \in [Blocks -> Content]
      /\ \A b \in Blocks :
           e[b] = IF b = get_starting_block_inode_bitmap(g) THEN r ELSE d[b]
  <2>1. r \in Content /\ get_starting_block_inode_bitmap(g) \in Blocks
    BY ContentKinds, HomesApart
  <2>2. d \in [Blocks -> Content]
    BY DEF Sound
  <2> QED BY <2>1, <2>2, FlushHome
<1> HIDE DEF e
<1>2. \A h \in Groups :
        /\ descriptor(e, h) = descriptor(d, h)
        /\ inode_bitmap(e, h) = IF h = g THEN r ELSE inode_bitmap(d, h)
        /\ block_bitmap(e, h) = block_bitmap(d, h)
  BY <1>1, HomesApart DEF descriptor, inode_bitmap, block_bitmap
<1>3. MetadataAtHome(e)
  BY <1>2 DEF Sound, MetadataAtHome
<1>4. NoStrayDescriptor(e)
  BY <1>1, ContentKinds DEF Sound, NoStrayDescriptor
<1>5. /\ InodeBitsOf(e) = [InodeBitsOf(d) EXCEPT ![g] = bits]
      /\ DataBitsOf(e) = DataBitsOf(d)
  BY <1>2 DEF InodeBitsOf, DataBitsOf
<1> QED BY <1>1, <1>3, <1>4, <1>5 DEF Sound, e

(* The same for the bitmap of data blocks.                                 *)
LEMMA FlushDataBitMap ==
  ASSUME NEW d, Sound(d), NEW g \in Groups, NEW bits \in SUBSET DataBits,
         NEW r \in BitMapBlock, r.bits = bits, r.block_number = get_starting_block_bitmap(g)
  PROVE  /\ Sound(FlushRecord(d, r))
         /\ DataBitsOf(FlushRecord(d, r)) = [DataBitsOf(d) EXCEPT ![g] = bits]
         /\ InodeBitsOf(FlushRecord(d, r)) = InodeBitsOf(d)
<1> DEFINE e == FlushRecord(d, r)
<1>1. /\ e \in [Blocks -> Content]
      /\ \A b \in Blocks :
           e[b] = IF b = get_starting_block_bitmap(g) THEN r ELSE d[b]
  <2>1. r \in Content /\ get_starting_block_bitmap(g) \in Blocks
    BY ContentKinds, HomesApart
  <2>2. d \in [Blocks -> Content]
    BY DEF Sound
  <2> QED BY <2>1, <2>2, FlushHome
<1> HIDE DEF e
<1>2. \A h \in Groups :
        /\ descriptor(e, h) = descriptor(d, h)
        /\ inode_bitmap(e, h) = inode_bitmap(d, h)
        /\ block_bitmap(e, h) = IF h = g THEN r ELSE block_bitmap(d, h)
  BY <1>1, HomesApart DEF descriptor, inode_bitmap, block_bitmap
<1>3. MetadataAtHome(e)
  BY <1>2 DEF Sound, MetadataAtHome
<1>4. NoStrayDescriptor(e)
  BY <1>1, ContentKinds DEF Sound, NoStrayDescriptor
<1>5. /\ DataBitsOf(e) = [DataBitsOf(d) EXCEPT ![g] = bits]
      /\ InodeBitsOf(e) = InodeBitsOf(d)
  BY <1>2 DEF InodeBitsOf, DataBitsOf
<1> QED BY <1>1, <1>3, <1>4, <1>5 DEF Sound, e

-----------------------------------------------------------------------------

(* The lowest clear bit is -1 exactly when there is none.                  *)
LEMMA LowestBit ==
  ASSUME NEW bits, NEW range, range \subseteq Nat
  PROVE  /\ range \subseteq bits => get_least_significant_bit(bits, range) = -1
         /\ ~ (range \subseteq bits) =>
              /\ get_least_significant_bit(bits, range) \in range \ bits
              /\ \A lower \in range :
                   lower < get_least_significant_bit(bits, range) => lower \in bits
<1>1. CASE range \subseteq bits
  BY <1>1 DEF get_least_significant_bit
<1>2. CASE ~ (range \subseteq bits)
  <2>1. range \ bits \subseteq Nat /\ range \ bits # {}
    BY <1>2
  <2>2. \E n \in range \ bits : \A m \in range \ bits : n <= m
    BY <2>1, LeastNatural
  <2> DEFINE bit == get_least_significant_bit(bits, range)
  <2>3. bit \in range \ bits /\ \A other \in range \ bits : bit <= other
    BY <1>2, <2>2 DEF get_least_significant_bit
  <2> HIDE DEF bit
  <2>4. \A lower \in range : lower < bit => lower \in bits
    BY <2>1, <2>3
  <2> QED BY <1>2, <2>3, <2>4 DEF bit
<1> QED BY <1>1, <1>2

(* set_bit with the lowest clear bit, which it refuses if it is -1.        *)
LEMMA SetLowestBit ==
  ASSUME NEW range \in SUBSET Nat, NEW bits \in SUBSET range,
         NEW bit, bit = get_least_significant_bit(bits, range)
  PROVE  /\ set_bit(bits, bit, range) \in SUBSET range
         /\ range \subseteq bits => bit = -1 /\ set_bit(bits, bit, range) = bits
         /\ ~ (range \subseteq bits) =>
              /\ bit \in range \ bits /\ set_bit(bits, bit, range) = bits \cup {bit}
              /\ \A lower \in range : lower < bit => lower \in bits
<1>1. CASE range \subseteq bits
  <2>1. bit = -1 BY <1>1, LowestBit
  <2>2. bit \notin range BY <2>1
  <2> QED BY <1>1, <2>1, <2>2 DEF set_bit
<1>2. CASE ~ (range \subseteq bits)
  <2>1. bit \in range \ bits /\ \A lower \in range : lower < bit => lower \in bits
    BY <1>2, LowestBit
  <2> QED BY <1>2, <2>1 DEF set_bit
<1> QED BY <1>1, <1>2

(* Taking an inode bit of a group: the lowest clear one is set, or nothing *)
(* changes and the bit is -1.                                              *)
LEMMA TakeInodeBit ==
  ASSUME NEW d, Sound(d), NEW g \in Groups, NEW taken,
         taken = TakeLowestBit(d, get_starting_block_inode_bitmap(g), InodeBits)
  PROVE  /\ Sound(taken.disk)
         /\ OnlyMetadata(d, taken.disk)
         /\ DataBitsOf(taken.disk) = DataBitsOf(d)
         /\ InodeMapFull(d, g) =>
              taken.bit = -1 /\ InodeBitsOf(taken.disk) = InodeBitsOf(d)
         /\ ~ InodeMapFull(d, g) =>
              /\ taken.bit \in InodeBits \ InodeBitsOf(d)[g]
              /\ \A lower \in InodeBits : lower < taken.bit => lower \in InodeBitsOf(d)[g]
              /\ InodeBitsOf(taken.disk)
                   = [InodeBitsOf(d) EXCEPT ![g] = @ \cup {taken.bit}]
<1>1. InodeBits \in SUBSET Nat
  BY LayoutNumbers DEF InodeBits
<1>2. PICK old \in BitMapBlock, bits \in SUBSET InodeBits :
        /\ old = inode_bitmap(d, g)
        /\ bits = old.bits
        /\ old.block_number = get_starting_block_inode_bitmap(g)
  BY DEF Sound, MetadataAtHome
<1>3. PICK bit : bit = get_least_significant_bit(bits, InodeBits)
  OBVIOUS
<1>4. PICK new : new = set_bit(bits, bit, InodeBits)
  OBVIOUS
<1>5. /\ new \in SUBSET InodeBits
      /\ InodeBits \subseteq bits => bit = -1 /\ new = bits
      /\ ~ (InodeBits \subseteq bits) =>
           /\ bit \in InodeBits \ bits /\ new = bits \cup {bit}
           /\ \A lower \in InodeBits : lower < bit => lower \in bits
  BY <1>1, <1>3, <1>4, SetLowestBit
<1>6. PICK r : r = [old EXCEPT !.bits = new]
  OBVIOUS
<1>7. r \in BitMapBlock /\ r.bits = new /\ r.block_number = get_starting_block_inode_bitmap(g)
  <2>1. new \in SUBSET Nat BY <1>1, <1>5
  <2>2. /\ [old EXCEPT !.bits = new] \in BitMapBlock
        /\ [old EXCEPT !.bits = new].bits = new
        /\ [old EXCEPT !.bits = new].block_number = old.block_number
    BY <2>1, NewBits
  <2> QED BY <1>2, <1>6, <2>2
<1>8. taken.disk = FlushRecord(d, r) /\ taken.bit = bit
  <2>1. Address(get_starting_block_inode_bitmap(g)) = get_starting_block_inode_bitmap(g)
    BY HomesApart, BlocksReadable
  <2> QED BY <1>2, <1>3, <1>4, <1>6, <2>1 DEF TakeLowestBit, inode_bitmap
<1>9. InodeBitsOf(d)[g] = bits /\ (InodeMapFull(d, g) <=> InodeBits \subseteq bits)
  BY <1>2 DEF InodeBitsOf, InodeMapFull
<1>10. OnlyMetadata(d, taken.disk)
  <2>1. r \in Content /\ r.kind # "inode"
    <3>1. "bitmap" # "inode" OBVIOUS
    <3> QED BY <1>7, <3>1, ContentKinds
  <2>2. get_starting_block_inode_bitmap(g) \in Blocks /\ get_starting_block_inode_bitmap(g) \in MetadataBlocks
    BY HomesApart, MetadataPlaces
  <2> QED BY <1>7, <1>8, <2>1, <2>2, FlushMetadata DEF Sound
<1>11. /\ Sound(taken.disk)
      /\ DataBitsOf(taken.disk) = DataBitsOf(d)
      /\ InodeBitsOf(taken.disk) = [InodeBitsOf(d) EXCEPT ![g] = new]
  BY <1>8, <1>5, <1>7, FlushInodeBitMap
<1>12. CASE InodeMapFull(d, g)
  <2>1. [InodeBitsOf(d) EXCEPT ![g] = InodeBitsOf(d)[g]] = InodeBitsOf(d)
    BY DEF InodeBitsOf
  <2> QED BY <1>8, <1>9, <1>5, <1>11, <1>12, <1>10, <2>1
<1>13. CASE ~ InodeMapFull(d, g)
  BY <1>8, <1>9, <1>5, <1>11, <1>13, <1>10
<1> QED BY <1>11, <1>12, <1>13, <1>10

(* The same for the bits of data blocks.                                   *)
LEMMA TakeDataBit ==
  ASSUME NEW d, Sound(d), NEW g \in Groups, NEW taken,
         taken = TakeLowestBit(d, get_starting_block_bitmap(g), DataBits)
  PROVE  /\ Sound(taken.disk)
         /\ OnlyMetadata(d, taken.disk)
         /\ InodeBitsOf(taken.disk) = InodeBitsOf(d)
         /\ DataMapFull(d, g) =>
              taken.bit = -1 /\ DataBitsOf(taken.disk) = DataBitsOf(d)
         /\ ~ DataMapFull(d, g) =>
              /\ taken.bit \in DataBits \ DataBitsOf(d)[g]
              /\ DataBitsOf(taken.disk)
                   = [DataBitsOf(d) EXCEPT ![g] = @ \cup {taken.bit}]
<1>1. DataBits \in SUBSET Nat
  BY LayoutNumbers DEF DataBits
<1>2. PICK old \in BitMapBlock, bits \in SUBSET DataBits :
        /\ old = block_bitmap(d, g)
        /\ bits = old.bits
        /\ old.block_number = get_starting_block_bitmap(g)
  BY DEF Sound, MetadataAtHome
<1>3. PICK bit : bit = get_least_significant_bit(bits, DataBits)
  OBVIOUS
<1>4. PICK new : new = set_bit(bits, bit, DataBits)
  OBVIOUS
<1>5. /\ new \in SUBSET DataBits
      /\ DataBits \subseteq bits => bit = -1 /\ new = bits
      /\ ~ (DataBits \subseteq bits) =>
           bit \in DataBits \ bits /\ new = bits \cup {bit}
  <2>1. /\ set_bit(bits, bit, DataBits) \in SUBSET DataBits
        /\ DataBits \subseteq bits => bit = -1 /\ set_bit(bits, bit, DataBits) = bits
    BY <1>1, <1>3, SetLowestBit
  <2>2. ~ (DataBits \subseteq bits) =>
           bit \in DataBits \ bits /\ set_bit(bits, bit, DataBits) = bits \cup {bit}
    BY <1>1, <1>3, SetLowestBit
  <2> QED BY <1>4, <2>1, <2>2
<1>6. PICK r : r = [old EXCEPT !.bits = new]
  OBVIOUS
<1>7. r \in BitMapBlock /\ r.bits = new /\ r.block_number = get_starting_block_bitmap(g)
  <2>1. new \in SUBSET Nat BY <1>1, <1>5
  <2>2. /\ [old EXCEPT !.bits = new] \in BitMapBlock
        /\ [old EXCEPT !.bits = new].bits = new
        /\ [old EXCEPT !.bits = new].block_number = old.block_number
    BY <2>1, NewBits
  <2> QED BY <1>2, <1>6, <2>2
<1>8. taken.disk = FlushRecord(d, r) /\ taken.bit = bit
  <2>1. Address(get_starting_block_bitmap(g)) = get_starting_block_bitmap(g)
    BY HomesApart, BlocksReadable
  <2> QED BY <1>2, <1>3, <1>4, <1>6, <2>1 DEF TakeLowestBit, block_bitmap
<1>9. DataBitsOf(d)[g] = bits /\ (DataMapFull(d, g) <=> DataBits \subseteq bits)
  BY <1>2 DEF DataBitsOf, DataMapFull
<1>10. OnlyMetadata(d, taken.disk)
  <2>1. r \in Content /\ r.kind # "inode"
    <3>1. "bitmap" # "inode" OBVIOUS
    <3> QED BY <1>7, <3>1, ContentKinds
  <2>2. get_starting_block_bitmap(g) \in Blocks /\ get_starting_block_bitmap(g) \in MetadataBlocks
    BY HomesApart, MetadataPlaces
  <2> QED BY <1>7, <1>8, <2>1, <2>2, FlushMetadata DEF Sound
<1>11. /\ Sound(taken.disk)
      /\ InodeBitsOf(taken.disk) = InodeBitsOf(d)
      /\ DataBitsOf(taken.disk) = [DataBitsOf(d) EXCEPT ![g] = new]
  BY <1>8, <1>5, <1>7, FlushDataBitMap
<1>12. CASE DataMapFull(d, g)
  <2>1. [DataBitsOf(d) EXCEPT ![g] = DataBitsOf(d)[g]] = DataBitsOf(d)
    BY DEF DataBitsOf
  <2> QED BY <1>8, <1>9, <1>5, <1>11, <1>12, <1>10, <2>1
<1>13. CASE ~ DataMapFull(d, g)
  BY <1>8, <1>9, <1>5, <1>11, <1>13, <1>10
<1> QED BY <1>11, <1>12, <1>13, <1>10

-----------------------------------------------------------------------------

(* The descriptor of a group is read from its home, and of a group that    *)
(* does not exist as zeros: no record lies about that looks like one.      *)
LEMMA ReadDescriptor ==
  ASSUME NEW d, Sound(d), NEW g \in Nat,
         get_starting_block_group_descriptor(g) < OFFSET_SPAN
  PROVE  /\ read_block_descriptor(d, g) \in BlockGroupDescriptor
         /\ g \in Groups =>
              /\ read_block_descriptor(d, g) = descriptor(d, g)
              /\ read_block_descriptor(d, g).block_number
                   = get_starting_block_group_descriptor(g)
         /\ g \notin Groups =>
              /\ read_block_descriptor(d, g).block_number = 0
              /\ read_block_descriptor(d, g).free_blocks_count = 0
              /\ read_block_descriptor(d, g).free_inodes_count = 0
<1> DEFINE at == get_starting_block_group_descriptor(g)
           zeros == [kind |-> "descriptor", free_blocks_count |-> 0,
                     free_inodes_count |-> 0, block_number |-> 0]
<1>1. at \in Nat /\ at >= 2 /\ Address(at) = at
  <2>1. g * GroupSize \in Nat
    BY LayoutNumbers
  <2>2. at \in Nat /\ at >= 2
    BY <2>1, LayoutNumbers DEF get_starting_block_group_descriptor
  <2> QED BY <2>2, NoWrap, LayoutNumbers
<1>2. zeros \in BlockGroupDescriptor
  <2>1. 0 \in Count
    BY BlockGroupAssumption, LayoutNumbers DEF Count
  <2> QED BY <2>1 DEF BlockGroupDescriptor
<1>3. CASE g \in Groups
  <2>1. descriptor(d, g) \in BlockGroupDescriptor /\ descriptor(d, g).block_number = at
    BY <1>3 DEF Sound, MetadataAtHome
  <2>2. at \in Blocks /\ d[at] = descriptor(d, g)
    BY <1>3, HomesApart DEF descriptor
  <2>3. read_block_descriptor(d, g) = descriptor(d, g)
    BY <1>1, <2>1, <2>2, ContentKinds DEF read_block_descriptor
  <2> QED BY <1>3, <2>1, <2>3
<1>4. CASE g \notin Groups
  <2>1. \A h \in Groups : at # get_starting_block_group_descriptor(h)
    <3> SUFFICES ASSUME NEW h \in Groups, at = get_starting_block_group_descriptor(h)
                 PROVE  FALSE
      OBVIOUS
    <3>1. h \in Nat /\ g * GroupSize \in Nat /\ h * GroupSize \in Nat
      BY GroupsAreNumbers, LayoutNumbers
    <3>2. g * GroupSize + 0 = h * GroupSize + 0
      BY <3>1, LayoutNumbers DEF get_starting_block_group_descriptor
    <3>3. g = h
      BY <3>1, <3>2, PlaceUnique, LayoutNumbers
    <3> QED BY <1>4, <3>3
  <2>2. ~ (at \in Blocks /\ d[at].kind = "descriptor")
    BY <1>1, <2>1 DEF Sound, NoStrayDescriptor
  <2>3. read_block_descriptor(d, g) = zeros
    BY <1>1, <2>2 DEF read_block_descriptor
  <2> QED BY <1>2, <1>4, <2>3
<1> QED BY <1>3, <1>4

(* What a search for an empty inode makes of disk d: disk e and a fresh    *)
(* number of the group, the number before the first once the map is full,  *)
(* or -1 and no change.                                                    *)
InodeFound(d, e, g, ret) ==
  /\ DataBitsOf(e) = DataBitsOf(d)
  /\ \/ ret = -1 /\ InodeBitsOf(e) = InodeBitsOf(d)
     \/ /\ InodeMapFull(d, g)
        /\ ret = ExhaustedInode(g)
        /\ InodeBitsOf(e) = InodeBitsOf(d)
     \/ \E bit \in InodeBits \ InodeBitsOf(d)[g] :
          /\ \A lower \in InodeBits : lower < bit => lower \in InodeBitsOf(d)[g]
          /\ ret = InodeNumber(g, bit)
          /\ InodeBitsOf(e) = [InodeBitsOf(d) EXCEPT ![g] = @ \cup {bit}]

(* The same for data blocks; the group need not exist, but then there is   *)
(* nothing to be found.                                                    *)
BlockFound(d, e, g, ret) ==
  /\ InodeBitsOf(e) = InodeBitsOf(d)
  /\ \/ ret = -1 /\ DataBitsOf(e) = DataBitsOf(d)
     \/ /\ g \in Groups
        /\ DataMapFull(d, g)
        /\ ret = ExhaustedBlock(g)
        /\ DataBitsOf(e) = DataBitsOf(d)
     \/ /\ g \in Groups
        /\ \E bit \in DataBits \ DataBitsOf(d)[g] :
             /\ ret = DataBlock(g, bit)
             /\ DataBitsOf(e) = [DataBitsOf(d) EXCEPT ![g] = @ \cup {bit}]

(* That is what find_first_empty_inode does.                               *)
LEMMA FindInode ==
  ASSUME NEW d, Sound(d), NEW g \in Groups, NEW block_descriptor, NEW found,
         found = find_first_empty_inode(d, g, block_descriptor)
  PROVE  /\ Sound(found.disk) /\ InodeFound(d, found.disk, g, found.ret)
         /\ OnlyMetadata(d, found.disk)
         /\ block_descriptor.free_inodes_count # 0 => found.ret \in InodeNumbers
<1>1. CASE block_descriptor.free_inodes_count = 0
  BY <1>1 DEF find_first_empty_inode, InodeFound, OnlyMetadata
<1>2. CASE block_descriptor.free_inodes_count # 0
  <2>1. PICK taken :
          taken = TakeLowestBit(d, get_starting_block_inode_bitmap(g), InodeBits)
    OBVIOUS
  <2>2. found.disk = taken.disk /\ found.ret = InodeNumber(g, taken.bit)
    BY <1>2, <2>1 DEF find_first_empty_inode
  <2>3. /\ Sound(found.disk) /\ DataBitsOf(found.disk) = DataBitsOf(d)
        /\ OnlyMetadata(d, found.disk)
    <3>1. /\ Sound(taken.disk) /\ DataBitsOf(taken.disk) = DataBitsOf(d)
          /\ OnlyMetadata(d, taken.disk)
      BY <2>1, TakeInodeBit
    <3> QED BY <2>2, <3>1
  <2>4. CASE InodeMapFull(d, g)
    <3>1. taken.bit = -1 /\ InodeBitsOf(taken.disk) = InodeBitsOf(d)
      BY <2>1, <2>4, TakeInodeBit
    <3>2. found.ret \in InodeNumbers
      BY <2>2, <3>1, LayoutNumbers, UidAssumption
    <3> QED BY <2>2, <2>3, <2>4, <3>1, <3>2 DEF ExhaustedInode, InodeFound
  <2>5. CASE ~ InodeMapFull(d, g)
    <3>1. /\ taken.bit \in InodeBits \ InodeBitsOf(d)[g]
          /\ \A lower \in InodeBits : lower < taken.bit => lower \in InodeBitsOf(d)[g]
          /\ InodeBitsOf(taken.disk) = [InodeBitsOf(d) EXCEPT ![g] = @ \cup {taken.bit}]
      BY <2>1, <2>5, TakeInodeBit
    <3>2. found.ret \in InodeNumbers
      BY <2>2, <3>1, LayoutNumbers, UidAssumption DEF InodeBits
    <3> QED BY <2>2, <2>3, <3>1, <3>2 DEF InodeFound
  <2> QED BY <2>4, <2>5
<1> QED BY <1>1, <1>2

(* And find_first_empty_data_block, for the group of the inode number.     *)
LEMMA FindBlock ==
  ASSUME NEW d, Sound(d), NEW i \in InodeNumbers, NEW g, g = i \div NUM_INODES_PER_GROUP,
         NEW found, found = find_first_empty_data_block(d, i)
  PROVE  /\ Sound(found.disk) /\ BlockFound(d, found.disk, g, found.ret)
         /\ OnlyMetadata(d, found.disk)
<1>1. PICK block_descriptor : block_descriptor = read_block_descriptor(d, g)
  OBVIOUS
<1>2. PICK taken : taken = TakeLowestBit(d, get_starting_block_bitmap(g), DataBits)
  OBVIOUS
<1>3. g \in Nat /\ get_starting_block_group_descriptor(g) < OFFSET_SPAN
  BY InodeNumberType
<1>4. /\ block_descriptor \in BlockGroupDescriptor
      /\ g \in Groups =>
           block_descriptor.block_number = get_starting_block_group_descriptor(g)
      /\ g \notin Groups =>
           block_descriptor.block_number = 0 /\ block_descriptor.free_blocks_count = 0
  BY <1>1, <1>3, ReadDescriptor
<1>5. CASE block_descriptor.free_blocks_count = 0
  <2>1. found.disk = FlushRecord(d, block_descriptor) /\ found.ret = -1
    BY <1>1, <1>5 DEF find_first_empty_data_block
  <2>2. Sound(found.disk) /\ SameBits(found.disk, d)
    BY <1>4, <2>1, FlushDescriptor
  <2>3. OnlyMetadata(d, found.disk)
    BY <1>4, <2>1, DescriptorMetadata DEF Sound
  <2> QED BY <2>1, <2>2, <2>3 DEF SameBits, BlockFound
<1>6. CASE block_descriptor.free_blocks_count # 0
  <2>1. g \in Groups
    BY <1>4, <1>6
  <2>2. /\ found.disk = FlushRecord(taken.disk, block_descriptor)
        /\ found.ret = DataBlock(g, taken.bit)
    BY <1>1, <1>2, <1>6 DEF find_first_empty_data_block
  <2>3. /\ Sound(taken.disk) /\ InodeBitsOf(taken.disk) = InodeBitsOf(d)
        /\ OnlyMetadata(d, taken.disk)
    BY <1>2, <2>1, TakeDataBit
  <2>4. OnlyMetadata(d, found.disk)
    <3>1. OnlyMetadata(taken.disk, found.disk)
      BY <1>4, <2>1, <2>2, <2>3, DescriptorMetadata DEF Sound
    <3> QED BY <2>3, <3>1, OnlyMetadataTwice
  <2>5. Sound(found.disk) /\ SameBits(found.disk, taken.disk)
    BY <1>4, <2>1, <2>2, <2>3, FlushDescriptor
  <2>6. CASE DataMapFull(d, g)
    BY <1>2, <2>1, <2>2, <2>3, <2>5, <2>6, <2>4, TakeDataBit DEF SameBits, ExhaustedBlock, BlockFound
  <2>7. CASE ~ DataMapFull(d, g)
    BY <1>2, <2>1, <2>2, <2>3, <2>5, <2>7, <2>4, TakeDataBit DEF SameBits, BlockFound
  <2> QED BY <2>6, <2>7, <2>4
<1> QED BY <1>5, <1>6

-----------------------------------------------------------------------------

(* What the formatting writes is a sound disk with nothing marked.         *)
LEMMA FormattedSound ==
  /\ Sound(FormattedDisk)
  /\ \A g \in Groups : descriptor(FormattedDisk, g) = FreshDescriptor(g)
  /\ \A b \in Blocks :
       FormattedDisk[b].kind = "inode" =>
         \E i \in FormattedInodes :
           Address(get_starting_block_inode(i)) = b /\ FormattedDisk[b] = FreshInode(i)
  /\ InodeBitsOf(FormattedDisk) = [g \in Groups |-> {}]
  /\ DataBitsOf(FormattedDisk) = [g \in Groups |-> {}]
<1> DEFINE d == FormattedDisk
<1>1. ASSUME NEW g \in Groups
      PROVE  descriptor(d, g) = FreshDescriptor(g)
  <2>1. get_starting_block_group_descriptor(g) \in Blocks
    BY HomesApart
  <2>2. (CHOOSE h \in Groups : get_starting_block_group_descriptor(g)
                                 = get_starting_block_group_descriptor(h)) = g
    BY HomesApart
  <2> QED BY <2>1, <2>2 DEF descriptor, FormattedDisk
<1>2. ASSUME NEW g \in Groups
      PROVE  /\ inode_bitmap(d, g) = EmptyBitMap(get_starting_block_inode_bitmap(g))
             /\ block_bitmap(d, g) = EmptyBitMap(get_starting_block_bitmap(g))
  <2>1. /\ get_starting_block_inode_bitmap(g) \in Blocks
        /\ get_starting_block_bitmap(g) \in Blocks
        /\ \A h \in Groups :
             /\ get_starting_block_inode_bitmap(g) # get_starting_block_group_descriptor(h)
             /\ get_starting_block_bitmap(g) # get_starting_block_group_descriptor(h)
    BY HomesApart
  <2> QED BY <2>1 DEF inode_bitmap, block_bitmap, FormattedDisk
<1>3. ASSUME NEW g \in Groups
      PROVE  /\ FreshDescriptor(g) \in BlockGroupDescriptor
             /\ FreshDescriptor(g).block_number = get_starting_block_group_descriptor(g)
  <2>1. NUM_INODES_PER_GROUP \in Count /\ DATA_BLOCKS_PER_GROUP \in Count
    BY BlockGroupAssumption, LayoutNumbers DEF Count
  <2>2. get_starting_block_group_descriptor(g) \in Nat
    BY HomesApart DEF Blocks
  <2> QED BY <2>1, <2>2 DEF FreshDescriptor, BlockGroupDescriptor
<1>4. ASSUME NEW b \in Blocks
      PROVE  /\ EmptyBitMap(b) \in BitMapBlock
             /\ EmptyBitMap(b).block_number = b
             /\ EmptyBitMap(b).bits = {}
  BY DEF EmptyBitMap, BitMapBlock, Blocks
<1>5. ASSUME NEW b \in Blocks
      PROVE  /\ d[b] \in Content
             /\ d[b].kind = "descriptor" =>
                  \E g \in Groups : b = get_starting_block_group_descriptor(g)
             /\ d[b].kind = "inode" =>
                  \E i \in FormattedInodes :
                    Address(get_starting_block_inode(i)) = b /\ d[b] = FreshInode(i)
  <2> HIDE DEF d
  <2>1. CASE \E g \in Groups : b = get_starting_block_group_descriptor(g)
    <3>1. PICK g \in Groups : b = get_starting_block_group_descriptor(g)
      BY <2>1
    <3>2. d[b] = FreshDescriptor(g)
      BY <1>1, <3>1 DEF descriptor
    <3>3. "descriptor" # "inode" OBVIOUS
    <3> QED BY <1>3, <2>1, <3>2, <3>3, ContentKinds
  <2>2. "descriptor" # "inode" /\ "bitmap" # "inode" /\ "data" # "inode"
    OBVIOUS
  <2>3. CASE /\ ~ \E g \in Groups : b = get_starting_block_group_descriptor(g)
             /\ \E g \in Groups : b \in {get_starting_block_bitmap(g),
                                         get_starting_block_inode_bitmap(g)}
    <3>1. d[b] = EmptyBitMap(b)
      BY <2>3 DEF FormattedDisk, d
    <3> QED BY <1>4, <2>2, <3>1, ContentKinds
  <2>4. CASE /\ ~ \E g \in Groups : b = get_starting_block_group_descriptor(g)
             /\ ~ \E g \in Groups : b \in {get_starting_block_bitmap(g),
                                           get_starting_block_inode_bitmap(g)}
             /\ \E i \in FormattedInodes : Address(get_starting_block_inode(i)) = b
    <3>1. PICK i \in FormattedInodes :
            d[b] = FreshInode(i) /\ Address(get_starting_block_inode(i)) = b
      BY <2>4 DEF FormattedDisk, d
    <3>2. FreshInode(i) \in BlockGroupINode
      BY FreshInodeType, UidAssumption
    <3> QED BY <3>1, <3>2, ContentKinds
  <2>5. CASE /\ ~ \E g \in Groups : b = get_starting_block_group_descriptor(g)
             /\ ~ \E g \in Groups : b \in {get_starting_block_bitmap(g),
                                           get_starting_block_inode_bitmap(g)}
             /\ ~ \E i \in FormattedInodes : Address(get_starting_block_inode(i)) = b
    <3>1. d[b] = ZeroData
      BY <2>5 DEF FormattedDisk, d
    <3>2. ZeroData \in DataContent
      BY BlockGroupAssumption DEF ZeroData, DataContent
    <3> QED BY <2>2, <3>1, <3>2, ContentKinds
  <2> QED BY <2>1, <2>3, <2>4, <2>5
<1>6. d \in [Blocks -> Content]
  <2>1. d = [b \in Blocks |-> d[b]] BY DEF FormattedDisk
  <2> HIDE DEF d
  <2> QED BY <1>5, <2>1
<1> HIDE DEF d
<1>7. MetadataAtHome(d)
  BY <1>1, <1>2, <1>3, <1>4, HomesApart DEF MetadataAtHome
<1>8. NoStrayDescriptor(d)
  BY <1>5 DEF NoStrayDescriptor
<1>9. /\ InodeBitsOf(d) = [g \in Groups |-> {}]
      /\ DataBitsOf(d) = [g \in Groups |-> {}]
  BY <1>2, <1>4, HomesApart DEF InodeBitsOf, DataBitsOf
<1> QED BY <1>1, <1>5, <1>6, <1>7, <1>8, <1>9 DEF Sound, d
===============================================================================
