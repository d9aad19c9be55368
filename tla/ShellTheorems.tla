---------------------------- MODULE ShellTheorems ----------------------------
(***************************************************************************)
(* The shell over any disk, any set of paths and any sequence of calls, as *)
(* long as every directory fits into one block: its directories form a     *)
(* tree, in which every file has one entry that stays where it is and says *)
(* what the file is; the shell stands in a directory and has nothing open  *)
(* between two calls; a call ends the process only over a directory; and   *)
(* which files are found by their paths and which are given links.         *)
(***************************************************************************)
EXTENDS Shell, Ex2FileSystemTheorems, SequenceTheorems

(* What the theorems assume of the bounds: the entries of all files there  *)
(* may be fit into a block; their inodes come from the first group, which  *)
(* never counts 0 free ones; and no group is asked for more data blocks    *)
(* than it has.  The code's constants allow 18 files and 7799 deletions.   *)
EnoughRoom ==
  /\ 1 <= MaxFiles
  /\ MaxFiles <= BLOCK_SIZE \div EntrySize + 1
  /\ MaxFiles <= NUM_INODES_PER_GROUP
  /\ MaxDeletions < NUM_INODES_PER_GROUP
  /\ \A g \in Groups :
       Cardinality({ n \in root .. root + MaxFiles - 1 : n \div NUM_INODES_PER_GROUP = g })
         <= DATA_BLOCKS_PER_GROUP

(* A directory that has a link, and the entries of a directory.            *)
Live(d, n) == inode_at(d, n).is_directory /\ inode_at(d, n).hard_link_count > 0

EntryCount(d, n) == inode_at(d, n).file_size \div EntrySize

Entries(d, n) == 0 .. EntryCount(d, n) - 1

(* Inode numbers are given out in their order.                             *)
NumbersInOrder(d, K) ==
  \E k \in 1 .. MaxFiles : K = root .. root + k - 1 /\ InodeBitsOf(d)[0] = 0 .. k - 1

(* No descriptor ever says that its group is used up.                      *)
CountsLeft(d) ==
  \A g \in Groups :
    /\ descriptor(d, g).free_blocks_count # 0
    /\ descriptor(d, g).free_inodes_count
         \in NUM_INODES_PER_GROUP - MaxDeletions .. NUM_INODES_PER_GROUP

(* The files of a group that hold something, or did when they were         *)
(* removed: only they have ever taken a data block, and one each.          *)
Sized(d, K, g) ==
  { n \in K : n \div NUM_INODES_PER_GROUP = g /\ inode_at(d, n).file_size > 0 }

OneBlockEach(d, K) ==
  \A g \in Groups : Cardinality(DataBitsOf(d)[g]) <= Cardinality(Sized(d, K, g))

(* A directory holds whole entries, fewer than there are files, in a block *)
(* of its own, or has none.                                                *)
WholeEntries(d, K) ==
  \A n \in K :
    Live(d, n) =>
      /\ inode_at(d, n).file_size = EntrySize * EntryCount(d, n)
      /\ root + EntryCount(d, n) \in K
      /\ inode_at(d, n).file_size > 0 => inode_at(d, n).blocks[0] \in OwnBlocks
      /\ inode_at(d, n).file_size = 0 => inode_at(d, n).blocks[0] = 0

(* An entry has the name of a path, is about a file made after its         *)
(* directory and says what that file is.  Names alone are only in the      *)
(* directory the shell stands in and those it came through, which were     *)
(* made before it.                                                         *)
EntryHolds(d, K, curr, n, entry) ==
  /\ entry.file_name \in DOMAIN PathNames
  /\ entry.inode_number \in K
  /\ n < entry.inode_number
  /\ entry.is_directory = inode_at(d, entry.inode_number).is_directory
  /\ Len(PathNames[entry.file_name]) = 1 => n <= curr

EntriesHold(d, K, curr) ==
  \A n \in K : Live(d, n) => \A i \in Entries(d, n) : EntryHolds(d, K, curr, n, Entry(d, n, i))

(* No file has two entries.                                                *)
EntriesApart(d, K) ==
  \A m, n \in K : Live(d, m) /\ Live(d, n) =>
    \A i \in Entries(d, m), j \in Entries(d, n) :
      Entry(d, m, i).inode_number = Entry(d, n, j).inode_number => m = n /\ i = j

(* Disk d with the files K, seen from directory curr; the files in gone    *)
(* have no link left.                                                      *)
Tree(d, K, curr, gone) ==
  /\ Records(d) /\ Files(d, K)
  /\ \A n \in K : n \div NUM_INODES_PER_GROUP \in Groups
  /\ NumbersInOrder(d, K)
  /\ CountsLeft(d)
  /\ OneBlockEach(d, K)
  /\ WholeEntries(d, K)
  /\ EntriesHold(d, K, curr)
  /\ EntriesApart(d, K)
  /\ curr \in K /\ inode_at(d, curr).is_directory
  /\ \A n \in K : inode_at(d, n).hard_link_count > 0 \/ n \in gone

(* Unless a directory is gone all files but those in S are named.          *)
HasName(d, K, n) ==
  \E m \in K : Live(d, m) /\ \E i \in Entries(d, m) : Entry(d, m, i).inode_number = n

AllNamed(d, K, gone, S) ==
  gone \cap Directories(d, K) = {} => \A n \in K \ S : HasName(d, K, n)

(* The inductive invariant.                                                *)
TreeInv ==
  /\ alive \in BOOLEAN
  /\ ~undefined =>
       /\ Tree(disk, known, curr_directory_inode_number, removed)
       /\ alive => mp = << >> /\ AllNamed(disk, known, removed, {root})
       /\ \E n \in known : AllNamed(disk, known, removed, {root, n})

-----------------------------------------------------------------------------

(* Where the numbers of the first group are.                               *)
LEMMA RootPlace ==
  /\ 0 \in Groups
  /\ root \in Nat /\ root > 0
  /\ \A bit \in Int : InodeNumber(0, bit) = root + bit
<1>1. 0 \in Groups
  BY LayoutNumbers DEF Groups
<1>2. \A bit \in Int : InodeNumber(0, bit) = RESERVED_OFFSET_GROUPS + RESERVED_OFFSET_GROUPS + bit
  BY LayoutNumbers DEF InodeNumber, get_starting_block_group_descriptor
<1> QED BY <1>1, <1>2, LayoutNumbers DEF root

(* What the numbers of a tree are like.                                    *)
LEMMA NumbersOfTree ==
  ASSUME NEW d, NEW K, NEW curr, NEW gone, Tree(d, K, curr, gone)
  PROVE  /\ K \in SUBSET InodeNumbers
         /\ K \subseteq Nat /\ 0 \notin K /\ -1 \notin K
         /\ root \in K /\ \A n \in K : root <= n
         /\ IsFiniteSet(K)
         /\ \E k \in 1 .. MaxFiles : K = root .. root + k - 1 /\ InodeBitsOf(d)[0] = 0 .. k - 1
<1>1. PICK k \in 1 .. MaxFiles : K = root .. root + k - 1 /\ InodeBitsOf(d)[0] = 0 .. k - 1
  BY DEF Tree, NumbersInOrder
<1>2. k \in Nat /\ k >= 1
  BY Ex2Assumption
<1>3. K \subseteq InodeNumbers
  BY DEF Tree, Files
<1>4. IsFiniteSet(K)
  <2>1. PICK a : a \in Int /\ a = root
    BY RootPlace
  <2>2. PICK b : b \in Int /\ b = root + k - 1
    BY <1>2, RootPlace
  <2>3. IsFiniteSet(a .. b)
    BY <2>1, <2>2, FS_Interval
  <2>4. K = a .. b
    BY <1>1, <2>1, <2>2
  <2> QED BY <2>3, <2>4, Zenon
<1>5. root \in Nat /\ root > 0
  BY RootPlace
<1>6. K \subseteq Nat /\ 0 \notin K /\ -1 \notin K /\ root \in K /\ \A n \in K : root <= n
  BY <1>1, <1>2, <1>5
<1> QED BY <1>1, <1>3, <1>4, <1>6

LEMMA TreeNumbers ==
  ASSUME NEW d, NEW K, NEW curr, NEW gone, Tree(d, K, curr, gone)
  PROVE  K \subseteq Nat
  BY NumbersOfTree

(* What a directory that has a link is like.                               *)
LEMMA LiveShape ==
  ASSUME EnoughRoom, NEW d, NEW K, NEW curr, NEW gone, Tree(d, K, curr, gone),
         NEW n \in K, Live(d, n)
  PROVE  /\ EntryCount(d, n) \in Nat
         /\ inode_at(d, n).file_size = 2 * EntryCount(d, n)
         /\ 2 * EntryCount(d, n) <= BLOCK_SIZE
         /\ root + EntryCount(d, n) + 1 \in K => 2 * EntryCount(d, n) + 2 <= BLOCK_SIZE
         /\ EntryCount(d, n) > 0 => inode_at(d, n).blocks[0] \in OwnBlocks
         /\ EntryCount(d, n) = 0 => inode_at(d, n).blocks[0] = 0
<1>1. PICK k \in 1 .. MaxFiles : K = root .. root + k - 1
  BY NumbersOfTree
<1>2. inode_at(d, n).file_size \in Nat
  BY NumbersOfTree, ReadablePlace DEF Tree, Files, BlockGroupINode
<1>3. /\ inode_at(d, n).file_size = EntrySize * EntryCount(d, n)
      /\ root + EntryCount(d, n) \in K
      /\ inode_at(d, n).file_size > 0 => inode_at(d, n).blocks[0] \in OwnBlocks
      /\ inode_at(d, n).file_size = 0 => inode_at(d, n).blocks[0] = 0
  BY DEF Tree, WholeEntries
<1>4. EntryCount(d, n) \in Nat
  BY <1>2 DEF EntryCount, EntrySize
<1>5. PICK c \in Nat : c = EntryCount(d, n)
  BY <1>4
<1>6. MaxFiles \in Nat /\ MaxFiles <= BLOCK_SIZE \div 2 + 1 /\ BLOCK_SIZE \in Nat
  BY Ex2Assumption, BlockGroupAssumption DEF EnoughRoom, EntrySize
<1>7. c + 1 <= MaxFiles
  <2>1. root \in Nat /\ root + c \in root .. root + k - 1
    BY <1>1, <1>3, <1>5, RootPlace
  <2>2. k \in Nat /\ k <= MaxFiles
    BY <1>6
  <2> QED BY <1>6, <2>1, <2>2
<1>8. 2 * c <= BLOCK_SIZE
  BY <1>6, <1>7
<1>9. root + c + 1 \in K => 2 * c + 2 <= BLOCK_SIZE
  BY <1>1, <1>6, RootPlace
<1>10. inode_at(d, n).file_size = 2 * c
  BY <1>3, <1>5 DEF EntrySize
<1>11. /\ c > 0 => inode_at(d, n).blocks[0] \in OwnBlocks
       /\ c = 0 => inode_at(d, n).blocks[0] = 0
  BY <1>3, <1>5, <1>10
<1> QED BY <1>5, <1>8, <1>9, <1>10, <1>11

-----------------------------------------------------------------------------

(* A call that has changed nothing, and one that has ended the process     *)
(* before it did.                                                          *)
At(d, K) ==
  [disk |-> d, mp |-> << >>, known |-> K, status |-> "going"]

Lost(d, K) ==
  [disk |-> d, mp |-> << >>, known |-> K, status |-> "exited"]

(* A directory over which a call may end the process.                      *)
Ends(d, n) ==
  inode_at(d, n).hard_link_count = 0 \/ inode_at(d, n).inode_mode # Permissions

(* The destructor of a local copy that was not changed changes nothing.    *)
LEMMA FlushSame ==
  ASSUME NEW d, Records(d), NEW K \in SUBSET InodeNumbers, Files(d, K), NEW n \in K
  PROVE  FlushInode(d, inode_at(d, n)) = d
<1>1. n \in InodeNumbers /\ InodeReadable(d, n) /\ inode_at(d, n).uid = n
  BY ReadFile DEF Files
<1>2. SlotOf(n) \in Blocks
  BY <1>1, SlotIsOnDisk
<1>3. d \in [Blocks -> Content]
  BY DEF Records, Sound
<1>4. FlushInode(d, inode_at(d, n)) = [d EXCEPT ![SlotOf(n)] = d[SlotOf(n)]]
  BY <1>1 DEF FlushInode, write_block_disk_helper, InodeReadable, inode_at, SlotOf
<1> QED BY <1>2, <1>3, <1>4

(* The descriptor my_open makes, and a call that has it open.              *)
Fresh(d, n) ==
  [inode_number |-> n, position |-> 0, file_size |-> inode_at(d, n).file_size,
   is_directory |-> inode_at(d, n).is_directory]

Holding(d, K, my_file) ==
  [disk |-> d, mp |-> <<my_file>>, known |-> K, status |-> "going"]

LEMMA OpenKnown ==
  ASSUME NEW d, Records(d), NEW K \in SUBSET InodeNumbers, Files(d, K), NEW n \in K,
         NEW mask \in SUBSET Permissions
  PROVE  \/ Opened(At(d, K), n, mask) = Lost(d, K) /\ Ends(d, n)
         \/ /\ Opened(At(d, K), n, mask) = Holding(d, K, Fresh(d, n))
            /\ inode_at(d, n).hard_link_count > 0
            /\ mask \subseteq inode_at(d, n).inode_mode
<1>1. InodeReadable(d, n) /\ FlushInode(d, inode_at(d, n)) = d
  BY ReadFile, FlushSame
<1>2. inode_at(d, n).hard_link_count \in Nat /\ inode_at(d, n).inode_mode \subseteq Permissions
  BY <1>1, ReadablePlace DEF BlockGroupINode
<1>3. At(d, K).disk = d /\ At(d, K).mp = << >>
  BY DEF At
<1>4. CASE inode_at(d, n).hard_link_count = 0 \/ ~(mask \subseteq inode_at(d, n).inode_mode)
  <2>1. Opened(At(d, K), n, mask) = [At(d, K) EXCEPT !.status = "exited"]
    BY <1>1, <1>3, <1>4 DEF Opened
  <2>2. [At(d, K) EXCEPT !.status = "exited"] = Lost(d, K)
    BY DEF At, Lost
  <2> QED BY <1>2, <1>4, <2>1, <2>2 DEF Ends
<1>5. CASE ~ (inode_at(d, n).hard_link_count = 0 \/ ~(mask \subseteq inode_at(d, n).inode_mode))
  <2>1. Append(<< >>, Fresh(d, n)) = <<Fresh(d, n)>>
    OBVIOUS
  <2>2. Opened(At(d, K), n, mask)
          = [disk |-> FlushInode(d, inode_at(d, n)), mp |-> Append(<< >>, Fresh(d, n)),
             known |-> At(d, K).known, status |-> At(d, K).status]
    BY <1>1, <1>3, <1>5 DEF Opened, Fresh
  <2>3. At(d, K).known = K /\ At(d, K).status = "going"
    BY DEF At
  <2> QED BY <1>1, <1>2, <1>5, <2>1, <2>2, <2>3 DEF Holding
<1> QED BY <1>4, <1>5

(* What my_close leaves of it.                                             *)
LEMMA CloseFresh ==
  ASSUME NEW d, NEW K, NEW my_file
  PROVE  Closed(Holding(d, K, my_file)) = At(d, K)
<1>1. Front(<<my_file>>) = << >>
  BY SubSeqEmpty DEF Front
<1> QED BY <1>1 DEF Closed, At, Holding

-----------------------------------------------------------------------------

(* What read_directory_info makes of a directory: it ends the process over *)
(* it, or reads its entries and leaves everything as it was.               *)
Reads(d, K, n, read) ==
  \/ Ends(d, n) /\ read = [call |-> Lost(d, K), v |-> << >>]
  \/ /\ Live(d, n)
     /\ read.call = At(d, K)
     /\ DOMAIN read.v = 1 .. EntryCount(d, n)
     /\ \A i \in Entries(d, n) : read.v[i + 1] = Entry(d, n, i)

LEMMA ReadDirectory ==
  ASSUME EnoughRoom, NEW d, NEW K, NEW curr, NEW gone, Tree(d, K, curr, gone),
         NEW n \in K, inode_at(d, n).is_directory
  PROVE  Reads(d, K, n, read_directory_info(At(d, K), n))
<1>1. K \in SUBSET InodeNumbers /\ Records(d) /\ Files(d, K)
  BY NumbersOfTree DEF Tree
<1>2. {"READ_BIT"} \in SUBSET Permissions
  BY DEF Permissions
<1>3. PICK opened : opened = Opened(At(d, K), n, {"READ_BIT"})
  OBVIOUS
<1>4. read_directory_info(At(d, K), n) = ReadOpened(opened, inode_at(d, n), n)
  BY <1>3 DEF read_directory_info, At
<1>5. CASE opened = Lost(d, K) /\ Ends(d, n)
  <2>1. ~Going(opened)
    BY <1>5 DEF Going, Lost
  <2> QED BY <1>4, <1>5, <2>1 DEF ReadOpened, Reads
<1>6. CASE /\ opened = Holding(d, K, Fresh(d, n))
           /\ inode_at(d, n).hard_link_count > 0
  <2>1. Live(d, n)
    BY <1>6 DEF Live
  <2>2. PICK c \in Nat : c = EntryCount(d, n)
    BY <2>1, LiveShape
  <2>3. /\ inode_at(d, n).file_size = 2 * c /\ 2 * c <= BLOCK_SIZE
        /\ c > 0 => inode_at(d, n).blocks[0] \in OwnBlocks
    BY <2>1, <2>2, LiveShape
  <2>4. Going(opened) /\ Closed(opened) = At(d, K) /\ opened.disk = d
    BY <1>6, CloseFresh DEF Going, Holding
  <2>5. CASE c = 0
    <3>1. ReadOpened(opened, inode_at(d, n), n) = [call |-> At(d, K), v |-> << >>]
      BY <2>3, <2>4, <2>5 DEF ReadOpened
    <3>2. Entries(d, n) = {} /\ DOMAIN << >> = 1 .. EntryCount(d, n)
      BY <2>2, <2>5 DEF Entries
    <3> QED BY <1>4, <2>1, <3>1, <3>2 DEF Reads
  <2>6. CASE c # 0
    <3>1. IndicesChecked(0, (inode_at(d, n).file_size - 1) \div BLOCK_SIZE) = {0}
      <4>1. BLOCK_SIZE \in Nat /\ BLOCK_SIZE > 0 /\ 2 * c \in Nat /\ 2 * c - 1 >= 0
        BY <2>2, <2>6, BlockGroupAssumption
      <4>2. (2 * c - 1) \div BLOCK_SIZE = 0
        BY <2>3, <4>1
      <4> QED BY <2>3, <4>2 DEF IndicesChecked
    <3>2. Readable(inode_at(d, n).blocks[0])
      BY <2>3, <2>6, OwnBlockPlace, BlockNumberPlace
    <3>3. ReadOpened(opened, inode_at(d, n), n) = [call |-> At(d, K), v |-> Listing(d, n)]
      BY <2>3, <2>4, <2>6, <3>1, <3>2 DEF ReadOpened
    <3>4. /\ DOMAIN Listing(d, n) = 1 .. c
          /\ \A i \in Entries(d, n) : Listing(d, n)[i + 1] = Entry(d, n, i)
      BY <2>2 DEF Listing, Entries, EntryCount
    <3> QED BY <1>4, <2>1, <2>2, <3>3, <3>4 DEF Reads
  <2> QED BY <2>5, <2>6
<1> QED BY <1>1, <1>2, <1>3, <1>5, <1>6, OpenKnown

-----------------------------------------------------------------------------

(* Entry i is the first of that name in directory n.                       *)
FirstOf(d, n, i, code) ==
  /\ Entry(d, n, i).file_name = code
  /\ \A j \in Entries(d, n) : j < i => Entry(d, n, j).file_name # code

NoneOf(d, n, code) == \A i \in Entries(d, n) : Entry(d, n, i).file_name # code

(* What get_file_info makes of a directory.                                *)
Looks(d, K, n, path, info) ==
  \/ Ends(d, n) /\ info.call = Lost(d, K) /\ info.found = {}
  \/ /\ Live(d, n)
     /\ info.call = At(d, K)
     /\ \/ info.found = {} /\ NoneOf(d, n, NameCode(path))
        \/ \E i \in Entries(d, n) :
             FirstOf(d, n, i, NameCode(path)) /\ info.found = {Entry(d, n, i)}

LEMMA LookForName ==
  ASSUME EnoughRoom, NEW d, NEW K, NEW curr, NEW gone, Tree(d, K, curr, gone),
         NEW n \in K, inode_at(d, n).is_directory, NEW path
  PROVE  Looks(d, K, n, path, get_file_info(At(d, K), n, path))
<1>1. PICK read : read = read_directory_info(At(d, K), n) /\ Reads(d, K, n, read)
  BY ReadDirectory
<1>2. PICK code : code = NameCode(path)
  OBVIOUS
<1>3. PICK matching : matching = { i \in DOMAIN read.v : read.v[i].file_name = code }
  OBVIOUS
<1>4. PICK info : info = get_file_info(At(d, K), n, path)
  OBVIOUS
<1>5. /\ info.call = read.call
      /\ info.found = { read.v[i] : i \in { j \in matching : \A k \in matching : j <= k } }
  BY <1>1, <1>2, <1>3, <1>4 DEF get_file_info, FirstNamed
<1>6. CASE Ends(d, n) /\ read = [call |-> Lost(d, K), v |-> << >>]
  <2>1. read.call = Lost(d, K) /\ read.v = << >>
    BY <1>6
  <2>2. matching = {}
    BY <1>3, <2>1
  <2>3. info.found = {}
    BY <1>5, <2>2
  <2> QED BY <1>4, <1>5, <1>6, <2>1, <2>3 DEF Looks
<1>7. CASE /\ Live(d, n)
           /\ read.call = At(d, K)
           /\ DOMAIN read.v = 1 .. EntryCount(d, n)
           /\ \A i \in Entries(d, n) : read.v[i + 1] = Entry(d, n, i)
  <2>1. PICK c \in Nat : c = EntryCount(d, n) /\ Entries(d, n) = 0 .. c - 1
    BY <1>7, LiveShape DEF Entries
  <2>2. matching \subseteq 1 .. c
    BY <1>3, <1>7, <2>1
  <2>3. ASSUME NEW i \in Entries(d, n)
        PROVE  /\ i \in 0 .. c - 1 /\ i + 1 \in 1 .. c
               /\ read.v[i + 1] = Entry(d, n, i)
               /\ i + 1 \in matching <=> Entry(d, n, i).file_name = code
    BY <1>3, <1>7, <2>1
  <2>4. CASE matching = {}
    <3>1. info.found = {}
      BY <1>5, <2>4
    <3>2. NoneOf(d, n, code)
      BY <2>3, <2>4 DEF NoneOf
    <3> QED BY <1>2, <1>4, <1>5, <1>7, <3>1, <3>2 DEF Looks
  <2>5. CASE matching # {}
    <3>1. matching \subseteq Nat
      BY <2>1, <2>2
    <3>2. PICK m \in matching : \A k \in matching : m <= k
      BY <2>5, <3>1, LeastNatural
    <3>3. { j \in matching : \A k \in matching : j <= k } = {m}
      <4>1. ASSUME NEW j \in matching, \A k \in matching : j <= k
            PROVE  j = m
        <5>1. j \in Nat /\ m \in Nat /\ j <= m /\ m <= j
          BY <3>1, <3>2, <4>1
        <5> QED BY <5>1
      <4> QED BY <3>2, <4>1
    <3>4. info.found = {read.v[m]}
      BY <1>5, <3>3
    <3>5. PICK i \in Entries(d, n) : m = i + 1
      <4>1. m \in 1 .. c
        BY <2>2, <3>2
      <4>2. m - 1 \in 0 .. c - 1 /\ m = (m - 1) + 1
        BY <2>1, <4>1
      <4> QED BY <2>1, <4>2
    <3>6. ASSUME NEW j \in Entries(d, n), j < i
          PROVE  Entry(d, n, j).file_name # code
      <4>1. i \in Int /\ j \in Int /\ ~(m <= j + 1)
        BY <2>3, <3>5, <3>6
      <4> QED BY <2>3, <3>2, <4>1
    <3>7. FirstOf(d, n, i, code)
      BY <2>3, <3>2, <3>5, <3>6 DEF FirstOf
    <3>8. info.found = {Entry(d, n, i)}
      BY <2>3, <3>4, <3>5
    <3> QED BY <1>2, <1>4, <1>5, <1>7, <3>7, <3>8 DEF Looks
  <2> QED BY <2>4, <2>5
<1> QED BY <1>1, <1>4, <1>6, <1>7 DEF Reads

-----------------------------------------------------------------------------

(* A path has one index; each of its names is a path.                      *)
LEMMA PathIndex ==
  ASSUME NEW path \in Paths
  PROVE  /\ NameCode(path) \in DOMAIN PathNames /\ PathNames[NameCode(path)] = path
         /\ NameCode(path) \in Nat /\ NameCode(path) \in Cell
         /\ path \in Seq(STRING) /\ Len(path) \in Nat /\ Len(path) > 0
         /\ \A k \in 1 .. Len(path) : <<path[k]>> \in Paths
<1>1. PICK i \in DOMAIN PathNames : PathNames[i] = path
  BY DEF Paths
<1>2. NameCode(path) \in DOMAIN PathNames /\ PathNames[NameCode(path)] = path
  BY <1>1 DEF NameCode
<1>3. PathNames \in Seq(Seq(STRING)) /\ DOMAIN PathNames \subseteq Cell
  BY ShellAssumption
<1>4. NameCode(path) \in Nat /\ NameCode(path) \in Cell
  BY <1>2, <1>3
<1>5. path \in Seq(STRING)
  BY <1>1, <1>3
<1>6. Len(path) > 0 /\ DOMAIN path = 1 .. Len(path) /\ Len(path) \in Nat
  BY <1>1, <1>5, ShellAssumption
<1>7. ASSUME NEW k \in 1 .. Len(path) PROVE <<path[k]>> \in Paths
  <2>1. \E j \in DOMAIN PathNames : PathNames[j] = <<PathNames[i][k]>>
    BY <1>1, <1>6, ShellAssumption
  <2> QED BY <1>1, <2>1 DEF Paths
<1> QED BY <1>2, <1>4, <1>5, <1>6, <1>7

(* The first entry of a name leads to a file made after the directory, and *)
(* there are names alone only up to the directory the shell stands in.     *)
LEMMA EntryOfName ==
  ASSUME NEW d, NEW K, NEW curr, NEW gone, Tree(d, K, curr, gone),
         NEW n \in K, Live(d, n), NEW i \in Entries(d, n), NEW path \in Paths,
         Entry(d, n, i).file_name = NameCode(path)
  PROVE  /\ Entry(d, n, i).inode_number \in K
         /\ n < Entry(d, n, i).inode_number
         /\ Entry(d, n, i).is_directory = inode_at(d, Entry(d, n, i).inode_number).is_directory
         /\ Len(path) = 1 => n <= curr
<1>1. EntryHolds(d, K, curr, n, Entry(d, n, i))
  BY DEF Tree, EntriesHold
<1> QED BY <1>1, PathIndex DEF EntryHolds

LEMMA NoNameAhead ==
  ASSUME NEW d, NEW K, NEW curr, NEW gone, Tree(d, K, curr, gone),
         NEW n \in K, curr < n, Live(d, n), NEW path \in Paths, Len(path) = 1
  PROVE  NoneOf(d, n, NameCode(path))
<1>1. n \in Nat /\ curr \in Nat
  BY NumbersOfTree DEF Tree
<1>2. ASSUME NEW i \in Entries(d, n), Entry(d, n, i).file_name = NameCode(path)
      PROVE  FALSE
  <2>1. n <= curr
    BY <1>2, EntryOfName
  <2> QED BY <1>1, <2>1
<1> QED BY <1>2 DEF NoneOf

(* The first entry of that name in directory n is about file x.            *)
LeadsTo(d, n, path, x) ==
  \E i \in Entries(d, n) :
    FirstOf(d, n, i, NameCode(path)) /\ Entry(d, n, i).inode_number = x

(* What a call may end the process over that follows these names from      *)
(* directory c: c, or the directory of the first name in it.  There is no  *)
(* third, since names alone are not in directories made after c.           *)
Halts(d, K, c, names) ==
  \/ Len(names) >= 1 /\ Ends(d, c)
  \/ /\ Len(names) >= 2 /\ Live(d, c)
     /\ \E x \in K : /\ LeadsTo(d, c, <<names[1]>>, x)
                     /\ inode_at(d, x).is_directory /\ Ends(d, x)

(* A way that ended in directory n, and one before it arrived, maybe       *)
(* together with the process.                                              *)
Stops(d, K, n, walk) ==
  /\ walk.at = -1
  /\ walk.call = At(d, K) \/ (walk.call = Lost(d, K) /\ Ends(d, n))

Failed(d, K, c, names, walk) ==
  /\ walk.at = -1
  /\ walk.call = At(d, K) \/ (walk.call = Lost(d, K) /\ Halts(d, K, c, names))

(* A way that leads from directory n into the directory of that name.      *)
Inside(d, K, n, name, walk) ==
  /\ walk.call = At(d, K)
  /\ Live(d, n)
  /\ LeadsTo(d, n, <<name>>, walk.at)
  /\ walk.at \in K /\ n < walk.at /\ inode_at(d, walk.at).is_directory

LEMMA EnterDirectory ==
  ASSUME EnoughRoom, NEW d, NEW K, NEW curr, NEW gone, Tree(d, K, curr, gone),
         NEW n \in K, inode_at(d, n).is_directory, NEW name, <<name>> \in Paths,
         NEW walk, walk.call = At(d, K), walk.at = n
  PROVE  /\ \/ Stops(d, K, n, Entered(walk, name))
            \/ Inside(d, K, n, name, Entered(walk, name))
         /\ curr < n => Stops(d, K, n, Entered(walk, name))
<1>1. PICK info : /\ info = get_file_info(At(d, K), n, <<name>>)
                  /\ Looks(d, K, n, <<name>>, info)
  BY LookForName
<1>2. n # -1 /\ Going(walk.call)
  BY NumbersOfTree DEF Going, At
<1>3. PICK next : next = Entered(walk, name)
  OBVIOUS
<1>4. next = [call |-> info.call,
              at   |-> IF \E entry \in info.found : entry.is_directory
                       THEN (CHOOSE entry \in info.found : TRUE).inode_number
                       ELSE -1]
  BY <1>1, <1>2, <1>3 DEF Entered
<1>5. /\ next.call = info.call
      /\ next.at = IF \E entry \in info.found : entry.is_directory
                   THEN (CHOOSE entry \in info.found : TRUE).inode_number
                   ELSE -1
  BY <1>4
<1>6. CASE Ends(d, n) /\ info.call = Lost(d, K) /\ info.found = {}
  <2>1. Stops(d, K, n, next)
    BY <1>5, <1>6 DEF Stops
  <2> QED BY <1>3, <2>1
<1>7. CASE Live(d, n) /\ info.call = At(d, K) /\ info.found = {}
  <2>1. Stops(d, K, n, next)
    BY <1>5, <1>7 DEF Stops
  <2> QED BY <1>3, <2>1
<1>8. ASSUME NEW i \in Entries(d, n), Live(d, n), info.call = At(d, K),
             FirstOf(d, n, i, NameCode(<<name>>)), info.found = {Entry(d, n, i)}
      PROVE  /\ Stops(d, K, n, next) \/ Inside(d, K, n, name, next)
             /\ ~ (curr < n)
  <2>1. PICK entry : entry = Entry(d, n, i)
    OBVIOUS
  <2>2. /\ entry.inode_number \in K
        /\ n < entry.inode_number
        /\ entry.is_directory = inode_at(d, entry.inode_number).is_directory
        /\ n <= curr
    BY <1>8, <2>1, EntryOfName DEF FirstOf
  <2>3. info.found = {entry} /\ (CHOOSE e \in info.found : TRUE) = entry
    BY <1>8, <2>1
  <2>4. ASSUME ~ entry.is_directory PROVE Stops(d, K, n, next)
    <3>1. ~ \E e \in info.found : e.is_directory
      BY <2>3, <2>4
    <3>2. next.at = -1
      BY <1>5, <3>1
    <3> QED BY <1>5, <1>8, <3>2 DEF Stops
  <2>5. ASSUME entry.is_directory PROVE Inside(d, K, n, name, next)
    <3>1. next.at = entry.inode_number
      BY <1>5, <2>3, <2>5
    <3>2. LeadsTo(d, n, <<name>>, next.at)
      BY <1>8, <2>1, <3>1 DEF LeadsTo
    <3>3. inode_at(d, entry.inode_number).is_directory
      BY <2>2, <2>5, Zenon
    <3>4. Inside(d, K, n, name, next)
      BY <1>5, <1>8, <2>2, <3>1, <3>2, <3>3 DEF Inside
    <3> QED BY <3>4
  <2>6. n \in Nat /\ curr \in Nat
    BY NumbersOfTree DEF Tree
  <2> QED BY <2>2, <2>4, <2>5, <2>6
<1> QED BY <1>1, <1>3, <1>6, <1>7, <1>8 DEF Looks

(* A way that has ended goes nowhere.                                      *)
LEMMA EndedStays ==
  ASSUME NEW walk, walk.at = -1, NEW name
  PROVE  Entered(walk, name) = walk
  BY DEF Entered

(* The values traverse_hierachy goes through.                              *)
IsWalk(walk, start, names) ==
  walk = [k \in 0 .. Len(names) |->
            IF k = 0 THEN start ELSE Entered(walk[k - 1], names[k])]

(* A way is over after its second step at the latest.                      *)
LEMMA WalkExists ==
  ASSUME NEW start, NEW names, Len(names) \in Nat,
         Len(names) >= 2 => Entered(Entered(start, names[1]), names[2]).at = -1
  PROVE  \E walk : IsWalk(walk, start, names)
<1>1. PICK first : first = Entered(start, names[1])
  OBVIOUS
<1>2. PICK second : second = Entered(first, names[2])
  OBVIOUS
<1>3. PICK N \in Nat : N = Len(names)
  OBVIOUS
<1>4. PICK walk : walk = [k \in 0 .. N |-> IF k = 0 THEN start
                                           ELSE IF k = 1 THEN first ELSE second]
  OBVIOUS
<1>5. ASSUME NEW k \in 0 .. N, k # 0
      PROVE  walk[k] = Entered(walk[k - 1], names[k])
  <2>1. k \in Int /\ k >= 1 /\ k <= N /\ k - 1 \in 0 .. N
    BY <1>5
  <2>2. CASE k = 1
    BY <1>1, <1>4, <2>1, <2>2
  <2>3. CASE k = 2
    BY <1>2, <1>4, <2>1, <2>3
  <2>4. CASE k > 2
    <3>1. walk[k] = second /\ walk[k - 1] = second
      BY <1>4, <2>1, <2>4
    <3>2. second.at = -1
      BY <1>1, <1>2, <1>3, <2>1, <2>4
    <3> QED BY <3>1, <3>2, EndedStays
  <2> QED BY <2>1, <2>2, <2>3, <2>4
<1>6. walk = [k \in 0 .. N |-> IF k = 0 THEN start ELSE Entered(walk[k - 1], names[k])]
  BY <1>4, <1>5
<1> QED BY <1>3, <1>6 DEF IsWalk

(* Where a way leads: to the directory it starts from, into one of that    *)
(* one's, or nowhere.                                                      *)
Walks(d, K, c, names, walk) ==
  \/ Failed(d, K, c, names, walk)
  \/ Len(names) = 0 /\ walk.at = c /\ walk.call = At(d, K)
  \/ Len(names) = 1 /\ Inside(d, K, c, names[1], walk)

LEMMA Traverse ==
  ASSUME EnoughRoom, NEW d, NEW K, NEW curr, NEW gone, Tree(d, K, curr, gone),
         curr = curr_directory_inode_number,
         NEW names, Len(names) \in Nat, \A k \in 1 .. Len(names) : <<names[k]>> \in Paths
  PROVE  Walks(d, K, curr, names, traverse_hierachy(At(d, K), names))
<1>1. PICK start : start = [call |-> At(d, K), at |-> curr]
  OBVIOUS
<1>2. start.call = At(d, K) /\ start.at = curr
  BY <1>1
<1>3. curr \in K /\ inode_at(d, curr).is_directory
  BY DEF Tree
<1>4. ASSUME Len(names) >= 1
      PROVE  \/ Failed(d, K, curr, names, Entered(start, names[1]))
             \/ Inside(d, K, curr, names[1], Entered(start, names[1]))
  <2>1. <<names[1]>> \in Paths
    BY <1>4
  <2>2. \/ Stops(d, K, curr, Entered(start, names[1]))
        \/ Inside(d, K, curr, names[1], Entered(start, names[1]))
    BY <1>2, <1>3, <2>1, EnterDirectory
  <2> QED BY <1>4, <2>2 DEF Stops, Failed, Halts
<1>5. ASSUME Len(names) >= 2
      PROVE  Failed(d, K, curr, names, Entered(Entered(start, names[1]), names[2]))
  <2>1. PICK walk : walk = Entered(start, names[1])
    OBVIOUS
  <2>2. Failed(d, K, curr, names, walk) \/ Inside(d, K, curr, names[1], walk)
    BY <1>4, <1>5, <2>1
  <2>3. CASE Failed(d, K, curr, names, walk)
    BY <2>1, <2>3, EndedStays DEF Failed
  <2>4. CASE Inside(d, K, curr, names[1], walk)
    <3>1. PICK x : x = walk.at
      OBVIOUS
    <3>2. /\ x \in K /\ curr < x /\ inode_at(d, x).is_directory
          /\ walk.call = At(d, K)
          /\ Live(d, curr) /\ LeadsTo(d, curr, <<names[1]>>, x)
      BY <2>4, <3>1 DEF Inside
    <3>3. <<names[2]>> \in Paths
      BY <1>5
    <3>4. Stops(d, K, x, Entered(walk, names[2]))
      BY <3>1, <3>2, <3>3, EnterDirectory
    <3>5. Failed(d, K, curr, names, Entered(walk, names[2]))
      BY <1>5, <3>2, <3>4 DEF Stops, Failed, Halts
    <3> QED BY <2>1, <3>5
  <2> QED BY <2>2, <2>3, <2>4
<1>6. PICK walk : walk = CHOOSE w : IsWalk(w, start, names)
  OBVIOUS
<1>7. IsWalk(walk, start, names)
  BY <1>5, <1>6, WalkExists DEF Failed
<1>8. traverse_hierachy(At(d, K), names) = walk[Len(names)]
  BY <1>1, <1>6 DEF traverse_hierachy, IsWalk
<1>9. PICK N \in Nat : N = Len(names)
  OBVIOUS
<1>10. ASSUME NEW k \in 0 .. N
       PROVE  walk[k] = IF k = 0 THEN start ELSE Entered(walk[k - 1], names[k])
  BY <1>7, <1>9 DEF IsWalk
<1>11. CASE N = 0
  <2>1. walk[N] = start
    BY <1>10, <1>11
  <2> QED BY <1>2, <1>8, <1>9, <1>11, <2>1 DEF Walks
<1>12. CASE N = 1
  <2>1. walk[0] = start /\ walk[1] = Entered(walk[0], names[1])
    BY <1>10, <1>12
  <2> QED BY <1>4, <1>8, <1>9, <1>12, <2>1 DEF Walks
<1>13. CASE N >= 2
  <2>1. ASSUME NEW k \in Nat, k >= 2, k <= N, k = 2 \/ Failed(d, K, curr, names, walk[k - 1])
        PROVE  Failed(d, K, curr, names, walk[k])
    <3>1. walk[k] = Entered(walk[k - 1], names[k])
      BY <1>10, <2>1
    <3>2. CASE k = 2
      <4>1. walk[0] = start /\ walk[1] = Entered(walk[0], names[1])
        BY <1>10, <1>13
      <4>2. walk[2] = Entered(walk[1], names[2])
        BY <3>1, <3>2
      <4> QED BY <1>5, <1>9, <1>13, <3>2, <4>1, <4>2
    <3>3. CASE Failed(d, K, curr, names, walk[k - 1])
      BY <3>1, <3>3, EndedStays DEF Failed
    <3> QED BY <2>1, <3>2, <3>3
  <2>2. Failed(d, K, curr, names, walk[N])
    <3>1. ASSUME NEW S,
                 S = { k \in Nat : k >= 2 /\ k <= N /\ ~ Failed(d, K, curr, names, walk[k]) },
                 S # {}
          PROVE  FALSE
      <4>1. S \subseteq Nat
        BY <3>1
      <4>2. PICK k \in S : \A other \in S : k <= other
        BY <3>1, <4>1, LeastNatural
      <4>3. k \in Nat /\ k >= 2 /\ k <= N /\ ~ Failed(d, K, curr, names, walk[k])
        BY <3>1, <4>2
      <4>4. CASE k = 2
        BY <2>1, <4>3, <4>4
      <4>5. CASE k # 2
        <5>1. k - 1 \in Nat /\ k - 1 >= 2 /\ k - 1 <= N /\ ~ (k <= k - 1)
          BY <4>3, <4>5
        <5>2. k - 1 \notin S
          BY <4>2, <5>1
        <5>3. Failed(d, K, curr, names, walk[k - 1])
          BY <3>1, <5>1, <5>2
        <5> QED BY <2>1, <4>3, <5>3
      <4> QED BY <4>4, <4>5
    <3>2. N \notin { k \in Nat : k >= 2 /\ k <= N /\ ~ Failed(d, K, curr, names, walk[k]) }
      BY <3>1
    <3> QED BY <1>13, <3>2
  <2> QED BY <1>8, <1>9, <2>2 DEF Walks
<1> QED BY <1>11, <1>12, <1>13

-----------------------------------------------------------------------------

(* The file is on disk e as it was on disk d, or lost its last link; a     *)
(* directory still has its entries.                                        *)
SameFile(d, e, n) ==
  /\ inode_at(e, n).is_directory = inode_at(d, n).is_directory
  /\ inode_at(e, n).file_size = inode_at(d, n).file_size
  /\ Live(e, n) =>
       /\ Live(d, n)
       /\ inode_at(e, n).blocks[0] = inode_at(d, n).blocks[0]
       /\ inode_at(d, n).blocks[0] \in OwnBlocks =>
            e[inode_at(d, n).blocks[0]] = d[inode_at(d, n).blocks[0]]

LEMMA OthersSame ==
  ASSUME NEW d, NEW e, NEW K, NEW L, NEW n \in L, NEW m \in K, m \in L, m # n,
         OthersKept(d, e, K, n), Files(e, L)
  PROVE  SameFile(d, e, m) /\ inode_at(e, m) = inode_at(d, m)
<1>1. inode_at(e, m) = inode_at(d, m)
  BY DEF OthersKept
<1>2. PICK own : own = inode_at(d, m).blocks[0]
  OBVIOUS
<1>3. 0 \in BlockIndex
  BY LayoutNumbers DEF BlockIndex
<1>4. ASSUME own \in OwnBlocks, e[own] # d[own]
      PROVE  FALSE
  <2>1. own \in DataBlockNumbers
    BY <1>4, OwnBlockPlace
  <2>2. PICK k \in BlockIndex : inode_at(e, n).blocks[k] = own
    BY <1>4, <2>1 DEF OthersKept
  <2>3. inode_at(e, m).blocks[0] = own
    BY <1>1, <1>2
  <2> QED BY <1>3, <1>4, <2>2, <2>3 DEF Files, NoneShared
<1>5. Live(e, m) => Live(d, m)
  BY <1>1 DEF Live
<1> QED BY <1>1, <1>2, <1>4, <1>5 DEF SameFile

(* The two cells of an entry are in the first block.                       *)
LEMMA EntryCell ==
  ASSUME NEW c \in Nat, 2 * c <= BLOCK_SIZE, NEW i \in 0 .. c - 1, NEW at \in {2 * i, 2 * i + 1}
  PROVE  at \div BLOCK_SIZE = 0 /\ at % BLOCK_SIZE = at /\ at \in Nat /\ at < 2 * c
<1>1. BLOCK_SIZE \in Nat /\ BLOCK_SIZE > 0
  BY BlockGroupAssumption
<1>2. at \in Nat /\ at < 2 * c /\ at < BLOCK_SIZE
  BY <1>1
<1> QED BY <1>1, <1>2

LEMMA SameEntries ==
  ASSUME EnoughRoom, NEW d, NEW K, NEW curr, NEW gone, Tree(d, K, curr, gone),
         NEW n \in K, NEW e, SameFile(d, e, n), Live(e, n)
  PROVE  /\ Live(d, n)
         /\ EntryCount(e, n) = EntryCount(d, n)
         /\ Entries(e, n) = Entries(d, n)
         /\ \A i \in Entries(d, n) : Entry(e, n, i) = Entry(d, n, i)
<1>1. /\ Live(d, n)
      /\ inode_at(e, n).file_size = inode_at(d, n).file_size
      /\ inode_at(e, n).blocks[0] = inode_at(d, n).blocks[0]
      /\ inode_at(d, n).blocks[0] \in OwnBlocks =>
           e[inode_at(d, n).blocks[0]] = d[inode_at(d, n).blocks[0]]
  BY DEF SameFile
<1>2. EntryCount(e, n) = EntryCount(d, n) /\ Entries(e, n) = Entries(d, n)
  BY <1>1 DEF EntryCount, Entries
<1>3. PICK c \in Nat : /\ c = EntryCount(d, n) /\ 2 * c <= BLOCK_SIZE
                       /\ c > 0 => inode_at(d, n).blocks[0] \in OwnBlocks
  BY <1>1, LiveShape
<1>4. ASSUME NEW i \in Entries(d, n)
      PROVE  Entry(e, n, i) = Entry(d, n, i)
  <2>1. i \in 0 .. c - 1 /\ c > 0
    BY <1>3, <1>4 DEF Entries
  <2>2. PICK b : b = inode_at(d, n).blocks[0]
    OBVIOUS
  <2>3. b \in OwnBlocks /\ Address(b) = b
    BY <1>3, <2>1, <2>2, OwnBlockPlace, BlockNumberPlace
  <2>4. retreive_block_disk_helper(e, b) = retreive_block_disk_helper(d, b)
    BY <1>1, <2>2, <2>3 DEF retreive_block_disk_helper
  <2>5. ASSUME NEW at \in {2 * i, 2 * i + 1}
        PROVE  Byte(e, n, at) = Byte(d, n, at)
    <3>1. at \div BLOCK_SIZE = 0
      BY <1>3, <2>1, EntryCell
    <3> QED BY <1>1, <2>2, <2>4, <3>1 DEF Byte
  <2>6. Byte(e, n, 2 * i) = Byte(d, n, 2 * i) /\ Byte(e, n, 2 * i + 1) = Byte(d, n, 2 * i + 1)
    BY <2>5
  <2> QED BY <2>6 DEF Entry, EntrySize
<1> QED BY <1>1, <1>2, <1>4

(* A file that is empty has no entries.                                    *)
LEMMA NoEntries ==
  ASSUME NEW d, NEW n, inode_at(d, n).file_size = 0
  PROVE  EntryCount(d, n) = 0 /\ Entries(d, n) = {}
<1>1. 0 \div 2 = 0
  OBVIOUS
<1>2. EntryCount(d, n) = 0
  BY <1>1 DEF EntryCount, EntrySize
<1> QED BY <1>2 DEF Entries

(* A tree stays one when empty files without blocks are added and others   *)
(* lose their last link.                                                   *)
GrownTree(d, K, e, L, left) ==
  /\ Records(e) /\ Files(e, L) /\ K \subseteq L
  /\ \A n \in L : n \div NUM_INODES_PER_GROUP \in Groups
  /\ NumbersInOrder(e, L)
  /\ CountsLeft(e)
  /\ DataBitsOf(e) = DataBitsOf(d)
  /\ \A n \in K : SameFile(d, e, n)
  /\ \A n \in L \ K : inode_at(e, n).file_size = 0 /\ inode_at(e, n).blocks[0] = 0
  /\ \A n \in L : inode_at(e, n).hard_link_count > 0 \/ n \in left

LEMMA EntriesAfter ==
  ASSUME EnoughRoom, NEW d, NEW K, NEW curr, NEW gone, Tree(d, K, curr, gone),
         NEW e, NEW L, NEW left, GrownTree(d, K, e, L, left), NEW n \in L, Live(e, n)
  PROVE  /\ n \notin K => EntryCount(e, n) = 0 /\ Entries(e, n) = {}
         /\ n \in K => /\ Live(d, n)
                       /\ EntryCount(e, n) = EntryCount(d, n)
                       /\ Entries(e, n) = Entries(d, n)
                       /\ \A i \in Entries(d, n) :
                            /\ Entry(e, n, i) = Entry(d, n, i)
                            /\ Entry(e, n, i).inode_number \in K
<1>1. CASE n \notin K
  BY <1>1, NoEntries DEF GrownTree
<1>2. CASE n \in K
  <2>1. /\ Live(d, n)
        /\ EntryCount(e, n) = EntryCount(d, n)
        /\ Entries(e, n) = Entries(d, n)
        /\ \A i \in Entries(d, n) : Entry(e, n, i) = Entry(d, n, i)
    BY <1>2, SameEntries DEF GrownTree
  <2>2. \A i \in Entries(d, n) : Entry(d, n, i).inode_number \in K
    BY <1>2, <2>1 DEF Tree, EntriesHold, EntryHolds
  <2> QED BY <1>2, <2>1, <2>2
<1> QED BY <1>1, <1>2

LEMMA TreeGrows ==
  ASSUME EnoughRoom, NEW d, NEW K, NEW curr, NEW gone, Tree(d, K, curr, gone),
         NEW e, NEW L, NEW left, GrownTree(d, K, e, L, left)
  PROVE  Tree(e, L, curr, left)
<1>1. OneBlockEach(e, L)
  <2>1. ASSUME NEW g \in Groups
        PROVE  Sized(e, L, g) = Sized(d, K, g)
    <3>1. \A n \in K : n \in L /\ inode_at(e, n).file_size = inode_at(d, n).file_size
      BY DEF GrownTree, SameFile
    <3>2. \A n \in L \ K : inode_at(e, n).file_size = 0
      BY DEF GrownTree
    <3> QED BY <3>1, <3>2 DEF Sized
  <2> QED BY <2>1 DEF GrownTree, Tree, OneBlockEach
<1>2. WholeEntries(e, L)
  <2>1. ASSUME NEW n \in L, Live(e, n), n \notin K
        PROVE  /\ inode_at(e, n).file_size = EntrySize * EntryCount(e, n)
               /\ root + EntryCount(e, n) \in L
               /\ inode_at(e, n).file_size > 0 => inode_at(e, n).blocks[0] \in OwnBlocks
               /\ inode_at(e, n).file_size = 0 => inode_at(e, n).blocks[0] = 0
    <3>1. inode_at(e, n).file_size = 0 /\ inode_at(e, n).blocks[0] = 0
      BY <2>1 DEF GrownTree
    <3>2. EntryCount(e, n) = 0
      BY <3>1, NoEntries
    <3>3. root + 0 \in L
      BY NumbersOfTree, RootPlace DEF GrownTree
    <3> QED BY <3>1, <3>2, <3>3 DEF EntrySize
  <2>2. ASSUME NEW n \in L, Live(e, n), n \in K
        PROVE  /\ inode_at(e, n).file_size = EntrySize * EntryCount(e, n)
               /\ root + EntryCount(e, n) \in L
               /\ inode_at(e, n).file_size > 0 => inode_at(e, n).blocks[0] \in OwnBlocks
               /\ inode_at(e, n).file_size = 0 => inode_at(e, n).blocks[0] = 0
    <3>1. SameFile(d, e, n) /\ K \subseteq L
      BY <2>2 DEF GrownTree
    <3>2. Live(d, n) /\ EntryCount(e, n) = EntryCount(d, n)
      BY <2>2, EntriesAfter
    <3>3. /\ inode_at(d, n).file_size = EntrySize * EntryCount(d, n)
          /\ root + EntryCount(d, n) \in K
          /\ inode_at(d, n).file_size > 0 => inode_at(d, n).blocks[0] \in OwnBlocks
          /\ inode_at(d, n).file_size = 0 => inode_at(d, n).blocks[0] = 0
      BY <2>2, <3>2 DEF Tree, WholeEntries
    <3> QED BY <2>2, <3>1, <3>2, <3>3 DEF SameFile
  <2> QED BY <2>1, <2>2 DEF WholeEntries
<1>3. EntriesHold(e, L, curr)
  <2>1. ASSUME NEW n \in L, Live(e, n), NEW i \in Entries(e, n)
        PROVE  EntryHolds(e, L, curr, n, Entry(e, n, i))
    <3>1. /\ n \in K /\ Live(d, n) /\ i \in Entries(d, n)
          /\ Entry(e, n, i) = Entry(d, n, i)
      BY <2>1, EntriesAfter
    <3>2. PICK entry : entry = Entry(d, n, i)
      OBVIOUS
    <3>3. EntryHolds(d, K, curr, n, entry)
      BY <3>1, <3>2 DEF Tree, EntriesHold
    <3>4. entry.inode_number \in K /\ K \subseteq L
      BY <3>3 DEF EntryHolds, GrownTree
    <3>5. inode_at(e, entry.inode_number).is_directory = inode_at(d, entry.inode_number).is_directory
      BY <3>4 DEF GrownTree, SameFile
    <3>6. EntryHolds(e, L, curr, n, entry)
      BY <3>3, <3>4, <3>5 DEF EntryHolds
    <3> QED BY <3>1, <3>2, <3>6
  <2> QED BY <2>1 DEF EntriesHold
<1>4. EntriesApart(e, L)
  <2>1. ASSUME NEW m \in L, NEW n \in L, Live(e, m), Live(e, n),
               NEW i \in Entries(e, m), NEW j \in Entries(e, n),
               Entry(e, m, i).inode_number = Entry(e, n, j).inode_number
        PROVE  m = n /\ i = j
    <3>1. /\ m \in K /\ Live(d, m) /\ i \in Entries(d, m)
          /\ Entry(e, m, i) = Entry(d, m, i)
      BY <2>1, EntriesAfter
    <3>2. /\ n \in K /\ Live(d, n) /\ j \in Entries(d, n)
          /\ Entry(e, n, j) = Entry(d, n, j)
      BY <2>1, EntriesAfter
    <3> QED BY <2>1, <3>1, <3>2 DEF Tree, EntriesApart
  <2> QED BY <2>1 DEF EntriesApart
<1>5. curr \in L /\ inode_at(e, curr).is_directory
  <2>1. curr \in K /\ curr \in L /\ inode_at(d, curr).is_directory
    BY DEF Tree, GrownTree
  <2>2. inode_at(e, curr).is_directory = inode_at(d, curr).is_directory
    BY <2>1 DEF GrownTree, SameFile
  <2> QED BY <2>1, <2>2
<1> QED BY <1>1, <1>2, <1>3, <1>4, <1>5 DEF Tree, GrownTree

(* Names are not lost on the way.                                          *)
LEMMA NamesStay ==
  ASSUME EnoughRoom, NEW d, NEW K, NEW curr, NEW gone, Tree(d, K, curr, gone),
         NEW e, NEW L, NEW left, GrownTree(d, K, e, L, left), gone \subseteq left,
         NEW S, AllNamed(d, K, gone, S)
  PROVE  AllNamed(e, L, left, S \cup (L \ K))
<1>1. ASSUME left \cap Directories(e, L) = {}, NEW n \in L \ (S \cup (L \ K))
      PROVE  HasName(e, L, n)
  <2>1. ASSUME NEW m \in K, inode_at(d, m).is_directory
        PROVE  Live(e, m) /\ m \in L /\ m \notin gone
    <3>1. m \in L /\ inode_at(e, m).is_directory = inode_at(d, m).is_directory
      BY <2>1 DEF GrownTree, SameFile
    <3>2. inode_at(e, m).is_directory
      BY <2>1, <3>1
    <3>3. m \notin left
      BY <1>1, <3>1, <3>2 DEF Directories
    <3> QED BY <3>1, <3>2, <3>3 DEF GrownTree, Live
  <2>2. gone \cap Directories(d, K) = {}
    BY <2>1 DEF Directories
  <2>3. n \in K \ S
    BY <1>1
  <2>4. PICK m \in K : Live(d, m) /\ \E i \in Entries(d, m) : Entry(d, m, i).inode_number = n
    BY <2>2, <2>3 DEF AllNamed, HasName
  <2>5. Live(e, m) /\ m \in L
    BY <2>1, <2>4 DEF Live
  <2>6. \E i \in Entries(e, m) : Entry(e, m, i).inode_number = n
    BY <2>4, <2>5, EntriesAfter
  <2> QED BY <2>5, <2>6 DEF HasName
<1> QED BY <1>1 DEF AllNamed

-----------------------------------------------------------------------------

(* Descriptors that stay count what they did.                              *)
LEMMA CountsKept ==
  ASSUME NEW d, NEW e, CountsLeft(d), \A g \in Groups : descriptor(e, g) = descriptor(d, g)
  PROVE  CountsLeft(e)
  BY DEF CountsLeft

(* The slot of a file is not a place of metadata, nor a data block.        *)
LEMMA SlotApart ==
  ASSUME NEW d, Records(d), NEW K \in SUBSET InodeNumbers, Files(d, K), NEW n \in K
  PROVE  /\ SlotOf(n) \in Blocks
         /\ \A g \in Groups : get_starting_block_group_descriptor(g) \in Blocks \ {SlotOf(n)}
         /\ \A b \in OwnBlocks : b \in Blocks \ MetadataBlocks /\ b # 0 /\ b # SlotOf(n)
<1>1. n \in InodeNumbers /\ InodeReadable(d, n) /\ ClearOfData(n)
  BY DEF Files
<1>2. SlotOf(n) \in Blocks /\ SlotOf(n) \notin MetadataBlocks
  BY <1>1, SlotIsOnDisk, SlotPlace
<1>3. SlotOf(n) \notin DataBlockNumbers
  BY <1>1 DEF ClearOfData, SlotOf
<1>4. \A g \in Groups : get_starting_block_group_descriptor(g) \in MetadataBlocks
  BY MetadataPlaces
<1>5. \A g \in Groups : get_starting_block_group_descriptor(g) \in Blocks
  BY HomesApart
<1>6. \A b \in OwnBlocks : b \in DataBlockNumbers
  BY OwnBlockPlace
<1>7. \A b \in OwnBlocks : b \in Blocks \ MetadataBlocks /\ b # 0
  BY <1>6, BlockNumberPlace
<1> QED BY <1>2, <1>3, <1>4, <1>5, <1>6, <1>7

(* What a handler that changes the links of a file, and forgets its blocks *)
(* with the last, makes of a tree.                                         *)
LEMMA LinksChanged ==
  ASSUME EnoughRoom, NEW d, NEW K, NEW curr, NEW gone, Tree(d, K, curr, gone), NEW n \in K,
         NEW f, Records(f), OnlyMetadata(d, f), SameBits(f, d), CountsLeft(f),
         NEW inode \in BlockGroupINode, HasPlace(inode), inode.uid = n,
         inode.file_size = inode_at(d, n).file_size,
         inode.is_directory = inode_at(d, n).is_directory,
         \A k \in BlockIndex : inode.blocks[k] \in {inode_at(d, n).blocks[k], 0},
         inode.hard_link_count > 0 =>
           inode_at(d, n).hard_link_count > 0 /\ inode.blocks = inode_at(d, n).blocks,
         NEW left, gone \subseteq left, inode.hard_link_count > 0 \/ n \in left,
         NEW e, e = FlushInode(f, inode)
  PROVE  /\ GrownTree(d, K, e, K, left)
         /\ inode_at(e, n) = inode
         /\ \A m \in K \ {n} : inode_at(e, m) = inode_at(d, m)
<1>1. Records(d) /\ Files(d, K) /\ K \in SUBSET InodeNumbers
  BY NumbersOfTree DEF Tree
<1>2. /\ Files(e, K)
      /\ OthersKept(d, e, K, n)
      /\ InodeReadable(e, n)
      /\ inode_at(e, n) = inode
  <2>1. inode_at(d, n).file_size \in 0 .. SizeLimit
    BY <1>1 DEF Files
  <2> QED BY <1>1, <2>1, InodeChanged
<1>3. /\ SlotOf(n) \in Blocks
      /\ \A g \in Groups : get_starting_block_group_descriptor(g) \in Blocks \ {SlotOf(n)}
      /\ \A b \in OwnBlocks : b \in Blocks \ MetadataBlocks /\ b # 0 /\ b # SlotOf(n)
  BY <1>1, SlotApart
<1>4. Records(e) /\ SameBits(e, f) /\ \A b \in Blocks : b # SlotOf(n) => e[b] = f[b]
  BY <1>3, StoredInode
<1>5. CountsLeft(e)
  <2>1. \A g \in Groups : descriptor(e, g) = descriptor(f, g)
    BY <1>3, <1>4 DEF descriptor
  <2> QED BY <2>1, CountsKept
<1>6. InodeBitsOf(e) = InodeBitsOf(d) /\ DataBitsOf(e) = DataBitsOf(d)
  BY <1>4 DEF SameBits
<1>7. NumbersInOrder(e, K)
  BY <1>6 DEF Tree, NumbersInOrder
<1>8. \A m \in K \ {n} : SameFile(d, e, m) /\ inode_at(e, m) = inode_at(d, m)
  BY <1>2, OthersSame
<1>9. SameFile(d, e, n)
  <2>1. ASSUME Live(e, n)
        PROVE  /\ Live(d, n)
               /\ inode_at(e, n).blocks[0] = inode_at(d, n).blocks[0]
    <3>1. inode.is_directory /\ inode.hard_link_count > 0
      BY <1>2, <2>1 DEF Live
    <3>2. inode_at(d, n).is_directory
      BY <3>1, Zenon
    <3>3. inode_at(d, n).hard_link_count > 0 /\ inode.blocks = inode_at(d, n).blocks
      BY <3>1
    <3> QED BY <1>2, <3>2, <3>3 DEF Live
  <2>2. ASSUME inode_at(d, n).blocks[0] \in OwnBlocks
        PROVE  e[inode_at(d, n).blocks[0]] = d[inode_at(d, n).blocks[0]]
    <3>1. PICK b \in OwnBlocks : b = inode_at(d, n).blocks[0]
      BY <2>2
    <3>2. b \in Blocks \ MetadataBlocks /\ b # 0 /\ b # SlotOf(n)
      BY <1>3
    <3>3. f[b] = d[b]
      BY <3>2 DEF OnlyMetadata
    <3> QED BY <1>4, <3>1, <3>2, <3>3
  <2> QED BY <1>2, <2>1, <2>2 DEF SameFile
<1>10. \A m \in K : m \div NUM_INODES_PER_GROUP \in Groups
  BY DEF Tree
<1>11. \A m \in K : inode_at(e, m).hard_link_count > 0 \/ m \in left
  BY <1>2, <1>8 DEF Tree
<1>12. \A m \in K : SameFile(d, e, m)
  BY <1>8, <1>9
<1> QED BY <1>2, <1>4, <1>5, <1>6, <1>7, <1>8, <1>10, <1>11, <1>12 DEF GrownTree

(* A link more, for a file that has one.                                   *)
LEMMA LinkKeepsTree ==
  ASSUME EnoughRoom, NEW d, NEW K, NEW curr, NEW gone, Tree(d, K, curr, gone), NEW n \in K,
         inode_at(d, n).hard_link_count > 0, NEW e, e = LinkedDisk(d, n, inode_at(d, n))
  PROVE  /\ GrownTree(d, K, e, K, gone)
         /\ inode_at(e, n) = [inode_at(d, n) EXCEPT
                                !.hard_link_count = inode_at(d, n).hard_link_count + 1]
         /\ \A m \in K \ {n} : inode_at(e, m) = inode_at(d, m)
<1>1. Records(d) /\ Files(d, K) /\ K \in SUBSET InodeNumbers /\ CountsLeft(d)
  BY NumbersOfTree DEF Tree
<1>2. PICK inode : inode = inode_at(d, n)
  OBVIOUS
<1>3. n \in InodeNumbers /\ InodeReadable(d, n) /\ inode.uid = n
  BY <1>1, <1>2, ReadFile
<1>4. inode \in BlockGroupINode /\ HasPlace(inode) /\ SlotOf(n) \in Blocks
  BY <1>1, <1>2, <1>3, ReadablePlace
<1>5. PICK linked : linked = [inode EXCEPT !.hard_link_count = inode.hard_link_count + 1]
  OBVIOUS
<1>6. /\ linked \in BlockGroupINode
      /\ linked.uid = n
      /\ linked.blocks = inode.blocks
      /\ linked.file_size = inode.file_size
      /\ linked.is_directory = inode.is_directory
      /\ linked.hard_link_count > 0
  BY <1>2, <1>3, <1>4, <1>5 DEF BlockGroupINode
<1>7. HasPlace(linked)
  BY <1>4, <1>6, <1>3 DEF HasPlace
<1>8. e = FlushInode(FlushInode(d, linked), linked)
  BY <1>2, <1>4, <1>5, <1>6 DEF LinkedDisk, FlushInode, write_inode_info, BlockGroupINode
<1>9. e = FlushInode(d, linked)
  <2>1. \A b, c : write_block_disk_helper(write_block_disk_helper(d, b, c), b, c)
                    = write_block_disk_helper(d, b, c)
    <3>1. d \in [Blocks -> Content]
      BY <1>1 DEF Records, Sound
    <3>2. ASSUME NEW b, NEW c
          PROVE  write_block_disk_helper(write_block_disk_helper(d, b, c), b, c)
                   = write_block_disk_helper(d, b, c)
      <4>1. CASE ~ Readable(b)
        BY <4>1 DEF write_block_disk_helper
      <4>2. CASE Readable(b)
        <5>1. PICK f : f = [d EXCEPT ![Address(b)] = c]
          OBVIOUS
        <5>2. write_block_disk_helper(d, b, c) = f
          BY <4>2, <5>1 DEF write_block_disk_helper
        <5>3. f = [f EXCEPT ![Address(b)] = c]
          BY <3>1, <4>2, <5>1 DEF Readable
        <5>4. write_block_disk_helper(f, b, c) = f
          BY <4>2, <5>3 DEF write_block_disk_helper
        <5> QED BY <5>2, <5>4
      <4> QED BY <4>1, <4>2
    <3> QED BY <3>2
  <2> QED BY <1>8, <2>1 DEF FlushInode
<1>10. OnlyMetadata(d, d) /\ SameBits(d, d)
  BY NothingChanged
<1>11. /\ GrownTree(d, K, e, K, gone)
       /\ inode_at(e, n) = linked
       /\ \A m \in K \ {n} : inode_at(e, m) = inode_at(d, m)
  BY <1>1, <1>2, <1>6, <1>7, <1>9, <1>10, LinksChanged
<1> QED BY <1>2, <1>5, <1>11

(* The count of a descriptor goes down by one as long as MaxDeletions      *)
(* allows a deletion.                                                      *)
LEMMA CountedDown ==
  ASSUME NEW N \in Nat, NEW M \in Nat, NEW S \in Nat, M < N, N < S,
         NEW count \in N - M .. N, (N - count) % S < M
  PROVE  (count + S - 1) % S \in N - M .. N
<1>1. N - count \in 0 .. S - 1 /\ count \in Nat /\ count >= 1 /\ count < S
  OBVIOUS
<1>2. (N - count) % S = N - count
  BY <1>1
<1>3. (count + S - 1) % S = count - 1
  BY <1>1
<1> QED BY <1>1, <1>2, <1>3

(* A link less; the last one is counted in the descriptor.                 *)
LEMMA DeletionKeepsTree ==
  ASSUME EnoughRoom, NEW d, NEW K, NEW curr, NEW gone, Tree(d, K, curr, gone), NEW n \in K,
         inode_at(d, n).hard_link_count = 1 =>
           DeletionsIn(d, n \div NUM_INODES_PER_GROUP) < MaxDeletions,
         NEW e, e = DeletedDisk(d, n, inode_at(d, n)),
         NEW left, left = gone \cup { m \in K : Attached(d, m) /\ ~Attached(e, m) }
  PROVE  /\ GrownTree(d, K, e, K, left)
         /\ inode_at(e, n).is_directory = inode_at(d, n).is_directory
         /\ inode_at(e, n).inode_mode = inode_at(d, n).inode_mode
         /\ inode_at(e, n).hard_link_count <= inode_at(d, n).hard_link_count
         /\ \A m \in K \ {n} : inode_at(e, m) = inode_at(d, m)
<1>1. Records(d) /\ Files(d, K) /\ K \in SUBSET InodeNumbers /\ CountsLeft(d)
  BY NumbersOfTree DEF Tree
<1>2. PICK inode : inode = inode_at(d, n)
  OBVIOUS
<1>3. n \in InodeNumbers /\ InodeReadable(d, n) /\ inode.uid = n
  BY <1>1, <1>2, ReadFile
<1>4. inode \in BlockGroupINode /\ HasPlace(inode) /\ SlotOf(n) \in Blocks
  BY <1>1, <1>2, <1>3, ReadablePlace
<1>5. inode.hard_link_count \in Nat
  BY <1>4 DEF BlockGroupINode
<1>6. OnlyMetadata(d, d) /\ SameBits(d, d)
  BY NothingChanged
<1>7. gone \subseteq left
  OBVIOUS
<1>8. CASE inode.hard_link_count = 0
  <2>1. e = FlushInode(d, inode)
    BY <1>2, <1>5, <1>8 DEF DeletedDisk
  <2>2. n \in left
    BY <1>2, <1>5, <1>8 DEF Tree
  <2>3. /\ GrownTree(d, K, e, K, left)
        /\ inode_at(e, n) = inode
        /\ \A m \in K \ {n} : inode_at(e, m) = inode_at(d, m)
    BY <1>1, <1>2, <1>3, <1>4, <1>5, <1>6, <1>7, <1>8, <2>1, <2>2, LinksChanged
  <2> QED BY <1>2, <1>5, <2>3
<1>9. CASE inode.hard_link_count > 1
  <2>1. PICK less : less = [inode EXCEPT !.hard_link_count = inode.hard_link_count - 1]
    OBVIOUS
  <2>2. e = FlushInode(d, less)
    BY <1>2, <1>4, <1>5, <1>9, <2>1 DEF DeletedDisk, BlockGroupINode
  <2>3. /\ less \in BlockGroupINode
        /\ less.uid = n
        /\ less.blocks = inode.blocks
        /\ less.file_size = inode.file_size
        /\ less.is_directory = inode.is_directory
        /\ less.inode_mode = inode.inode_mode
        /\ less.hard_link_count = inode.hard_link_count - 1
    BY <1>3, <1>4, <1>5, <1>9, <2>1 DEF BlockGroupINode
  <2>4. HasPlace(less)
    BY <1>3, <1>4, <2>3 DEF HasPlace
  <2>5. less.hard_link_count > 0
    BY <1>5, <1>9, <2>3
  <2>6. \A k \in BlockIndex : less.blocks[k] \in {inode_at(d, n).blocks[k], 0}
    BY <1>2, <2>3
  <2>7. inode_at(d, n).hard_link_count > 0 /\ less.blocks = inode_at(d, n).blocks
    BY <1>2, <1>5, <1>9, <2>3
  <2>8. less.file_size = inode_at(d, n).file_size /\ less.is_directory = inode_at(d, n).is_directory
    BY <1>2, <2>3
  <2>9. /\ GrownTree(d, K, e, K, left)
        /\ inode_at(e, n) = less
        /\ \A m \in K \ {n} : inode_at(e, m) = inode_at(d, m)
    BY <1>1, <1>6, <1>7, <2>2, <2>3, <2>4, <2>5, <2>6, <2>7, <2>8, LinksChanged
  <2> QED BY <1>2, <1>5, <2>3, <2>9
<1>10. CASE inode.hard_link_count = 1
  <2>1. PICK g : g = n \div NUM_INODES_PER_GROUP /\ g \in Groups
    BY DEF Tree
  <2>2. PICK r, home : /\ r = read_block_descriptor(d, g)
                       /\ home = get_starting_block_group_descriptor(g)
    OBVIOUS
  <2>3. PICK count : count = (r.free_inodes_count + COUNT_SPAN - 1) % COUNT_SPAN
    OBVIOUS
  <2>4. PICK counted : counted = [r EXCEPT !.free_inodes_count = count]
    OBVIOUS
  <2>5. PICK forgotten :
          forgotten = [inode EXCEPT !.hard_link_count = 0, !.blocks = [k \in BlockIndex |-> 0]]
    OBVIOUS
  <2>6. PICK f : f = FlushRecord(d, counted)
    OBVIOUS
  <2>7. g \in Nat /\ home < OFFSET_SPAN /\ home \in Blocks
    BY <2>1, <2>2, HomesApart, GroupsAreNumbers, LayoutNumbers DEF Blocks
  <2>8. r \in BlockGroupDescriptor /\ r.block_number = home /\ r = descriptor(d, g)
    BY <1>1, <2>1, <2>2, <2>7, ReadDescriptor DEF Records
  <2>9. /\ r.free_blocks_count # 0
        /\ r.free_inodes_count \in NUM_INODES_PER_GROUP - MaxDeletions .. NUM_INODES_PER_GROUP
    BY <1>1, <2>1, <2>8 DEF CountsLeft
  <2>10. count \in NUM_INODES_PER_GROUP - MaxDeletions .. NUM_INODES_PER_GROUP
    <3>1. (NUM_INODES_PER_GROUP - r.free_inodes_count) % COUNT_SPAN < MaxDeletions
      BY <1>2, <1>10, <2>1, <2>2 DEF DeletionsIn
    <3>2. /\ NUM_INODES_PER_GROUP \in Nat /\ MaxDeletions \in Nat /\ COUNT_SPAN \in Nat
          /\ NUM_INODES_PER_GROUP < COUNT_SPAN
      BY LayoutNumbers, Ex2Assumption, BlockGroupAssumption
    <3> QED BY <2>3, <2>9, <3>1, <3>2, CountedDown DEF EnoughRoom
  <2>11. count \in Count
    BY <2>10, LayoutNumbers, Ex2Assumption, BlockGroupAssumption DEF Count, EnoughRoom
  <2>12. /\ counted \in BlockGroupDescriptor /\ counted.block_number = home
         /\ counted.free_inodes_count = count
         /\ counted.free_blocks_count = r.free_blocks_count
    BY <2>4, <2>8, <2>11 DEF BlockGroupDescriptor
  <2>13. e = FlushInode(f, forgotten)
    BY <1>2, <1>10, <2>1, <2>2, <2>3, <2>4, <2>5, <2>6, <2>8 DEF DeletedDisk, BlockGroupDescriptor
  <2>14. counted \in Content /\ d \in [Blocks -> Content]
    BY <1>1, <2>12, ContentKinds DEF Records, Sound
  <2>15. Sound(f) /\ SameBits(f, d) /\ OnlyMetadata(d, f)
    BY <1>1, <2>1, <2>2, <2>6, <2>12, <2>14, FlushDescriptor, DescriptorMetadata DEF Records
  <2>16. Records(f)
    BY <1>1, <2>15, ChangeMetadata
  <2>17. CountsLeft(f)
    <3>1. \A b \in Blocks : f[b] = IF b = home THEN counted ELSE d[b]
      BY <2>6, <2>7, <2>12, <2>14, FlushHome
    <3>2. ASSUME NEW h \in Groups
          PROVE  /\ descriptor(f, h).free_blocks_count # 0
                 /\ descriptor(f, h).free_inodes_count
                      \in NUM_INODES_PER_GROUP - MaxDeletions .. NUM_INODES_PER_GROUP
      <4>1. get_starting_block_group_descriptor(h) \in Blocks
        BY HomesApart
      <4>2. descriptor(f, h) = counted \/ descriptor(f, h) = descriptor(d, h)
        BY <3>1, <4>1 DEF descriptor
      <4> QED BY <1>1, <2>9, <2>10, <2>12, <4>2 DEF CountsLeft
    <3> QED BY <3>2 DEF CountsLeft
  <2>18. /\ forgotten \in BlockGroupINode
         /\ forgotten.uid = n
         /\ forgotten.hard_link_count = 0
         /\ forgotten.blocks = [k \in BlockIndex |-> 0]
         /\ forgotten.file_size = inode.file_size
         /\ forgotten.is_directory = inode.is_directory
         /\ forgotten.inode_mode = inode.inode_mode
    <3>1. [k \in BlockIndex |-> 0] \in [BlockIndex -> Int]
      OBVIOUS
    <3> QED BY <1>3, <1>4, <2>5, <3>1 DEF BlockGroupINode
  <2>19. HasPlace(forgotten)
    BY <1>3, <1>4, <2>18 DEF HasPlace
  <2>20. Records(e) /\ inode_at(e, n) = forgotten
    BY <1>4, <2>13, <2>16, <2>18, <2>19, StoredInode
  <2>21. n \in left
    BY <1>2, <1>3, <1>10, <2>18, <2>20 DEF Attached
  <2>22. \A k \in BlockIndex : forgotten.blocks[k] \in {inode_at(d, n).blocks[k], 0}
    BY <2>18
  <2>23. /\ GrownTree(d, K, e, K, left)
         /\ \A m \in K \ {n} : inode_at(e, m) = inode_at(d, m)
    BY <1>2, <1>7, <2>13, <2>15, <2>16, <2>17, <2>18, <2>19, <2>21, <2>22, LinksChanged
  <2> QED BY <1>2, <1>10, <2>18, <2>20, <2>23
<1> QED BY <1>5, <1>8, <1>9, <1>10

-----------------------------------------------------------------------------

(* No descriptor changes when a bit of a map is taken.                     *)
LEMMA TakenDescriptors ==
  ASSUME NEW d, Sound(d), NEW g \in Groups, NEW map, NEW range,
         map \in {get_starting_block_bitmap(g), get_starting_block_inode_bitmap(g)}
  PROVE  \A h \in Groups : descriptor(TakeLowestBit(d, map, range).disk, h) = descriptor(d, h)
<1>1. PICK taken : taken = TakeLowestBit(d, map, range)
  OBVIOUS
<1>2. map \in Blocks
  BY HomesApart
<1>3. Address(map) = map
  BY <1>2, BlocksReadable
<1>4. PICK bits : taken.disk = FlushRecord(d, [d[map] EXCEPT !.bits = bits])
  BY <1>1, <1>3 DEF TakeLowestBit
<1>5. PICK r : r = [d[map] EXCEPT !.bits = bits]
  OBVIOUS
<1>6. r.block_number = map
  <2>1. inode_bitmap(d, g).block_number = get_starting_block_inode_bitmap(g)
        /\ block_bitmap(d, g).block_number = get_starting_block_bitmap(g)
        /\ inode_bitmap(d, g) \in BitMapBlock /\ block_bitmap(d, g) \in BitMapBlock
    BY DEF Sound, MetadataAtHome
  <2>2. d[map] \in BitMapBlock /\ d[map].block_number = map
    BY <2>1 DEF inode_bitmap, block_bitmap
  <2> QED BY <1>5, <2>2 DEF BitMapBlock
<1>7. ASSUME NEW h \in Groups
      PROVE  descriptor(taken.disk, h) = descriptor(d, h)
  <2>1. PICK home : home = get_starting_block_group_descriptor(h)
    OBVIOUS
  <2>2. home \in Blocks /\ home # map
    BY <2>1, HomesApart
  <2>3. taken.disk = IF Readable(map) THEN [d EXCEPT ![map] = r] ELSE d
    BY <1>3, <1>4, <1>5, <1>6 DEF FlushRecord, write_block_disk_helper
  <2>4. d \in [Blocks -> Content]
    BY DEF Sound
  <2> QED BY <2>1, <2>2, <2>3, <2>4 DEF descriptor
<1> QED BY <1>1, <1>7

(* The first group always has an inode.                                    *)
LEMMA FirstGroupServes ==
  ASSUME EnoughRoom, NEW d, Records(d), CountsLeft(d)
  PROVE  0 \in GroupsWithInodes(d) /\ FirstGroup(d) = 0
<1>1. /\ NUM_INODES_PER_GROUP \in Nat
      /\ MaxDeletions \in Nat /\ MaxDeletions < NUM_INODES_PER_GROUP
  BY Ex2Assumption, LayoutNumbers DEF EnoughRoom
<1>2. 0 \in Groups /\ Groups \subseteq Nat
  BY RootPlace, GroupsAreNumbers
<1>3. 0 \in GroupsWithInodes(d)
  <2>1. descriptor(d, 0).free_inodes_count
          \in NUM_INODES_PER_GROUP - MaxDeletions .. NUM_INODES_PER_GROUP
    BY <1>2 DEF CountsLeft
  <2>2. get_starting_block_group_descriptor(0) \in Blocks
    BY <1>2, HomesApart
  <2>3. get_starting_block_group_descriptor(0) < OFFSET_SPAN
    BY <2>2, LayoutNumbers DEF Blocks
  <2>4. read_block_descriptor(d, 0) = descriptor(d, 0)
    BY <1>2, <2>3, ReadDescriptor DEF Records
  <2> QED BY <1>1, <1>2, <2>1, <2>4 DEF GroupsWithInodes
<1>4. FirstGroup(d) = 0
  <2>1. GroupsWithInodes(d) \subseteq Nat
    BY <1>2 DEF GroupsWithInodes
  <2>2. \A h \in GroupsWithInodes(d) : 0 <= h
    BY <2>1
  <2>3. PICK g : g = FirstGroup(d)
    OBVIOUS
  <2>4. g \in GroupsWithInodes(d) /\ \A h \in GroupsWithInodes(d) : g <= h
    BY <1>3, <2>2, <2>3 DEF FirstGroup
  <2>5. g \in Nat /\ g <= 0
    BY <1>3, <2>1, <2>4
  <2> QED BY <2>3, <2>5
<1> QED BY <1>3, <1>4

(* In a tree the next number is given out, out of the first group.         *)
LEMMA VacantOfTree ==
  ASSUME EnoughRoom, NEW d, NEW K, NEW curr, NEW gone, Tree(d, K, curr, gone),
         NEW n, n = VacantInode(d).ret, Cardinality(K \cup {n}) <= MaxFiles
  PROVE  /\ GroupsWithInodes(d) # {} /\ FirstGroup(d) = 0
         /\ n \in InodeNumbers
         /\ \E k \in 1 .. MaxFiles - 1 :
              /\ K = root .. root + k - 1
              /\ InodeBitsOf(d)[0] = 0 .. k - 1
              /\ n = root + k
              /\ InodeBitsOf(VacantInode(d).disk)[0] = 0 .. k
<1>1. PICK k \in 1 .. MaxFiles : K = root .. root + k - 1 /\ InodeBitsOf(d)[0] = 0 .. k - 1
  BY NumbersOfTree
<1>2. /\ k \in Nat /\ k >= 1 /\ MaxFiles \in Nat /\ MaxFiles <= NUM_INODES_PER_GROUP
      /\ NUM_INODES_PER_GROUP \in Nat /\ MaxDeletions \in Nat /\ MaxDeletions < NUM_INODES_PER_GROUP
  BY Ex2Assumption, LayoutNumbers DEF EnoughRoom
<1>3. 0 \in Groups /\ Groups \subseteq Nat /\ root \in Nat /\ root > 0
  BY RootPlace, GroupsAreNumbers
<1>4. 0 \in GroupsWithInodes(d)
  BY FirstGroupServes DEF Tree
<1>5. FirstGroup(d) = 0
  BY FirstGroupServes DEF Tree
<1>6. /\ n \in InodeNumbers
      /\ \/ /\ InodeMapFull(d, 0)
            /\ n = ExhaustedInode(0)
         \/ \E bit \in InodeBits \ InodeBitsOf(d)[0] :
              /\ \A lower \in InodeBits : lower < bit => lower \in InodeBitsOf(d)[0]
              /\ n = InodeNumber(0, bit)
              /\ InodeBitsOf(VacantInode(d).disk) = [InodeBitsOf(d) EXCEPT ![0] = @ \cup {bit}]
  BY <1>4, <1>5, VacantFound DEF Tree
<1>7. ASSUME NEW m, m \in Int, m \notin K
      PROVE  Cardinality(K \cup {m}) = k + 1
  <2>1. IsFiniteSet(K)
    BY NumbersOfTree
  <2>2. PICK a, b : a \in Int /\ b \in Int /\ a = root /\ b = root + k - 1
    BY <1>2, <1>3
  <2>3. Cardinality(a .. b) = IF a > b THEN 0 ELSE b - a + 1
    BY <2>2, FS_Interval
  <2>4. Cardinality(K) = k
    BY <1>1, <1>2, <1>3, <2>2, <2>3
  <2>5. Cardinality(K \cup {m}) = Cardinality(K) + 1
    BY <2>1, <1>7, FS_AddElement
  <2> QED BY <2>4, <2>5
<1>8. ASSUME InodeMapFull(d, 0), n = ExhaustedInode(0)
      PROVE  FALSE
  <2>1. n = root - 1
    BY <1>8, <1>3, RootPlace DEF ExhaustedInode
  <2>2. Cardinality(K \cup {n}) = k + 1
    <3>1. n \in Int /\ n \notin K
      BY <1>1, <1>2, <1>3, <2>1
    <3> QED BY <1>7, <3>1
  <2>3. InodeBits \subseteq InodeBitsOf(d)[0]
    BY <1>3, <1>8, FullInodeMap
  <2>4. NUM_INODES_PER_GROUP - 1 \in InodeBits /\ NUM_INODES_PER_GROUP > 2
    BY LayoutNumbers DEF InodeBits
  <2>5. NUM_INODES_PER_GROUP - 1 \in 0 .. k - 1
    BY <1>1, <2>3, <2>4
  <2> QED BY <1>2, <2>2, <2>5
<1>9. PICK bit \in InodeBits \ InodeBitsOf(d)[0] :
        /\ \A lower \in InodeBits : lower < bit => lower \in InodeBitsOf(d)[0]
        /\ n = InodeNumber(0, bit)
        /\ InodeBitsOf(VacantInode(d).disk) = [InodeBitsOf(d) EXCEPT ![0] = @ \cup {bit}]
  BY <1>6, <1>8
<1>10. bit = k
  <2>1. bit \in Nat /\ bit < NUM_INODES_PER_GROUP /\ bit \notin 0 .. k - 1
    BY <1>1, <1>2, <1>9 DEF InodeBits
  <2>2. ASSUME k < bit PROVE FALSE
    <3>1. k \in InodeBits
      BY <1>2, <2>1, <2>2 DEF InodeBits
    <3>2. k \in 0 .. k - 1
      BY <1>1, <1>9, <2>2, <3>1
    <3> QED BY <1>2, <3>2
  <2> QED BY <1>2, <2>1, <2>2
<1>11. n = root + k
  BY <1>2, <1>9, <1>10, RootPlace
<1>12. k + 1 <= MaxFiles
  <2>1. Cardinality(K \cup {n}) = k + 1
    <3>1. n \in Int /\ n \notin K
      BY <1>1, <1>2, <1>3, <1>11
    <3> QED BY <1>7, <3>1
  <2> QED BY <2>1
<1>13. InodeBitsOf(VacantInode(d).disk)[0] = 0 .. k
  <2>1. InodeBitsOf(VacantInode(d).disk)[0] = InodeBitsOf(d)[0] \cup {bit}
    BY <1>3, <1>9 DEF InodeBitsOf
  <2> QED BY <1>1, <1>2, <1>10, <2>1
<1>14. k \in 1 .. MaxFiles - 1
  BY <1>2, <1>12
<1> QED BY <1>1, <1>4, <1>5, <1>6, <1>11, <1>13, <1>14

(* What create_file does on a disk whose first group has the next inode.   *)
FileMade(d, K, e, n, is_directory) ==
  /\ Records(e) /\ Files(e, K \cup {n})
  /\ CountsLeft(e)
  /\ InodeBitsOf(e) = InodeBitsOf(VacantInode(d).disk)
  /\ DataBitsOf(e) = DataBitsOf(d)
  /\ n \div NUM_INODES_PER_GROUP \in Groups
  /\ inode_at(e, n).is_directory = is_directory
  /\ inode_at(e, n).file_size = 0 /\ inode_at(e, n).blocks[0] = 0
  /\ inode_at(e, n).hard_link_count = 1
  /\ \A m \in K : SameFile(d, e, m) /\ inode_at(e, m) = inode_at(d, m)

LEMMA FileIsMade ==
  ASSUME NEW d, Records(d), NEW K, Files(d, K), CountsLeft(d),
         GroupsWithInodes(d) # {}, FirstGroup(d) = 0,
         NEW n, n = VacantInode(d).ret, n \in InodeNumbers, n \notin K,
         InodeReadable(d, n), NEW mode \in SUBSET Permissions, NEW is_directory \in BOOLEAN,
         NEW e, e = CreatedDisk(d, inode_at(d, n), mode, is_directory)
  PROVE  FileMade(d, K, e, n, is_directory)
<1>1. Records(d) /\ Files(d, K) /\ CountsLeft(d)
  OBVIOUS
<1>2. GroupsWithInodes(d) # {} /\ FirstGroup(d) = 0 /\ n \in InodeNumbers
  OBVIOUS
<1>3. n \notin K
  OBVIOUS
<1>4. PICK L : L = K \cup {n}
  OBVIOUS
<1>5. PICK inode, made : /\ inode = inode_at(d, n)
                         /\ made = set_vacant_inode(inode, mode, is_directory)
  OBVIOUS
<1>6. inode \in BlockGroupINode /\ HasPlace(inode) /\ inode \in InodeRead(d, n)
  BY <1>1, <1>2, <1>5, ReadablePlace DEF InodeRead, read_inode_info
<1>7. Records(e) /\ Creates(d, e, n, made)
  <2>1. e = CreatedDisk(d, inode, mode, is_directory)
    BY <1>5
  <2>2. Creates(d, e, n, set_vacant_inode(inode, mode, is_directory))
    BY <1>1, <1>2, <1>6, <2>1, CreateFile
  <2> QED BY <1>5, <2>2 DEF Creates
<1>8. /\ Files(e, L)
      /\ OthersKept(d, e, K, n)
      /\ inode_at(e, n) = made
      /\ n \div NUM_INODES_PER_GROUP \in Groups
  BY <1>1, <1>4, <1>7 DEF Creates
<1>9. Unused(inode) /\ inode.uid = n
  <2>1. Unused(inode)
    BY <1>1, <1>2, <1>3, <1>5 DEF Files
  <2>2. InodesAtHome(d)
    BY <1>1 DEF Files
  <2> QED BY <1>1, <1>2, <1>5, <2>1, <2>2, NamesItself
<1>10. /\ made \in BlockGroupINode
       /\ made.uid = n
       /\ made.blocks = inode.blocks
       /\ made.file_size = 0
       /\ made.hard_link_count = 1
       /\ made.is_directory = is_directory
  <2>1. inode.hard_link_count + 1 = 1 /\ 1 \in Nat /\ 0 \in Int
    BY <1>9 DEF Unused
  <2>2. made = [inode EXCEPT !.hard_link_count = 1, !.file_size = 0,
                             !.inode_mode = mode, !.is_directory = is_directory]
    BY <1>5, <1>6, <2>1 DEF set_vacant_inode, BlockGroupINode
  <2>3. /\ made.kind = "inode" /\ made.uid = n
        /\ made.blocks = inode.blocks
        /\ made.file_size = 0
        /\ made.hard_link_count = 1
        /\ made.is_directory = is_directory
    BY <1>6, <1>9, <2>2 DEF BlockGroupINode
  <2>4. made \in BlockGroupINode
    BY <1>6, <1>9, <2>1, <2>2 DEF BlockGroupINode
  <2> QED BY <2>3, <2>4
<1>11. made.blocks[0] = 0
  <2>1. 0 \in BlockIndex
    BY LayoutNumbers DEF BlockIndex
  <2> QED BY <1>9, <1>10, <2>1 DEF Unused
<1>12. \A m \in K : SameFile(d, e, m) /\ inode_at(e, m) = inode_at(d, m)
  BY <1>3, <1>4, <1>8, OthersSame
<1>13. PICK found, f, r : /\ found = VacantInode(d).disk
                          /\ f = FlushInode(found, made)
                          /\ r = read_block_descriptor(d, 0)
  OBVIOUS
<1>14. e = FlushRecord(f, r)
  BY <1>2, <1>5, <1>13 DEF CreatedDisk
<1>15. 0 \in Groups /\ 0 \in Nat
  BY RootPlace
<1>16. /\ Records(found)
       /\ DataBitsOf(found) = DataBitsOf(d)
       /\ \A g \in Groups : descriptor(found, g) = descriptor(d, g)
  <2>1. Records(found) /\ DataBitsOf(found) = DataBitsOf(d)
    BY <1>1, <1>2, <1>13, VacantFound
  <2>2. read_block_descriptor(d, 0).free_inodes_count # 0
    BY <1>2, FirstGroupCounts
  <2>3. found = TakeLowestBit(d, get_starting_block_inode_bitmap(0), InodeBits).disk
    BY <1>2, <1>13, <2>2 DEF VacantInode, find_first_empty_inode
  <2>4. Sound(d)
    BY <1>1 DEF Records
  <2> QED BY <1>15, <2>1, <2>3, <2>4, TakenDescriptors
<1>17. SlotOf(n) \in Blocks /\ SlotOf(n) \notin MetadataBlocks
  <2>1. SlotOf(n) \in Blocks
    BY <1>1, <1>2, SlotIsOnDisk
  <2> QED BY <1>2, <2>1, SlotPlace
<1>18. HasPlace(made)
  BY <1>2, <1>10 DEF HasPlace
<1>19. /\ Records(f) /\ SameBits(f, found)
       /\ \A b \in Blocks : b # SlotOf(n) => f[b] = found[b]
  BY <1>10, <1>13, <1>16, <1>17, <1>18, StoredInode
<1>20. \A g \in Groups : descriptor(f, g) = descriptor(d, g)
  <2>1. ASSUME NEW g \in Groups
        PROVE  descriptor(f, g) = descriptor(found, g)
    <3>1. /\ get_starting_block_group_descriptor(g) \in Blocks
          /\ get_starting_block_group_descriptor(g) \in MetadataBlocks
      BY HomesApart, MetadataPlaces
    <3> QED BY <1>17, <1>19, <3>1 DEF descriptor
  <2> QED BY <1>16, <2>1
<1>21. PICK home : home = get_starting_block_group_descriptor(0) /\ home \in Blocks
  BY <1>15, HomesApart
<1>22. r \in BlockGroupDescriptor /\ r.block_number = home /\ r = descriptor(d, 0)
  <2>1. home < OFFSET_SPAN
    BY <1>21, LayoutNumbers DEF Blocks
  <2> QED BY <1>1, <1>13, <1>15, <1>21, <2>1, ReadDescriptor DEF Records
<1>23. \A b \in Blocks : e[b] = f[b]
  <2>1. f \in [Blocks -> Content] /\ r \in Content
    BY <1>19, <1>22, ContentKinds DEF Records, Sound
  <2>2. \A b \in Blocks : e[b] = IF b = home THEN r ELSE f[b]
    BY <1>14, <1>21, <1>22, <2>1, FlushHome
  <2>3. f[home] = r
    BY <1>15, <1>20, <1>21, <1>22 DEF descriptor
  <2> QED BY <2>2, <2>3
<1>24. CountsLeft(e)
  <2>1. \A g \in Groups : descriptor(e, g) = descriptor(d, g)
    BY <1>20, <1>23, HomesApart DEF descriptor
  <2> QED BY <1>1, <2>1, CountsKept
<1>25. InodeBitsOf(e) = InodeBitsOf(found) /\ DataBitsOf(e) = DataBitsOf(d)
  <2>1. Sound(f)
    BY <1>19 DEF Records
  <2>2. SameBits(e, f)
    BY <1>14, <1>15, <1>21, <1>22, <2>1, FlushDescriptor
  <2> QED BY <1>16, <1>19, <2>2 DEF SameBits
<1>26. /\ inode_at(e, n).is_directory = is_directory
       /\ inode_at(e, n).file_size = 0 /\ inode_at(e, n).blocks[0] = 0
       /\ inode_at(e, n).hard_link_count = 1
  BY <1>8, <1>10, <1>11, Zenon
<1>27. InodeBitsOf(e) = InodeBitsOf(VacantInode(d).disk)
  BY <1>13, <1>25
<1> QED BY <1>4, <1>7, <1>8, <1>12, <1>24, <1>25, <1>26, <1>27 DEF FileMade

(* A new file is empty, has the next number, and nobody names it yet.      *)
FileAdded(d, K, e, n, is_directory, L, gone) ==
  /\ GrownTree(d, K, e, L, gone)
  /\ n \notin K
  /\ \A m \in K : m < n
  /\ inode_at(e, n).is_directory = is_directory
  /\ \A m \in K : inode_at(e, m) = inode_at(d, m)
  /\ \A c \in Nat : root + c \in K => root + c + 1 \in L

LEMMA CreateKeepsTree ==
  ASSUME EnoughRoom, NEW d, NEW K, NEW curr, NEW gone, Tree(d, K, curr, gone),
         NEW n, n = VacantInode(d).ret, Cardinality(K \cup {n}) <= MaxFiles,
         InodeReadable(d, n), NEW mode \in SUBSET Permissions, NEW is_directory \in BOOLEAN,
         NEW e, e = CreatedDisk(d, inode_at(d, n), mode, is_directory), NEW L, L = K \cup {n}
  PROVE  FileAdded(d, K, e, n, is_directory, L, gone)
<1>1. Records(d) /\ Files(d, K) /\ K \in SUBSET InodeNumbers /\ CountsLeft(d)
  BY NumbersOfTree DEF Tree
<1>2. PICK k \in 1 .. MaxFiles - 1 :
        /\ K = root .. root + k - 1
        /\ InodeBitsOf(d)[0] = 0 .. k - 1
        /\ n = root + k
        /\ InodeBitsOf(VacantInode(d).disk)[0] = 0 .. k
  BY VacantOfTree
<1>3. GroupsWithInodes(d) # {} /\ FirstGroup(d) = 0 /\ n \in InodeNumbers
  BY VacantOfTree
<1>4. k \in Nat /\ k >= 1 /\ root \in Nat /\ MaxFiles \in Nat
  BY RootPlace, Ex2Assumption
<1>5. n \notin K /\ (\A m \in K : m < n)
  BY <1>2, <1>4
<1>6. L = root .. root + (k + 1) - 1 /\ k + 1 \in 1 .. MaxFiles
  BY <1>2, <1>4
<1>7. \A c \in Nat : root + c \in K => root + c + 1 \in L
  BY <1>2, <1>4, <1>6
<1>8. FileMade(d, K, e, n, is_directory)
  BY <1>1, <1>3, <1>5, FileIsMade
<1>9. /\ Records(e) /\ Files(e, L)
      /\ CountsLeft(e)
      /\ InodeBitsOf(e)[0] = 0 .. (k + 1) - 1
      /\ DataBitsOf(e) = DataBitsOf(d)
      /\ n \div NUM_INODES_PER_GROUP \in Groups
  <2>1. 0 .. (k + 1) - 1 = 0 .. k
    BY <1>4
  <2> QED BY <1>2, <1>8, <2>1 DEF FileMade
<1>10. \A m \in K : SameFile(d, e, m) /\ inode_at(e, m) = inode_at(d, m)
  BY <1>8 DEF FileMade
<1>11. NumbersInOrder(e, L)
  BY <1>6, <1>9 DEF NumbersInOrder
<1>12. \A m \in L : m \div NUM_INODES_PER_GROUP \in Groups
  BY <1>9 DEF Tree
<1>13. \A m \in L \ K : inode_at(e, m).file_size = 0 /\ inode_at(e, m).blocks[0] = 0
  BY <1>8 DEF FileMade
<1>14. \A m \in L : inode_at(e, m).hard_link_count > 0 \/ m \in gone
  <2>1. inode_at(e, n).hard_link_count > 0
    BY <1>8 DEF FileMade
  <2> QED BY <1>10, <2>1 DEF Tree
<1>15. GrownTree(d, K, e, L, gone)
  BY <1>9, <1>10, <1>11, <1>12, <1>13, <1>14 DEF GrownTree
<1>16. inode_at(e, n).is_directory = is_directory
  BY <1>8 DEF FileMade
<1> QED BY <1>5, <1>7, <1>10, <1>15, <1>16 DEF FileAdded

-----------------------------------------------------------------------------

(* An empty directory finds a data block in its group.                     *)
LEMMA RoomForBlock ==
  ASSUME EnoughRoom, NEW d, NEW K, NEW curr, NEW gone, Tree(d, K, curr, gone),
         NEW n \in K, inode_at(d, n).file_size = 0,
         NEW g \in Groups, g = n \div NUM_INODES_PER_GROUP
  PROVE  ~ DataMapFull(d, g)
<1>1. PICK k \in 1 .. MaxFiles : K = root .. root + k - 1
  BY NumbersOfTree
<1>2. k \in Nat /\ k >= 1 /\ k <= MaxFiles /\ MaxFiles \in Nat /\ root \in Nat
  BY Ex2Assumption, RootPlace
<1>3. PICK a, b : a \in Int /\ b \in Int /\ a = root /\ b = root + MaxFiles - 1
  BY <1>2
<1>4. PICK near : near = { m \in a .. b : m \div NUM_INODES_PER_GROUP = g }
  OBVIOUS
<1>5. IsFiniteSet(near) /\ Cardinality(near) \in Nat
  <2>1. IsFiniteSet(a .. b) /\ near \subseteq a .. b
    BY <1>3, <1>4, FS_Interval
  <2>2. IsFiniteSet(near)
    BY <2>1, FS_Subset
  <2> QED BY <2>2, FS_CardinalityType
<1>6. Cardinality(near) <= DATA_BLOCKS_PER_GROUP
  BY <1>3, <1>4 DEF EnoughRoom
<1>7. PICK sized : sized = Sized(d, K, g)
  OBVIOUS
<1>8. n \notin sized /\ sized \cup {n} \subseteq near
  <2>1. n \notin sized
    BY <1>7 DEF Sized
  <2>2. K \subseteq a .. b
    BY <1>1, <1>2, <1>3
  <2> QED BY <1>4, <1>7, <2>1, <2>2 DEF Sized
<1>9. IsFiniteSet(sized) /\ Cardinality(sized) \in Nat /\ Cardinality(sized) + 1 <= Cardinality(near)
  <2>1. sized \subseteq near
    BY <1>8
  <2>2. IsFiniteSet(sized)
    BY <1>5, <2>1, FS_Subset
  <2>3. Cardinality(sized \cup {n}) = Cardinality(sized) + 1
    BY <1>8, <2>2, FS_AddElement
  <2>4. Cardinality(sized \cup {n}) <= Cardinality(near)
    BY <1>5, <1>8, FS_Subset
  <2> QED BY <2>2, <2>3, <2>4, FS_CardinalityType
<1>10. PICK bits : bits = DataBitsOf(d)[g]
  OBVIOUS
<1>11. Cardinality(bits) <= Cardinality(sized)
  BY <1>7, <1>10 DEF Tree, OneBlockEach
<1>12. ASSUME DataMapFull(d, g)
       PROVE  FALSE
  <2>1. DataBits \subseteq bits
    BY <1>10, <1>12, FullMap
  <2>2. bits \subseteq DataBits
    BY <1>10 DEF Tree, Records, Sound, MetadataAtHome, DataBitsOf
  <2>3. bits = DataBits
    BY <2>1, <2>2
  <2>4. PICK top : top \in Int /\ top = DATA_BLOCKS_PER_GROUP - 1 /\ top >= 0
    BY LayoutNumbers
  <2>5. Cardinality(0 .. top) = top - 0 + 1
    BY <2>4, FS_Interval
  <2>6. Cardinality(bits) = DATA_BLOCKS_PER_GROUP
    BY <2>3, <2>4, <2>5, LayoutNumbers DEF DataBits
  <2> QED BY <1>5, <1>6, <1>9, <1>11, <2>6, LayoutNumbers
<1> QED BY <1>12

(* What find_first_empty_data_block does when there is one.                *)
LEMMA BlockOfGroup ==
  ASSUME NEW d, Sound(d), NEW n \in InodeNumbers, NEW g \in Groups,
         g = n \div NUM_INODES_PER_GROUP,
         descriptor(d, g).free_blocks_count # 0, ~ DataMapFull(d, g),
         NEW found, found = find_first_empty_data_block(d, n)
  PROVE  /\ Sound(found.disk)
         /\ InodeBitsOf(found.disk) = InodeBitsOf(d)
         /\ \A h \in Groups : descriptor(found.disk, h) = descriptor(d, h)
         /\ \E bit \in DataBits \ DataBitsOf(d)[g] :
              /\ found.ret = DataBlock(g, bit)
              /\ DataBitsOf(found.disk) = [DataBitsOf(d) EXCEPT ![g] = @ \cup {bit}]
<1>1. PICK taken, r, home : /\ taken = TakeLowestBit(d, get_starting_block_bitmap(g), DataBits)
                            /\ r = read_block_descriptor(d, g)
                            /\ home = get_starting_block_group_descriptor(g)
  OBVIOUS
<1>2. g \in Nat /\ home \in Blocks /\ home < OFFSET_SPAN
  BY <1>1, HomesApart, GroupsAreNumbers, LayoutNumbers DEF Blocks
<1>3. r \in BlockGroupDescriptor /\ r = descriptor(d, g) /\ r.block_number = home
  BY <1>1, <1>2, ReadDescriptor
<1>4. found.disk = FlushRecord(taken.disk, r) /\ found.ret = DataBlock(g, taken.bit)
  BY <1>1, <1>3 DEF find_first_empty_data_block
<1>5. /\ Sound(taken.disk)
      /\ InodeBitsOf(taken.disk) = InodeBitsOf(d)
      /\ taken.bit \in DataBits \ DataBitsOf(d)[g]
      /\ DataBitsOf(taken.disk) = [DataBitsOf(d) EXCEPT ![g] = @ \cup {taken.bit}]
  BY <1>1, TakeDataBit
<1>6. \A h \in Groups : descriptor(taken.disk, h) = descriptor(d, h)
  BY <1>1, TakenDescriptors
<1>7. Sound(found.disk) /\ SameBits(found.disk, taken.disk)
  BY <1>1, <1>3, <1>4, <1>5, FlushDescriptor
<1>8. \A b \in Blocks : found.disk[b] = taken.disk[b]
  <2>1. taken.disk \in [Blocks -> Content] /\ r \in Content
    BY <1>3, <1>5, ContentKinds DEF Sound
  <2>2. \A b \in Blocks : found.disk[b] = IF b = home THEN r ELSE taken.disk[b]
    BY <1>2, <1>3, <1>4, <2>1, FlushHome
  <2>3. taken.disk[home] = r
    BY <1>1, <1>3, <1>6 DEF descriptor
  <2> QED BY <2>2, <2>3
<1>9. \A h \in Groups : descriptor(found.disk, h) = descriptor(d, h)
  BY <1>6, <1>8, HomesApart DEF descriptor
<1> QED BY <1>4, <1>5, <1>7, <1>9 DEF SameBits

(* The data bits after directory n got an entry: an empty one takes one.   *)
BlockTaken(d, e, n) ==
  IF inode_at(d, n).file_size > 0
  THEN DataBitsOf(e) = DataBitsOf(d)
  ELSE \E bit \in DataBits :
         DataBitsOf(e) = [DataBitsOf(d) EXCEPT ![n \div NUM_INODES_PER_GROUP] = @ \cup {bit}]

(* The block an entry goes to: the directory's own, or one just found.     *)
LEMMA BlockForEntry ==
  ASSUME EnoughRoom, NEW d, NEW K, NEW curr, NEW gone, Tree(d, K, curr, gone),
         NEW n \in K, Live(d, n), NEW t, Working(t), t.disk = d,
         t.inode.blocks = inode_at(d, n).blocks,
         NEW held, held = get_data_block(t, n, 0)
  PROVE  /\ held.inode.blocks[0] \in OwnBlocks
         /\ InodeBitsOf(held.disk) = InodeBitsOf(d)
         /\ \A h \in Groups : descriptor(held.disk, h) = descriptor(d, h)
         /\ BlockTaken(d, held.disk, n)
<1>1. Records(d) /\ Files(d, K) /\ n \in InodeNumbers /\ CountsLeft(d)
  BY NumbersOfTree DEF Tree
<1>2. PICK g : g = n \div NUM_INODES_PER_GROUP /\ g \in Groups
  BY DEF Tree
<1>3. PICK c \in Nat : /\ c = EntryCount(d, n)
                       /\ inode_at(d, n).file_size = 2 * c
                       /\ c > 0 => inode_at(d, n).blocks[0] \in OwnBlocks
                       /\ c = 0 => inode_at(d, n).blocks[0] = 0
  BY LiveShape
<1>4. 0 \in BlockIndex
  BY LayoutNumbers DEF BlockIndex
<1>5. CASE c > 0
  <2>1. t.inode.blocks[0] \in OwnBlocks /\ t.inode.blocks[0] # 0
    BY <1>3, <1>5, OwnBlockPlace, BlockNumberPlace
  <2>2. held = t
    BY <2>1 DEF get_data_block
  <2>3. inode_at(d, n).file_size > 0
    BY <1>3, <1>5
  <2> QED BY <2>1, <2>2, <2>3 DEF BlockTaken
<1>6. CASE c = 0
  <2>1. t.inode.blocks[0] = 0 /\ inode_at(d, n).file_size = 0
    BY <1>3, <1>6
  <2>2. PICK found : found = find_first_empty_data_block(d, n)
    OBVIOUS
  <2>3. held.disk = found.disk /\ held.inode.blocks[0] = found.ret
    BY <1>4, <2>1, <2>2 DEF get_data_block, Working, BlockGroupINode
  <2>4. descriptor(d, g).free_blocks_count # 0
    BY <1>1, <1>2 DEF CountsLeft
  <2>5. ~ DataMapFull(d, g)
    BY <1>2, <2>1, RoomForBlock
  <2>6. Sound(d)
    BY <1>1 DEF Records
  <2>7. /\ InodeBitsOf(found.disk) = InodeBitsOf(d)
        /\ \A h \in Groups : descriptor(found.disk, h) = descriptor(d, h)
        /\ \E bit \in DataBits \ DataBitsOf(d)[g] :
             /\ found.ret = DataBlock(g, bit)
             /\ DataBitsOf(found.disk) = [DataBitsOf(d) EXCEPT ![g] = @ \cup {bit}]
    BY <1>1, <1>2, <2>2, <2>4, <2>5, <2>6, BlockOfGroup
  <2>8. found.ret \in OwnBlocks
    BY <1>2, <2>7, OwnBlockPlace
  <2>9. BlockTaken(d, found.disk, n)
    <3>1. PICK bit \in DataBits : DataBitsOf(found.disk) = [DataBitsOf(d) EXCEPT ![g] = @ \cup {bit}]
      BY <2>7
    <3>2. DataBitsOf(found.disk)
            = [DataBitsOf(d) EXCEPT ![n \div NUM_INODES_PER_GROUP] = @ \cup {bit}]
      BY <1>2, <3>1
    <3>3. ~ (inode_at(d, n).file_size > 0)
      BY <2>1
    <3> QED BY <3>2, <3>3 DEF BlockTaken
  <2> QED BY <2>3, <2>7, <2>8, <2>9
<1> QED BY <1>5, <1>6

(* A place in the first block.                                             *)
LEMMA InFirstBlock ==
  ASSUME NEW at \in Nat, at < BLOCK_SIZE
  PROVE  BlockOf(at) = 0 /\ OffsetIn(at) = at
<1>1. BLOCK_SIZE \in Nat /\ BLOCK_SIZE > 0
  BY BlockGroupAssumption
<1> QED BY <1>1 DEF BlockOf, OffsetIn

(* What the write of an entry leaves of the directory and the disk.        *)
LEMMA EntryWritten ==
  ASSUME EnoughRoom, NEW d, NEW K, NEW curr, NEW gone, Tree(d, K, curr, gone),
         NEW n \in K, Live(d, n), NEW size, size = inode_at(d, n).file_size,
         root + EntryCount(d, n) + 1 \in K,
         NEW cells \in Seq(Cell), Len(cells) = 2,
         NEW e, e = Flushed(Transfer(d, inode_at(d, n), Fresh(d, n), cells))
  PROVE  /\ Handles(d, e, n, [FileRecord(inode_at(d, n)) EXCEPT !.size = size + 2])
         /\ inode_at(e, n).blocks[0] \in OwnBlocks
         /\ InodeBitsOf(e) = InodeBitsOf(d)
         /\ \A h \in Groups : descriptor(e, h) = descriptor(d, h)
         /\ BlockTaken(d, e, n)
         /\ Appends(d, e, n, size, cells)
<1>1. Records(d) /\ Files(d, K) /\ K \in SUBSET InodeNumbers /\ n \in InodeNumbers
  BY NumbersOfTree DEF Tree
<1>2. /\ size \in Nat
      /\ size + 2 <= BLOCK_SIZE
      /\ size > 0 => inode_at(d, n).blocks[0] \in OwnBlocks
  <2>1. PICK c \in Nat : c = EntryCount(d, n)
    BY LiveShape
  <2>2. size = 2 * c /\ 2 * c + 2 <= BLOCK_SIZE /\ (c > 0 => inode_at(d, n).blocks[0] \in OwnBlocks)
    BY <2>1, LiveShape
  <2> QED BY <2>1, <2>2
<1>3. PICK inode : inode = inode_at(d, n)
  OBVIOUS
<1>4. InodeReadable(d, n) /\ inode.uid = n /\ inode \in InodeRead(d, n)
  BY <1>1, <1>3, ReadFile
<1>5. inode \in BlockGroupINode /\ HasPlace(inode) /\ SlotOf(n) \in Blocks
  BY <1>1, <1>3, <1>4, ReadablePlace
<1>6. /\ BLOCK_SIZE \in Nat /\ BLOCK_SIZE > 1 /\ SizeLimit \in Nat
      /\ size + 2 <= SizeLimit /\ size \in 0 .. SizeLimit
  <2>1. PICK b, i : b \in Nat /\ i \in Nat /\ i >= 1 /\ b = BLOCK_SIZE /\ i = BLOCKS_PER_INODE
    BY BlockGroupAssumption, LayoutNumbers
  <2>2. i * b \in Nat /\ b <= i * b
    BY <2>1, ProductGrows
  <2>3. SizeLimit \in Nat /\ BLOCK_SIZE <= SizeLimit
    BY <2>1, <2>2 DEF SizeLimit
  <2> QED BY <1>2, <2>1, <2>3
<1>7. PICK my_file : my_file = Fresh(d, n)
  OBVIOUS
<1>8. /\ my_file \in MyFile
      /\ my_file.inode_number = n /\ my_file.position = 0 /\ my_file.file_size = size
  <2>1. n \in Nat /\ inode.is_directory \in BOOLEAN
    BY <1>1, <1>5, NumbersOfTree DEF BlockGroupINode
  <2>2. my_file = [inode_number |-> n, position |-> 0, file_size |-> size,
                   is_directory |-> inode.is_directory]
    BY <1>3, <1>7 DEF Fresh
  <2>3. 0 \in Int /\ size \in Int
    BY <1>2
  <2>4. my_file \in MyFile
    BY <2>1, <2>2, <2>3 DEF MyFile
  <2> QED BY <2>2, <2>4
<1>9. /\ BlockOf(size) = 0 /\ BlockOf(size + 2 - 1) = 0 /\ BlockOf(0 + 2 - 1) = 0
      /\ OffsetIn(size) = size
  <2>1. PICK next \in Nat : next = size + 2 - 1 /\ next < BLOCK_SIZE
    BY <1>2, <1>6
  <2>2. size < BLOCK_SIZE /\ 1 < BLOCK_SIZE /\ 0 + 2 - 1 = 1
    BY <1>2, <1>6
  <2>3. BlockOf(size) = 0 /\ OffsetIn(size) = size
    BY <1>2, <2>2, InFirstBlock
  <2>4. BlockOf(next) = 0 /\ BlockOf(1) = 0
    BY <2>1, <2>2, InFirstBlock
  <2> QED BY <2>1, <2>2, <2>3, <2>4
<1>10. ClearOver(inode, IndicesWritten(my_file, cells)) /\ Clear(inode, 0) /\ 0 \in BlockIndex
  <2>1. /\ my_file.file_size \div BLOCK_SIZE = 0
        /\ (my_file.position + Len(cells) - 1) \div BLOCK_SIZE = 0
    BY <1>8, <1>9 DEF BlockOf
  <2>2. IndicesWritten(my_file, cells) = {0}
    BY <2>1 DEF IndicesWritten, IndicesTouched
  <2>3. 0 \in BlockIndex
    BY LayoutNumbers DEF BlockIndex
  <2>4. Clear(inode, 0)
    BY <1>1, <1>3, <2>3, ListedClear
  <2> QED BY <2>2, <2>3, <2>4 DEF ClearOver
<1>11. PICK t : t = Transfer(d, inode, my_file, cells) /\ e = FlushInode(t.disk, t.inode)
  BY <1>3, <1>7 DEF Flushed
<1>12. PICK changed, t0 : /\ changed = [inode EXCEPT !.file_size = size + 2]
                          /\ t0 = [disk |-> d, used |-> 0, inode |-> changed]
  OBVIOUS
<1>13. /\ changed \in BlockGroupINode /\ HasPlace(changed)
       /\ changed.uid = n /\ changed.blocks = inode.blocks
       /\ Working(t0) /\ t0.disk = d /\ t0.used = 0 /\ t0.inode = changed
  <2>1. PICK grown : grown = size + 2
    OBVIOUS
  <2>2. /\ grown = my_file.file_size + Len(cells)
        /\ t0 = [disk |-> d, used |-> 0, inode |-> [inode EXCEPT !.file_size = grown]]
    BY <1>6, <1>8, <1>12, <2>1
  <2>3. Working(t0)
    BY <1>1, <1>5, <1>8, <1>10, <2>2, TransferProgress
  <2> QED BY <1>4, <1>5, <1>12, <2>3 DEF Working, BlockGroupINode
<1>14. t = WriteBlock(t0, n, 0, size, size + 2, cells)
  <2>1. my_file.file_size + Len(cells) = size + 2
    BY <1>8
  <2>2. /\ my_file.file_size \div BLOCK_SIZE = 0
        /\ (my_file.position + Len(cells) - 1) \div BLOCK_SIZE = 0
        /\ my_file.file_size % BLOCK_SIZE = size
    BY <1>8, <1>9 DEF BlockOf, OffsetIn
  <2> QED BY <1>8, <1>11, <1>12, <2>1, <2>2 DEF Transfer
<1>15. PICK held : held = get_data_block(t0, n, 0)
  OBVIOUS
<1>16. /\ held.inode.blocks[0] \in OwnBlocks
       /\ InodeBitsOf(held.disk) = InodeBitsOf(d)
       /\ \A h \in Groups : descriptor(held.disk, h) = descriptor(d, h)
       /\ BlockTaken(d, held.disk, n)
  BY <1>3, <1>13, <1>15, BlockForEntry
<1>17. Working(held) /\ Working(t) /\ Wrote(t0, t, 0)
  <2>1. size \in Int /\ size + 2 \in Int
    BY <1>2
  <2>2. Clear(t0.inode, 0)
    BY <1>10, <1>13 DEF Clear
  <2> QED BY <1>1, <1>10, <1>13, <1>14, <1>15, <2>1, <2>2, HoldBlock, WriteOneBlock
<1>18. PICK b : b = held.inode.blocks[0] /\ b \in DataBlockNumbers
  BY <1>16, OwnBlockPlace
<1>19. PICK content :
         content = [kind |-> "data",
                    cells |-> write_helper(retreive_block_disk_helper(held.disk, b),
                                           size, size + 2, cells, 0)]
  OBVIOUS
<1>20. /\ t.disk = write_block_disk_helper(held.disk, b, content)
       /\ t.inode = held.inode
  BY <1>13, <1>14, <1>15, <1>17, <1>18, <1>19 DEF WriteBlock, Working
<1>21. content \in DataContent
  <2>1. held.disk \in [Blocks -> Content] /\ size \in Int /\ size + 2 \in Int
    BY <1>2, <1>17 DEF Working
  <2> QED BY <1>19, <2>1, BufferCells DEF DataContent
<1>22. /\ Records(t.disk) /\ SameBits(t.disk, held.disk)
       /\ \A a \in Blocks : t.disk[a] = IF a = b THEN content ELSE held.disk[a]
  <2>1. Address(b) = b /\ b \notin MetadataBlocks
    BY <1>18, BlockNumberPlace
  <2>2. Records(held.disk)
    BY <1>17 DEF Working
  <2> QED BY <1>20, <1>21, <2>1, <2>2, StoreData
<1>23. t.inode \in BlockGroupINode /\ HasPlace(t.inode) /\ t.inode.uid = n
  BY <1>13, <1>17 DEF Working, Wrote, BlockGroupINode
<1>24. /\ SameBits(e, t.disk)
       /\ \A a \in Blocks : a # SlotOf(n) => e[a] = t.disk[a]
       /\ inode_at(e, n) = t.inode
  BY <1>5, <1>11, <1>22, <1>23, StoredInode
<1>25. inode_at(e, n).blocks[0] \in OwnBlocks
  BY <1>16, <1>20, <1>24
<1>26. InodeBitsOf(e) = InodeBitsOf(d) /\ DataBitsOf(e) = DataBitsOf(held.disk)
  BY <1>16, <1>22, <1>24 DEF SameBits
<1>27. BlockTaken(d, e, n)
  BY <1>16, <1>26 DEF BlockTaken
<1>28. ASSUME NEW h \in Groups
       PROVE  descriptor(e, h) = descriptor(d, h)
  <2>1. PICK home : home = get_starting_block_group_descriptor(h)
    OBVIOUS
  <2>2. home \in Blocks /\ home \in MetadataBlocks
    BY <2>1, HomesApart, MetadataPlaces
  <2>3. home # SlotOf(n) /\ home # b
    BY <1>1, <1>5, <1>18, <2>2, SlotPlace, BlockNumberPlace
  <2>4. e[home] = held.disk[home]
    BY <1>22, <1>24, <2>2, <2>3
  <2> QED BY <1>16, <2>1, <2>4 DEF descriptor
<1>29. Handles(d, e, n, [FileRecord(inode) EXCEPT !.size = size + 2])
  <2>1. PICK grown : grown = size + 2
    OBVIOUS
  <2>2. grown = my_file.file_size + Len(cells) /\ grown \in 0 .. SizeLimit
    BY <1>2, <1>6, <1>8, <2>1
  <2>3. Handles(d, FlushInode(t.disk, t.inode), n, [FileRecord(inode) EXCEPT !.size = grown])
    BY <1>1, <1>4, <1>8, <1>10, <1>11, <2>2, HandledByWrite
  <2> QED BY <1>11, <2>1, <2>3
<1>30. Appends(d, e, n, size, cells)
  <2>1. PICK k : k = 0
    OBVIOUS
  <2>2. size = my_file.file_size /\ size + Len(cells) <= SizeLimit /\ Len(cells) >= 1
    BY <1>6, <1>8, <2>1
  <2>3. /\ k = BlockOf(size) /\ k = BlockOf(size + Len(cells) - 1)
        /\ k = BlockOf(my_file.position + Len(cells) - 1)
    BY <1>8, <1>9, <2>1
  <2>4. OffsetIn(size) = 0 \/ inode.blocks[k] # 0
    <3>1. size > 0 => inode.blocks[0] # 0
      BY <1>2, <1>3, OwnBlockPlace, BlockNumberPlace
    <3> QED BY <1>2, <1>9, <2>1, <3>1
  <2>5. inode_at(e, n).blocks[k] \in OwnBlocks
    BY <1>25, <2>1
  <2>6. Appends(d, e, n, size, cells)
    BY <1>1, <1>2, <1>3, <1>8, <1>11, <2>2, <2>3, <2>4, <2>5, TransferAppends
  <2> QED BY <2>1, <2>6
<1> QED BY <1>3, <1>25, <1>26, <1>27, <1>28, <1>29, <1>30

(* Directory n has on disk e one entry more than on disk d, its last one.  *)
GrownBy(d, e, K, n, entry) ==
  /\ \A m \in K \ {n} : SameFile(d, e, m) /\ inode_at(e, m) = inode_at(d, m)
  /\ \A m \in K :
       /\ inode_at(e, m).is_directory = inode_at(d, m).is_directory
       /\ inode_at(e, m).hard_link_count = inode_at(d, m).hard_link_count
       /\ inode_at(e, m).inode_mode = inode_at(d, m).inode_mode
  /\ Live(e, n)
  /\ EntryCount(e, n) = EntryCount(d, n) + 1
  /\ inode_at(e, n).file_size = 2 * EntryCount(d, n) + 2
  /\ inode_at(e, n).blocks[0] \in OwnBlocks
  /\ \A i \in Entries(d, n) : Entry(e, n, i) = Entry(d, n, i)
  /\ Entry(e, n, EntryCount(d, n)) = entry

LEMMA EntryAppended ==
  ASSUME EnoughRoom, NEW d, NEW K, NEW curr, NEW gone, Tree(d, K, curr, gone),
         NEW n \in K, Live(d, n), root + EntryCount(d, n) + 1 \in K,
         NEW path \in Paths, NEW new \in K, NEW flag \in BOOLEAN,
         NEW e, e = Flushed(Transfer(d, inode_at(d, n), Fresh(d, n),
                                     EntryCells(path, new, flag)))
  PROVE  /\ Records(e) /\ Files(e, K)
         /\ InodeBitsOf(e) = InodeBitsOf(d)
         /\ \A h \in Groups : descriptor(e, h) = descriptor(d, h)
         /\ BlockTaken(d, e, n)
         /\ GrownBy(d, e, K, n, [file_name |-> NameCode(path), inode_number |-> new,
                                   is_directory |-> flag])
<1>1. Records(d) /\ Files(d, K) /\ K \in SUBSET InodeNumbers /\ K \subseteq Nat
  BY NumbersOfTree DEF Tree
<1>2. PICK c \in Nat : c = EntryCount(d, n) /\ inode_at(d, n).file_size = 2 * c
  BY LiveShape
<1>3. PICK code, second : code = NameCode(path) /\ second = 2 * new + IF flag THEN 1 ELSE 0
  OBVIOUS
<1>4. code \in Cell /\ second \in Cell
  <2>1. {2 * new, 2 * new + 1} \subseteq Cell
    BY <1>1, ShellAssumption
  <2>2. second \in {2 * new, 2 * new + 1}
    BY <1>1, <1>3
  <2> QED BY <1>3, <2>1, <2>2, PathIndex
<1>5. PICK cells : cells = <<code, second>>
  OBVIOUS
<1>6. /\ cells \in Seq(Cell) /\ Len(cells) = 2 /\ DOMAIN cells = 1 .. 2
      /\ cells[1] = code /\ cells[2] = second
  BY <1>4, <1>5
<1>7. PICK size : size = inode_at(d, n).file_size
  OBVIOUS
<1>8. e = Flushed(Transfer(d, inode_at(d, n), Fresh(d, n), cells))
  BY <1>3, <1>5 DEF EntryCells
<1>9. /\ Handles(d, e, n, [FileRecord(inode_at(d, n)) EXCEPT !.size = size + 2])
      /\ inode_at(e, n).blocks[0] \in OwnBlocks
      /\ InodeBitsOf(e) = InodeBitsOf(d)
      /\ \A h \in Groups : descriptor(e, h) = descriptor(d, h)
      /\ BlockTaken(d, e, n)
      /\ Appends(d, e, n, size, cells)
  BY <1>6, <1>7, <1>8, EntryWritten
<1>10. /\ Records(e) /\ Files(e, K) /\ OthersKept(d, e, K, n)
       /\ FileRecord(inode_at(e, n)) = [FileRecord(inode_at(d, n)) EXCEPT !.size = size + 2]
  BY <1>1, <1>9 DEF Handles
<1>11. /\ inode_at(e, n).file_size = size + 2
       /\ inode_at(e, n).hard_link_count = inode_at(d, n).hard_link_count
       /\ inode_at(e, n).inode_mode = inode_at(d, n).inode_mode
       /\ inode_at(e, n).is_directory = inode_at(d, n).is_directory
  BY <1>10 DEF FileRecord
<1>12. \A m \in K \ {n} : SameFile(d, e, m) /\ inode_at(e, m) = inode_at(d, m)
  BY <1>1, <1>10, OthersSame
<1>13. Live(e, n)
  <2>1. inode_at(d, n).is_directory /\ inode_at(d, n).hard_link_count > 0
    BY DEF Live
  <2>2. inode_at(e, n).is_directory
    BY <1>11, <2>1, Zenon
  <2> QED BY <1>11, <2>1, <2>2 DEF Live
<1>14. EntryCount(e, n) = c + 1
  <2>1. (2 * c + 2) \div 2 = c + 1
    BY <1>2
  <2> QED BY <1>2, <1>7, <1>11, <2>1 DEF EntryCount, EntrySize
<1>15. ASSUME NEW i \in Entries(d, n)
       PROVE  Entry(e, n, i) = Entry(d, n, i)
  <2>1. i \in 0 .. c - 1
    BY <1>2, <1>15 DEF Entries
  <2>2. 2 * i \in 0 .. size - 1 /\ 2 * i + 1 \in 0 .. size - 1
    BY <1>2, <1>7, <2>1
  <2>3. Byte(e, n, 2 * i) = Byte(d, n, 2 * i) /\ Byte(e, n, 2 * i + 1) = Byte(d, n, 2 * i + 1)
    BY <1>9, <2>2 DEF Appends
  <2> QED BY <2>3 DEF Entry, EntrySize
<1>16. Entry(e, n, c) = [file_name |-> code, inode_number |-> new, is_directory |-> flag]
  <2>1. 1 \in DOMAIN cells /\ 2 \in DOMAIN cells
    BY <1>6
  <2>2. Byte(e, n, size + 1 - 1) = code /\ Byte(e, n, size + 2 - 1) = second
    BY <1>6, <1>9, <2>1 DEF Appends
  <2>3. size + 1 - 1 = 2 * c /\ size + 2 - 1 = 2 * c + 1
    BY <1>2, <1>7
  <2>4. second \div 2 = new /\ (second % 2 = 1) = flag
    <3>1. PICK x \in Nat : x = new
      BY <1>1
    <3>2. (2 * x) \div 2 = x /\ (2 * x + 1) \div 2 = x /\ (2 * x) % 2 = 0 /\ (2 * x + 1) % 2 = 1
      OBVIOUS
    <3> QED BY <1>3, <3>1, <3>2
  <2> QED BY <2>2, <2>3, <2>4 DEF Entry, EntrySize
<1>17. ASSUME NEW m \in K
       PROVE  /\ inode_at(e, m).is_directory = inode_at(d, m).is_directory
              /\ inode_at(e, m).hard_link_count = inode_at(d, m).hard_link_count
              /\ inode_at(e, m).inode_mode = inode_at(d, m).inode_mode
  BY <1>11, <1>12
<1>18. inode_at(e, n).file_size = 2 * c + 2
  BY <1>2, <1>7, <1>11
<1>19. GrownBy(d, e, K, n, [file_name |-> code, inode_number |-> new, is_directory |-> flag])
  BY <1>2, <1>9, <1>12, <1>13, <1>14, <1>15, <1>16, <1>17, <1>18 DEF GrownBy
<1> QED BY <1>3, <1>9, <1>10, <1>19

(* An entry after that is one from before or the last one.                 *)
LEMMA OldOrNew ==
  ASSUME EnoughRoom, NEW d, NEW K, NEW curr, NEW gone, Tree(d, K, curr, gone),
         NEW n \in K, Live(d, n), NEW e, NEW entry, GrownBy(d, e, K, n, entry),
         NEW m \in K, Live(e, m), NEW i \in Entries(e, m)
  PROVE  /\ Live(d, m)
         /\ \/ i \in Entries(d, m) /\ Entry(e, m, i) = Entry(d, m, i)
            \/ m = n /\ i = EntryCount(d, n) /\ Entry(e, m, i) = entry
<1>1. CASE m # n
  <2>1. SameFile(d, e, m)
    BY <1>1 DEF GrownBy
  <2> QED BY <2>1, SameEntries
<1>2. CASE m = n
  <2>1. PICK c \in Nat : c = EntryCount(d, n)
    BY LiveShape
  <2>2. EntryCount(e, n) = c + 1
    BY <2>1 DEF GrownBy
  <2>3. i \in 0 .. c
    BY <1>2, <2>1, <2>2 DEF Entries
  <2>4. CASE i = c
    BY <1>2, <2>1, <2>4 DEF GrownBy
  <2>5. CASE i # c
    <3>1. i \in Entries(d, n)
      BY <2>1, <2>3, <2>5 DEF Entries
    <3> QED BY <1>2, <3>1 DEF GrownBy
  <2> QED BY <2>4, <2>5
<1> QED BY <1>1, <1>2

(* One block each is still enough.                                         *)
LEMMA BlocksStayCounted ==
  ASSUME EnoughRoom, NEW d, NEW K, NEW curr, NEW gone, Tree(d, K, curr, gone),
         NEW n \in K, Live(d, n), NEW e, NEW entry, GrownBy(d, e, K, n, entry),
         BlockTaken(d, e, n)
  PROVE  OneBlockEach(e, K)
<1>1. PICK c \in Nat : c = EntryCount(d, n) /\ inode_at(d, n).file_size = 2 * c
  BY LiveShape
<1>2. inode_at(e, n).file_size > 0
  <2>1. inode_at(e, n).file_size = 2 * c + 2
    BY <1>1 DEF GrownBy
  <2> QED BY <1>1, <2>1
<1>3. \A m \in K \ {n} : inode_at(e, m).file_size = inode_at(d, m).file_size
  BY DEF GrownBy
<1>4. PICK g : g = n \div NUM_INODES_PER_GROUP /\ g \in Groups
  BY DEF Tree
<1>5. \A h \in Groups : Cardinality(DataBitsOf(d)[h]) <= Cardinality(Sized(d, K, h))
  BY DEF Tree, OneBlockEach
<1>6. CASE inode_at(d, n).file_size > 0
  <2>1. ASSUME NEW h \in Groups
        PROVE  Sized(e, K, h) = Sized(d, K, h)
    BY <1>2, <1>3, <1>6 DEF Sized
  <2>2. DataBitsOf(e) = DataBitsOf(d)
    BY <1>6 DEF BlockTaken
  <2> QED BY <1>5, <2>1, <2>2 DEF OneBlockEach
<1>7. CASE ~ (inode_at(d, n).file_size > 0)
  <2>1. PICK bit \in DataBits : DataBitsOf(e) = [DataBitsOf(d) EXCEPT ![g] = @ \cup {bit}]
    BY <1>4, <1>7 DEF BlockTaken
  <2>2. ASSUME NEW h \in Groups, h # g
        PROVE  Cardinality(DataBitsOf(e)[h]) <= Cardinality(Sized(e, K, h))
    <3>1. Sized(e, K, h) = Sized(d, K, h)
      <4>1. n \div NUM_INODES_PER_GROUP # h
        BY <1>4, <2>2
      <4> QED BY <1>3, <4>1 DEF Sized
    <3>2. DataBitsOf(e)[h] = DataBitsOf(d)[h]
      BY <2>1, <2>2 DEF DataBitsOf
    <3> QED BY <1>5, <2>2, <3>1, <3>2
  <2>3. Cardinality(DataBitsOf(e)[g]) <= Cardinality(Sized(e, K, g))
    <3>1. PICK bits, sized : bits = DataBitsOf(d)[g] /\ sized = Sized(d, K, g)
      OBVIOUS
    <3>2. DataBitsOf(e)[g] = bits \cup {bit}
      BY <1>4, <2>1, <3>1 DEF DataBitsOf
    <3>3. Sized(e, K, g) = sized \cup {n} /\ n \notin sized
      BY <1>2, <1>3, <1>4, <1>7, <3>1 DEF Sized
    <3>4. IsFiniteSet(sized) /\ Cardinality(sized) \in Nat
      <4>1. IsFiniteSet(K) /\ sized \subseteq K
        BY <3>1, NumbersOfTree DEF Sized
      <4>2. IsFiniteSet(sized)
        BY <4>1, FS_Subset
      <4> QED BY <4>2, FS_CardinalityType
    <3>5. IsFiniteSet(bits) /\ Cardinality(bits) \in Nat
      <4>1. bits \subseteq DataBits
        BY <1>4, <3>1 DEF Tree, Records, Sound, MetadataAtHome, DataBitsOf
      <4>2. PICK low \in Int : low = 0
        OBVIOUS
      <4>3. PICK top \in Int : top = DATA_BLOCKS_PER_GROUP - 1
        BY LayoutNumbers
      <4>4. IsFiniteSet(low .. top)
        BY FS_Interval
      <4>5. bits \subseteq low .. top
        BY <4>1, <4>2, <4>3 DEF DataBits
      <4>6. IsFiniteSet(bits)
        BY <4>4, <4>5, FS_Subset
      <4> QED BY <4>6, FS_CardinalityType
    <3>6. Cardinality(sized \cup {n}) = Cardinality(sized) + 1
      BY <3>3, <3>4, FS_AddElement
    <3>7. Cardinality(bits \cup {bit}) <= Cardinality(bits) + 1
      <4>1. Cardinality(bits \cup {bit})
              = IF bit \in bits THEN Cardinality(bits) ELSE Cardinality(bits) + 1
        BY <3>5, FS_AddElement
      <4> QED BY <3>5, <4>1
    <3>8. Cardinality(bits \cup {bit}) \in Nat
      BY <3>5, FS_AddElement, FS_CardinalityType
    <3>9. Cardinality(bits) <= Cardinality(sized)
      BY <1>4, <1>5, <3>1
    <3> QED BY <3>2, <3>3, <3>4, <3>5, <3>6, <3>7, <3>8, <3>9
  <2> QED BY <2>2, <2>3 DEF OneBlockEach
<1> QED BY <1>6, <1>7

(* A tree stays one when the next entry names a file nobody named.         *)
LEMMA EntryKeepsTree ==
  ASSUME EnoughRoom, NEW d, NEW K, NEW curr, NEW gone, Tree(d, K, curr, gone),
         NEW n \in K, Live(d, n), root + EntryCount(d, n) + 1 \in K,
         NEW e, NEW entry, GrownBy(d, e, K, n, entry),
         Records(e), Files(e, K), InodeBitsOf(e) = InodeBitsOf(d),
         \A h \in Groups : descriptor(e, h) = descriptor(d, h),
         BlockTaken(d, e, n), EntryHolds(d, K, curr, n, entry),
         ~ HasName(d, K, entry.inode_number)
  PROVE  Tree(e, K, curr, gone)
<1>1. NumbersInOrder(e, K) /\ CountsLeft(e)
  BY CountsKept DEF Tree, NumbersInOrder
<1>2. OneBlockEach(e, K)
  BY BlocksStayCounted
<1>3. WholeEntries(e, K)
  <2>1. ASSUME NEW m \in K, Live(e, m), m # n
        PROVE  /\ inode_at(e, m).file_size = EntrySize * EntryCount(e, m)
               /\ root + EntryCount(e, m) \in K
               /\ inode_at(e, m).file_size > 0 => inode_at(e, m).blocks[0] \in OwnBlocks
               /\ inode_at(e, m).file_size = 0 => inode_at(e, m).blocks[0] = 0
    <3>1. SameFile(d, e, m) /\ inode_at(e, m) = inode_at(d, m)
      BY <2>1 DEF GrownBy
    <3>2. Live(d, m) /\ EntryCount(e, m) = EntryCount(d, m)
      BY <2>1, <3>1, SameEntries
    <3>3. /\ inode_at(d, m).file_size = EntrySize * EntryCount(d, m)
          /\ root + EntryCount(d, m) \in K
          /\ inode_at(d, m).file_size > 0 => inode_at(d, m).blocks[0] \in OwnBlocks
          /\ inode_at(d, m).file_size = 0 => inode_at(d, m).blocks[0] = 0
      BY <2>1, <3>2 DEF Tree, WholeEntries
    <3> QED BY <3>1, <3>2, <3>3
  <2>2. /\ inode_at(e, n).file_size = EntrySize * EntryCount(e, n)
        /\ root + EntryCount(e, n) \in K
        /\ inode_at(e, n).file_size > 0 => inode_at(e, n).blocks[0] \in OwnBlocks
        /\ inode_at(e, n).file_size = 0 => inode_at(e, n).blocks[0] = 0
    <3>1. PICK c \in Nat : c = EntryCount(d, n)
      BY LiveShape
    <3>2. /\ EntryCount(e, n) = c + 1 /\ inode_at(e, n).file_size = 2 * c + 2
          /\ inode_at(e, n).blocks[0] \in OwnBlocks
      BY <3>1 DEF GrownBy
    <3>3. 2 * c + 2 = 2 * (c + 1) /\ 2 * c + 2 # 0
      BY <3>1
    <3>4. root + (c + 1) = root + c + 1
      BY <3>1, RootPlace
    <3> QED BY <3>1, <3>2, <3>3, <3>4 DEF EntrySize
  <2> QED BY <2>1, <2>2 DEF WholeEntries
<1>4. EntriesHold(e, K, curr)
  <2>1. ASSUME NEW m \in K, Live(e, m), NEW i \in Entries(e, m)
        PROVE  EntryHolds(e, K, curr, m, Entry(e, m, i))
    <3>1. PICK x : x = Entry(e, m, i)
      OBVIOUS
    <3>2. /\ Live(d, m)
          /\ \/ i \in Entries(d, m) /\ Entry(e, m, i) = Entry(d, m, i)
             \/ m = n /\ i = EntryCount(d, n) /\ Entry(e, m, i) = entry
      BY <2>1, OldOrNew
    <3>3. EntryHolds(d, K, curr, m, x)
      BY <3>1, <3>2 DEF Tree, EntriesHold
    <3>4. inode_at(e, x.inode_number).is_directory = inode_at(d, x.inode_number).is_directory
      BY <3>3 DEF EntryHolds, GrownBy
    <3> QED BY <3>1, <3>3, <3>4 DEF EntryHolds
  <2> QED BY <2>1 DEF EntriesHold
<1>5. EntriesApart(e, K)
  <2>1. ASSUME NEW l \in K, NEW m \in K, Live(e, l), Live(e, m),
               NEW i \in Entries(e, l), NEW j \in Entries(e, m),
               Entry(e, l, i).inode_number = Entry(e, m, j).inode_number
        PROVE  l = m /\ i = j
    <3>1. /\ Live(d, l)
          /\ \/ i \in Entries(d, l) /\ Entry(e, l, i) = Entry(d, l, i)
             \/ l = n /\ i = EntryCount(d, n) /\ Entry(e, l, i) = entry
      BY <2>1, OldOrNew
    <3>2. /\ Live(d, m)
          /\ \/ j \in Entries(d, m) /\ Entry(e, m, j) = Entry(d, m, j)
             \/ m = n /\ j = EntryCount(d, n) /\ Entry(e, m, j) = entry
      BY <2>1, OldOrNew
    <3>3. CASE /\ i \in Entries(d, l) /\ Entry(e, l, i) = Entry(d, l, i)
               /\ j \in Entries(d, m) /\ Entry(e, m, j) = Entry(d, m, j)
      BY <2>1, <3>1, <3>2, <3>3 DEF Tree, EntriesApart
    <3>4. CASE /\ i \in Entries(d, l) /\ Entry(e, l, i) = Entry(d, l, i)
               /\ Entry(e, m, j) = entry
      BY <2>1, <3>1, <3>4 DEF HasName
    <3>5. CASE /\ j \in Entries(d, m) /\ Entry(e, m, j) = Entry(d, m, j)
               /\ Entry(e, l, i) = entry
      BY <2>1, <3>2, <3>5 DEF HasName
    <3> QED BY <3>1, <3>2, <3>3, <3>4, <3>5
  <2> QED BY <2>1 DEF EntriesApart
<1>6. curr \in K /\ inode_at(e, curr).is_directory
  <2>1. curr \in K /\ inode_at(d, curr).is_directory
    BY DEF Tree
  <2>2. inode_at(e, curr).is_directory = inode_at(d, curr).is_directory
    BY <2>1 DEF GrownBy
  <2> QED BY <2>1, <2>2
<1>7. \A m \in K : inode_at(e, m).hard_link_count > 0 \/ m \in gone
  <2>1. \A m \in K : inode_at(e, m).hard_link_count = inode_at(d, m).hard_link_count
    BY DEF GrownBy
  <2> QED BY <2>1 DEF Tree
<1>8. \A m \in K : m \div NUM_INODES_PER_GROUP \in Groups
  BY DEF Tree
<1> QED BY <1>1, <1>2, <1>3, <1>4, <1>5, <1>6, <1>7, <1>8 DEF Tree

(* And that file is named then.                                            *)
LEMMA EntryNames ==
  ASSUME EnoughRoom, NEW d, NEW K, NEW curr, NEW gone, Tree(d, K, curr, gone),
         NEW n \in K, Live(d, n), NEW e, NEW entry, GrownBy(d, e, K, n, entry),
         NEW S, AllNamed(d, K, gone, S)
  PROVE  AllNamed(e, K, gone, S \ {entry.inode_number})
<1>1. PICK c \in Nat : c = EntryCount(d, n)
  BY LiveShape
<1>2. Live(e, n) /\ EntryCount(e, n) = c + 1 /\ Entry(e, n, c) = entry
  BY <1>1 DEF GrownBy
<1>3. HasName(e, K, entry.inode_number)
  <2>1. c \in Entries(e, n)
    BY <1>1, <1>2 DEF Entries
  <2> QED BY <1>2, <2>1 DEF HasName
<1>4. Directories(e, K) = Directories(d, K)
  <2>1. \A m \in K : inode_at(e, m).is_directory = inode_at(d, m).is_directory
    BY DEF GrownBy
  <2> QED BY <2>1 DEF Directories
<1>5. ASSUME NEW x, HasName(d, K, x)
      PROVE  HasName(e, K, x)
  <2>1. PICK m \in K : Live(d, m) /\ \E i \in Entries(d, m) : Entry(d, m, i).inode_number = x
    BY <1>5 DEF HasName
  <2>2. PICK i \in Entries(d, m) : Live(d, m) /\ Entry(d, m, i).inode_number = x
    BY <2>1
  <2>3. CASE m = n
    <3>1. Entry(e, n, i) = Entry(d, n, i)
      BY <2>2, <2>3 DEF GrownBy
    <3>2. i \in Entries(e, n)
      BY <1>1, <1>2, <2>2, <2>3 DEF Entries
    <3> QED BY <1>2, <2>2, <2>3, <3>1, <3>2 DEF HasName
  <2>4. CASE m # n
    <3>1. SameFile(d, e, m) /\ inode_at(e, m) = inode_at(d, m)
      BY <2>2, <2>4 DEF GrownBy
    <3>2. Live(e, m)
      BY <2>2, <3>1 DEF Live
    <3>3. Entries(e, m) = Entries(d, m) /\ Entry(e, m, i) = Entry(d, m, i)
      BY <2>2, <3>1, <3>2, SameEntries
    <3> QED BY <2>2, <3>2, <3>3 DEF HasName
  <2> QED BY <2>3, <2>4
<1> QED BY <1>3, <1>4, <1>5 DEF AllNamed

-----------------------------------------------------------------------------

(* An entry is written if the directory can be opened; it fits into it.    *)
LEMMA DirectoryFits ==
  ASSUME EnoughRoom, NEW d, NEW K, NEW curr, NEW gone, Tree(d, K, curr, gone),
         NEW n \in K, Live(d, n), root + EntryCount(d, n) + 1 \in K
  PROVE  ~ (inode_at(d, n).file_size + EntrySize > SizeLimit)
<1>1. PICK size \in Nat : size = inode_at(d, n).file_size /\ size + 2 <= BLOCK_SIZE
  <2>1. PICK c \in Nat : c = EntryCount(d, n)
    BY LiveShape
  <2>2. inode_at(d, n).file_size = 2 * c /\ 2 * c + 2 <= BLOCK_SIZE
    BY <2>1, LiveShape
  <2> QED BY <2>1, <2>2
<1>2. PICK b, i : b \in Nat /\ i \in Nat /\ i >= 1 /\ b = BLOCK_SIZE /\ i = BLOCKS_PER_INODE
  BY BlockGroupAssumption, LayoutNumbers
<1>3. i * b \in Nat /\ b <= i * b
  BY <1>2, ProductGrows
<1>4. SizeLimit \in Nat /\ BLOCK_SIZE <= SizeLimit /\ BLOCK_SIZE \in Nat
  BY <1>2, <1>3 DEF SizeLimit
<1> QED BY <1>1, <1>4 DEF EntrySize

LEMMA AppendEntry ==
  ASSUME EnoughRoom, NEW d, NEW K, NEW curr, NEW gone, Tree(d, K, curr, gone),
         NEW n \in K, inode_at(d, n).is_directory,
         Live(d, n) => root + EntryCount(d, n) + 1 \in K,
         NEW mask \in SUBSET Permissions, NEW cells
  PROVE  \/ Appended(At(d, K), n, mask, cells) = Lost(d, K) /\ Ends(d, n)
         \/ /\ Appended(At(d, K), n, mask, cells)
                 = At(Flushed(Transfer(d, inode_at(d, n), Fresh(d, n), cells)), K)
            /\ Live(d, n)
            /\ mask \subseteq inode_at(d, n).inode_mode
<1>1. K \in SUBSET InodeNumbers /\ Records(d) /\ Files(d, K)
  BY NumbersOfTree DEF Tree
<1>2. PICK opened : opened = Opened(At(d, K), n, mask)
  OBVIOUS
<1>3. Appended(At(d, K), n, mask, cells) = WrittenToOpened(opened, n, cells)
  BY <1>2 DEF Appended
<1>4. CASE opened = Lost(d, K) /\ Ends(d, n)
  <2>1. ~Going(opened)
    BY <1>4 DEF Going, Lost
  <2> QED BY <1>3, <1>4, <2>1 DEF WrittenToOpened
<1>5. CASE /\ opened = Holding(d, K, Fresh(d, n))
           /\ inode_at(d, n).hard_link_count > 0
           /\ mask \subseteq inode_at(d, n).inode_mode
  <2>1. Live(d, n)
    BY <1>5 DEF Live
  <2>2. PICK my_file : my_file = Fresh(d, n)
    OBVIOUS
  <2>3. /\ opened = [disk |-> d, mp |-> <<my_file>>, known |-> K, status |-> "going"]
        /\ my_file.file_size = inode_at(d, n).file_size
    BY <1>5, <2>2 DEF Holding, Fresh
  <2>4. Going(opened) /\ Last(opened.mp) = my_file /\ opened.disk = d
    BY <2>3 DEF Going, Last
  <2>5. ~ (Last(opened.mp).file_size + EntrySize > SizeLimit)
    BY <2>1, <2>3, <2>4, DirectoryFits
  <2>6. PICK e : e = Flushed(Transfer(d, inode_at(d, n), my_file, cells))
    OBVIOUS
  <2>7. WrittenToOpened(opened, n, cells) = Closed([opened EXCEPT !.disk = e])
    <3>1. WrittenToOpened(opened, n, cells)
            = Closed([opened EXCEPT !.disk = Flushed(Transfer(opened.disk, inode_at(opened.disk, n),
                                                              Last(opened.mp), cells))])
      BY <2>4, <2>5 DEF WrittenToOpened
    <3> QED BY <2>4, <2>6, <3>1
  <2>8. [opened EXCEPT !.disk = e] = Holding(e, K, my_file)
    BY <2>3 DEF Holding
  <2> QED BY <1>3, <1>5, <2>1, <2>2, <2>6, <2>7, <2>8, CloseFresh
<1> QED BY <1>1, <1>2, <1>4, <1>5, OpenKnown

-----------------------------------------------------------------------------

(* What a call may do to the entries of a directory that still has a link, *)
(* to the links of files, and to a tree all of whose files are named.      *)
ListingKept(d, e, n) ==
  /\ inode_at(e, n).is_directory = inode_at(d, n).is_directory
  /\ Live(e, n) =>
       /\ Live(d, n)
       /\ \A i \in Entries(d, n) : Entry(e, n, i) = Entry(d, n, i)
       /\ \/ EntryCount(e, n) = EntryCount(d, n)
          \/ /\ EntryCount(e, n) = EntryCount(d, n) + 1
             /\ "WRITE_BIT" \in inode_at(d, n).inode_mode

NoMoreLinks(d, e, K) ==
  \A n \in K : inode_at(e, n).hard_link_count <= inode_at(d, n).hard_link_count

(* A path names a file in directory n; a name alone does so in the one the *)
(* shell stands in.                                                        *)
NamesIn(path, curr, n) == Len(path) = 1 => n = curr

NamedAlone(d, K, curr, n) ==
  \E m \in K : Live(d, m) /\ \E i \in Entries(d, m) :
    /\ Entry(d, m, i).inode_number = n
    /\ NamesIn(PathNames[Entry(d, m, i).file_name], curr, m)

Effect(d, K, curr, call, left) ==
  /\ Tree(call.disk, call.known, curr, left)
  /\ K \subseteq call.known
  /\ \A n \in K : ListingKept(d, call.disk, n)
  /\ \/ /\ call.status = "going" /\ call.mp = << >>
        /\ AllNamed(call.disk, call.known, left, {root})
        /\ \A n \in call.known \ K : NamedAlone(call.disk, call.known, curr, n)
     \/ /\ call.status = "exited"
        /\ \E n \in call.known : AllNamed(call.disk, call.known, left, {root, n})

(* The more files may be without links or names, the weaker the claim.     *)
LEMMA WiderNames ==
  ASSUME NEW d, NEW K, NEW gone, NEW left, gone \subseteq left, NEW S, NEW T, S \subseteq T,
         AllNamed(d, K, gone, S)
  PROVE  AllNamed(d, K, left, T)
  BY DEF AllNamed

LEMMA WiderTree ==
  ASSUME NEW d, NEW K, NEW curr, NEW gone, Tree(d, K, curr, gone), NEW left, gone \subseteq left
  PROVE  Tree(d, K, curr, left)
  BY DEF Tree

LEMMA LinksAreNumbers ==
  ASSUME NEW d, NEW K, NEW curr, NEW gone, Tree(d, K, curr, gone), NEW n \in K
  PROVE  inode_at(d, n).hard_link_count \in Nat
  BY NumbersOfTree, ReadablePlace DEF Tree, Files, BlockGroupINode

(* A call that has changed nothing on its way along names.                 *)
Idle(d, K, curr, names, call) ==
  call = At(d, K) \/ (call = Lost(d, K) /\ Halts(d, K, curr, names))

LEMMA IdleEffect ==
  ASSUME NEW d, NEW K, NEW curr, NEW gone, Tree(d, K, curr, gone),
         AllNamed(d, K, gone, {root}), NEW left, gone \subseteq left,
         NEW names, NEW call, Idle(d, K, curr, names, call)
  PROVE  /\ Effect(d, K, curr, call, left)
         /\ NoMoreLinks(d, call.disk, K)
         /\ call.status = "exited" => Halts(d, K, curr, names)
<1>1. Tree(d, K, curr, left) /\ root \in K
  BY WiderTree, NumbersOfTree
<1>2. AllNamed(d, K, left, {root}) /\ AllNamed(d, K, left, {root, root})
  BY WiderNames
<1>3. call.disk = d /\ call.known = K
  BY DEF Idle, At, Lost
<1>4. \A n \in K : ListingKept(d, d, n)
  BY DEF ListingKept
<1>5. NoMoreLinks(d, d, K)
  BY LinksAreNumbers DEF NoMoreLinks
<1>6. CASE call = At(d, K)
  <2>1. call.status = "going" /\ call.mp = << >>
    BY <1>6 DEF At
  <2> QED BY <1>1, <1>2, <1>3, <1>4, <1>5, <2>1 DEF Effect
<1>7. CASE call = Lost(d, K) /\ Halts(d, K, curr, names)
  <2>1. call.status = "exited"
    BY <1>7 DEF Lost
  <2> QED BY <1>1, <1>2, <1>3, <1>4, <1>5, <1>7, <2>1 DEF Effect
<1> QED BY <1>6, <1>7 DEF Idle

(* A call that has changed links, or made files without an entry and ended *)
(* the process.                                                            *)
LEMMA GrownListings ==
  ASSUME EnoughRoom, NEW d, NEW K, NEW curr, NEW gone, Tree(d, K, curr, gone),
         NEW e, NEW L, NEW left, GrownTree(d, K, e, L, left), NEW n \in K
  PROVE  ListingKept(d, e, n)
<1>1. K \subseteq L /\ inode_at(e, n).is_directory = inode_at(d, n).is_directory
  BY DEF GrownTree, SameFile
<1> QED BY <1>1, EntriesAfter DEF ListingKept

LEMMA LinksEffect ==
  ASSUME EnoughRoom, NEW d, NEW K, NEW curr, NEW gone, Tree(d, K, curr, gone),
         AllNamed(d, K, gone, {root}), NEW left, gone \subseteq left,
         NEW e, GrownTree(d, K, e, K, left)
  PROVE  Effect(d, K, curr, At(e, K), left)
<1>1. Tree(e, K, curr, left)
  BY TreeGrows
<1>2. AllNamed(e, K, left, {root} \cup (K \ K))
  BY NamesStay
<1>3. {root} \cup (K \ K) = {root}
  OBVIOUS
<1>4. AllNamed(e, K, left, {root})
  BY <1>2, <1>3
<1>5. \A n \in K : ListingKept(d, e, n)
  BY GrownListings
<1>6. PICK call : call = At(e, K)
  OBVIOUS
<1>7. call.disk = e /\ call.known = K /\ call.status = "going" /\ call.mp = << >>
  BY <1>6 DEF At
<1> QED BY <1>1, <1>4, <1>5, <1>6, <1>7 DEF Effect

LEMMA LostEffect ==
  ASSUME EnoughRoom, NEW d, NEW K, NEW curr, NEW gone, Tree(d, K, curr, gone),
         AllNamed(d, K, gone, {root}), NEW left, gone \subseteq left,
         NEW e, NEW new, NEW L, L = K \cup {new}, GrownTree(d, K, e, L, left)
  PROVE  Effect(d, K, curr, Lost(e, L), left)
<1>1. Tree(e, L, curr, left)
  BY TreeGrows
<1>2. AllNamed(e, L, left, {root} \cup (L \ K))
  BY NamesStay
<1>3. {root} \cup (L \ K) \subseteq {root, new} /\ left \subseteq left /\ new \in L
  OBVIOUS
<1>4. AllNamed(e, L, left, {root, new})
  BY <1>2, <1>3, WiderNames
<1>5. \A n \in K : ListingKept(d, e, n)
  BY GrownListings
<1>6. PICK call : call = Lost(e, L)
  OBVIOUS
<1>7. call.disk = e /\ call.known = L /\ call.status = "exited"
  BY <1>6 DEF Lost
<1> QED BY <1>1, <1>3, <1>4, <1>5, <1>6, <1>7 DEF Effect

(* A call that has made a file and named it in directory n.                *)
LEMMA NamedEffect ==
  ASSUME EnoughRoom, NEW d, NEW K, NEW curr, NEW gone, Tree(d, K, curr, gone),
         AllNamed(d, K, gone, {root}), NEW left, gone \subseteq left,
         NEW e, NEW new, new \notin K, NEW L, L = K \cup {new}, GrownTree(d, K, e, L, left),
         \A m \in K : new > m /\ inode_at(e, m) = inode_at(d, m),
         NEW n \in K, Live(e, n), root + EntryCount(e, n) + 1 \in L,
         "WRITE_BIT" \in inode_at(e, n).inode_mode,
         NEW path \in Paths, NamesIn(path, curr, n),
         NEW flag \in BOOLEAN, inode_at(e, new).is_directory = flag,
         NEW f, f = Flushed(Transfer(e, inode_at(e, n), Fresh(e, n),
                                     EntryCells(path, new, flag)))
  PROVE  Effect(d, K, curr, At(f, L), left) /\ NoMoreLinks(d, f, K)
<1>1. Tree(e, L, curr, left) /\ n \in L /\ new \in L
  BY TreeGrows
<1>2. AllNamed(e, L, left, {root} \cup (L \ K))
  BY NamesStay
<1>3. PICK entry : entry = [file_name |-> NameCode(path), inode_number |-> new,
                            is_directory |-> flag]
  OBVIOUS
<1>4. /\ Records(f) /\ Files(f, L)
      /\ InodeBitsOf(f) = InodeBitsOf(e)
      /\ \A h \in Groups : descriptor(f, h) = descriptor(e, h)
      /\ BlockTaken(e, f, n)
      /\ GrownBy(e, f, L, n, entry)
  BY <1>1, <1>3, EntryAppended
<1>5. EntryHolds(e, L, curr, n, entry)
  <2>1. n < new /\ entry.inode_number = new /\ entry.file_name = NameCode(path)
    <3>1. L \subseteq Nat
      BY <1>1, TreeNumbers
    <3>2. n \in Nat /\ new \in Nat
      BY <1>1, <3>1
    <3> QED BY <1>3, <3>2
  <2>2. entry.is_directory = inode_at(e, entry.inode_number).is_directory
    BY <1>3
  <2>3. Len(path) = 1 => n <= curr
    BY <1>1, NumbersOfTree DEF NamesIn
  <2> QED BY <1>1, <2>1, <2>2, <2>3, PathIndex DEF EntryHolds
<1>6. ~ HasName(e, L, new)
  <2>1. ASSUME NEW m \in L, Live(e, m), NEW i \in Entries(e, m), Entry(e, m, i).inode_number = new
        PROVE  FALSE
    BY <2>1, EntriesAfter
  <2> QED BY <2>1 DEF HasName
<1>7. Tree(f, L, curr, left)
  <2>1. entry.inode_number = new
    BY <1>3
  <2> QED BY <1>1, <1>4, <1>5, <1>6, <2>1, EntryKeepsTree
<1>8. AllNamed(f, L, left, {root})
  <2>1. AllNamed(f, L, left, ({root} \cup (L \ K)) \ {entry.inode_number})
    BY <1>1, <1>2, <1>4, EntryNames
  <2>2. ({root} \cup (L \ K)) \ {entry.inode_number} = {root}
    <3>1. root \in K /\ entry.inode_number = new
      BY <1>3, NumbersOfTree
    <3> QED BY <3>1
  <2> QED BY <2>1, <2>2
<1>9. ASSUME NEW m \in K, Live(f, m)
      PROVE  /\ Live(d, m)
             /\ \A i \in Entries(d, m) : Entry(f, m, i) = Entry(d, m, i)
             /\ \/ EntryCount(f, m) = EntryCount(d, m)
                \/ /\ EntryCount(f, m) = EntryCount(d, m) + 1
                   /\ "WRITE_BIT" \in inode_at(d, m).inode_mode
  <2>1. m \in L
    OBVIOUS
  <2>2. Live(e, m)
    <3>1. /\ inode_at(f, m).is_directory = inode_at(e, m).is_directory
          /\ inode_at(f, m).hard_link_count = inode_at(e, m).hard_link_count
      BY <1>4, <2>1 DEF GrownBy
    <3> QED BY <1>9, <3>1 DEF Live
  <2>3. /\ Live(d, m) /\ Entries(e, m) = Entries(d, m) /\ EntryCount(e, m) = EntryCount(d, m)
        /\ \A i \in Entries(d, m) : Entry(e, m, i) = Entry(d, m, i)
    BY <2>1, <2>2, EntriesAfter
  <2>4. CASE m = n
    <3>1. EntryCount(f, m) = EntryCount(e, m) + 1
      BY <1>4, <2>4 DEF GrownBy
    <3>2. \A i \in Entries(e, m) : Entry(f, m, i) = Entry(e, m, i)
      BY <1>4, <2>4 DEF GrownBy
    <3>3. "WRITE_BIT" \in inode_at(d, m).inode_mode
      BY <2>4
    <3> QED BY <2>3, <3>1, <3>2, <3>3
  <2>5. CASE m # n
    <3>1. SameFile(e, f, m)
      BY <1>4, <2>1, <2>5 DEF GrownBy
    <3>2. /\ EntryCount(f, m) = EntryCount(e, m)
          /\ \A i \in Entries(e, m) : Entry(f, m, i) = Entry(e, m, i)
      BY <1>1, <1>9, <2>1, <3>1, SameEntries
    <3> QED BY <2>3, <3>2
  <2> QED BY <2>4, <2>5
<1>10. \A m \in K : ListingKept(d, f, m)
  <2>1. \A m \in K : inode_at(f, m).is_directory = inode_at(d, m).is_directory
    BY <1>4 DEF GrownBy
  <2> QED BY <1>9, <2>1 DEF ListingKept
<1>11. NoMoreLinks(d, f, K)
  <2>1. ASSUME NEW m \in K
        PROVE  inode_at(f, m).hard_link_count <= inode_at(d, m).hard_link_count
    <3>1. inode_at(f, m).hard_link_count = inode_at(e, m).hard_link_count
      BY <1>4 DEF GrownBy
    <3>2. inode_at(d, m).hard_link_count \in Nat
      BY LinksAreNumbers
    <3> QED BY <3>1, <3>2
  <2> QED BY <2>1 DEF NoMoreLinks
<1>12. NamedAlone(f, L, curr, new)
  <2>1. PICK c \in Nat : c = EntryCount(e, n)
    BY <1>1, LiveShape
  <2>2. EntryCount(f, n) = c + 1 /\ Entry(f, n, c) = entry /\ Live(f, n)
    BY <1>4, <2>1 DEF GrownBy
  <2>3. c \in Entries(f, n)
    BY <2>1, <2>2 DEF Entries
  <2>4. Entry(f, n, c).inode_number = new /\ PathNames[Entry(f, n, c).file_name] = path
    BY <1>3, <2>2, PathIndex
  <2> QED BY <1>1, <2>2, <2>3, <2>4 DEF NamedAlone
<1>13. PICK call : call = At(f, L)
  OBVIOUS
<1>14. call.disk = f /\ call.known = L /\ call.status = "going" /\ call.mp = << >>
  BY <1>13 DEF At
<1> QED BY <1>7, <1>8, <1>10, <1>11, <1>12, <1>13, <1>14 DEF Effect

(* What create_file and the entry after it, for path in directory n, leave *)
(* behind.                                                                 *)
MakesFile(d, K, curr, n, path, mode, flag, mask, call) ==
  /\ n \in K /\ inode_at(d, n).is_directory
  /\ path \in Paths /\ NamesIn(path, curr, n)
  /\ mode \in SUBSET Permissions /\ flag \in BOOLEAN
  /\ mask \in SUBSET Permissions /\ "WRITE_BIT" \in mask
  /\ call = WithNewFile(At(d, K), n, path, mode, flag, mask)

LEMMA NewFileEffect ==
  ASSUME EnoughRoom, NEW d, NEW K, NEW curr, NEW gone, Tree(d, K, curr, gone),
         AllNamed(d, K, gone, {root}), NEW left, gone \subseteq left,
         Cardinality(K \cup {VacantInode(d).ret}) <= MaxFiles,
         NEW n, NEW path, NEW mode, NEW flag, NEW mask, NEW call,
         MakesFile(d, K, curr, n, path, mode, flag, mask, call),
         call.status # "undefined"
  PROVE  /\ Effect(d, K, curr, call, left)
         /\ NoMoreLinks(d, call.disk, K)
         /\ call.status = "exited" => Ends(d, n)
<1> USE DEF MakesFile
<1>1. PICK new : new = VacantInode(d).ret
  OBVIOUS
<1>2. PICK L : L = K \cup {new}
  OBVIOUS
<1>3. PICK e : e = CreatedDisk(d, inode_at(d, new), mode, flag)
  OBVIOUS
<1>4. At(d, K).disk = d /\ At(d, K).mp = << >> /\ At(d, K).known = K /\ At(d, K).status = "going"
  BY DEF At
<1>5. InodeReadable(d, new)
  <2>1. CASE ~ InodeReadable(d, new)
    <3>1. call = [At(d, K) EXCEPT !.status = "undefined"]
      BY <1>1, <1>4, <2>1 DEF WithNewFile
    <3>2. call.status = "undefined"
      BY <3>1 DEF At
    <3> QED BY <3>2
  <2> QED BY <2>1
<1>6. call = Appended(At(e, L), n, mask, EntryCells(path, new, flag))
  BY <1>1, <1>2, <1>3, <1>4, <1>5 DEF WithNewFile, At
<1>7. /\ GrownTree(d, K, e, L, gone)
      /\ new \notin K /\ \A m \in K : m < new
      /\ inode_at(e, new).is_directory = flag
      /\ \A m \in K : inode_at(e, m) = inode_at(d, m)
      /\ \A c \in Nat : root + c \in K => root + c + 1 \in L
  <2>1. Cardinality(K \cup {new}) <= MaxFiles
    BY <1>1
  <2>2. FileAdded(d, K, e, new, flag, L, gone)
    BY <1>1, <1>2, <1>3, <1>5, <2>1, CreateKeepsTree
  <2> QED BY <2>2 DEF FileAdded
<1>8. GrownTree(d, K, e, L, left)
  BY <1>7 DEF GrownTree
<1>9. Tree(e, L, curr, left)
  BY <1>8, TreeGrows
<1>10. n \in L /\ inode_at(e, n) = inode_at(d, n) /\ inode_at(e, n).is_directory
  BY <1>2, <1>7
<1>11. Live(e, n) => root + EntryCount(e, n) + 1 \in L
  <2>1. ASSUME Live(e, n) PROVE root + EntryCount(e, n) + 1 \in L
    <3>1. Live(d, n) /\ EntryCount(e, n) = EntryCount(d, n)
      BY <1>8, <1>10, <2>1, EntriesAfter
    <3>2. EntryCount(d, n) \in Nat
      BY <3>1, LiveShape
    <3>3. root + EntryCount(d, n) \in K
      BY <3>1 DEF Tree, WholeEntries
    <3> QED BY <1>7, <3>1, <3>2, <3>3
  <2> QED BY <2>1
<1>12. PICK f : f = Flushed(Transfer(e, inode_at(e, n), Fresh(e, n),
                                     EntryCells(path, new, flag)))
  OBVIOUS
<1>13. \/ call = Lost(e, L) /\ Ends(e, n)
       \/ call = At(f, L) /\ Live(e, n) /\ mask \subseteq inode_at(e, n).inode_mode
  BY <1>6, <1>9, <1>10, <1>11, <1>12, AppendEntry
<1>14. CASE call = Lost(e, L) /\ Ends(e, n)
  <2>1. Ends(d, n)
    BY <1>10, <1>14 DEF Ends
  <2>2. Effect(d, K, curr, Lost(e, L), left)
    BY <1>2, <1>8, LostEffect
  <2>3. NoMoreLinks(d, e, K) /\ call.disk = e
    BY <1>7, <1>14, LinksAreNumbers DEF NoMoreLinks, Lost
  <2> QED BY <1>14, <2>1, <2>2, <2>3
<1>15. CASE call = At(f, L) /\ Live(e, n) /\ mask \subseteq inode_at(e, n).inode_mode
  <2>1. \A m \in K : new > m /\ inode_at(e, m) = inode_at(d, m)
    BY <1>7
  <2>2. "WRITE_BIT" \in inode_at(e, n).inode_mode /\ root + EntryCount(e, n) + 1 \in L
    BY <1>11, <1>15
  <2>3. Effect(d, K, curr, At(f, L), left) /\ NoMoreLinks(d, f, K)
    BY <1>2, <1>7, <1>8, <1>12, <1>15, <2>1, <2>2, NamedEffect
  <2>4. call.disk = f /\ call.status # "exited"
    BY <1>15 DEF At
  <2> QED BY <1>15, <2>3, <2>4
<1> QED BY <1>13, <1>14, <1>15

-----------------------------------------------------------------------------

(* The names of a path, and those of two paths one behind the other.       *)
Names(names) ==
  /\ names \in Seq(STRING)
  /\ Len(names) > 0
  /\ \A k \in 1 .. Len(names) : <<names[k]>> \in Paths

LEMMA PathNamed ==
  ASSUME NEW path \in Paths
  PROVE  Names(path)
  BY PathIndex DEF Names

LEMMA BothNamed ==
  ASSUME NEW path \in Paths, NEW corresponding_path \in Paths
  PROVE  /\ Names(path \o corresponding_path)
         /\ Len(path \o corresponding_path) >= 2
         /\ (path \o corresponding_path)[1] = path[1]
<1>1. PICK a, b : a = path /\ b = corresponding_path
  OBVIOUS
<1>2. /\ a \in Seq(STRING) /\ b \in Seq(STRING)
      /\ Len(a) \in Nat /\ Len(b) \in Nat /\ Len(a) > 0 /\ Len(b) > 0
      /\ \A k \in 1 .. Len(a) : <<a[k]>> \in Paths
      /\ \A k \in 1 .. Len(b) : <<b[k]>> \in Paths
  BY <1>1, PathIndex
<1>3. PICK names : names = a \o b
  OBVIOUS
<1>4. /\ names \in Seq(STRING) /\ Len(names) = Len(a) + Len(b)
      /\ \A k \in 1 .. Len(a) + Len(b) : names[k] = IF k <= Len(a) THEN a[k] ELSE b[k - Len(a)]
  BY <1>2, <1>3, ConcatProperties
<1>5. ASSUME NEW k \in 1 .. Len(names)
      PROVE  <<names[k]>> \in Paths
  <2>1. CASE k <= Len(a)
    <3>1. k \in 1 .. Len(a) /\ names[k] = a[k]
      BY <1>2, <1>4, <2>1
    <3> QED BY <1>2, <3>1
  <2>2. CASE ~ (k <= Len(a))
    <3>1. k - Len(a) \in 1 .. Len(b) /\ names[k] = b[k - Len(a)]
      BY <1>2, <1>4, <2>2
    <3> QED BY <1>2, <3>1
  <2> QED BY <2>1, <2>2
<1>6. Len(names) >= 2 /\ names[1] = a[1]
  BY <1>2, <1>4
<1>7. Names(names)
  BY <1>4, <1>5, <1>6 DEF Names
<1> QED BY <1>1, <1>3, <1>6, <1>7

LEMMA FrontNamed ==
  ASSUME NEW names, Names(names)
  PROVE  /\ Len(Front(names)) \in Nat
         /\ Len(Front(names)) = Len(names) - 1
         /\ \A k \in 1 .. Len(Front(names)) :
              Front(names)[k] = names[k] /\ <<Front(names)[k]>> \in Paths
         /\ <<Last(names)>> \in Paths /\ Len(<<Last(names)>>) = 1
<1>1. PICK N \in Nat : N = Len(names) /\ N > 0 /\ names \in Seq(STRING)
  BY DEF Names
<1>2. 1 \in 1 .. N + 1 /\ N - 1 \in 0 .. N
  BY <1>1
<1>3. PICK front : front = SubSeq(names, 1, N - 1)
  OBVIOUS
<1>4. Front(names) = front /\ Last(names) = names[N]
  BY <1>1, <1>3 DEF Front, Last
<1>5. Len(front) = N - 1 /\ \A k \in 1 .. N - 1 : front[k] = names[k]
  BY <1>1, <1>2, <1>3
<1>6. \A k \in 1 .. N : <<names[k]>> \in Paths
  BY <1>1 DEF Names
<1> QED BY <1>1, <1>4, <1>5, <1>6

-----------------------------------------------------------------------------

(* Between two calls, all files of the tree but the root are named.        *)
LEMMA Between ==
  ASSUME TreeInv, Ready, NEW d, d = disk, NEW K, K = known,
         NEW curr, curr = curr_directory_inode_number
  PROVE  /\ Tree(d, K, curr, removed)
         /\ AllNamed(d, K, removed, {root})
         /\ Call = At(d, K)
<1>1. alive /\ ~undefined
  BY DEF Ready
<1>2. Tree(d, K, curr, removed) /\ mp = << >> /\ AllNamed(d, K, removed, {root})
  BY <1>1 DEF TreeInv
<1> QED BY <1>2 DEF Call, At

(* Where the way to the last name of a path leads.                         *)
Comes(d, K, curr, names, walk) ==
  /\ Arrived(walk)
  /\ walk.call = At(d, K)
  /\ walk.at \in K /\ inode_at(d, walk.at).is_directory
  /\ \/ Len(names) = 1 /\ walk.at = curr
     \/ /\ Len(names) = 2 /\ curr < walk.at
        /\ Live(d, curr) /\ LeadsTo(d, curr, <<names[1]>>, walk.at)

LEMMA HaltsThere ==
  ASSUME NEW d, NEW K, NEW curr, NEW names, NEW walk, Comes(d, K, curr, names, walk),
         Ends(d, walk.at)
  PROVE  Halts(d, K, curr, names)
<1>1. CASE Len(names) = 1 /\ walk.at = curr
  <2>1. Len(names) >= 1
    BY <1>1
  <2> QED BY <1>1, <2>1 DEF Halts
<1>2. CASE /\ Len(names) = 2
           /\ Live(d, curr) /\ LeadsTo(d, curr, <<names[1]>>, walk.at)
  <2>1. Len(names) >= 2
    BY <1>2
  <2> QED BY <1>2, <2>1 DEF Halts, Comes
<1> QED BY <1>1, <1>2 DEF Comes

LEMMA WayToLast ==
  ASSUME EnoughRoom, NEW d, NEW K, NEW curr, NEW gone, Tree(d, K, curr, gone),
         curr = curr_directory_inode_number, NEW names, Names(names),
         NEW walk, walk = traverse_hierachy(At(d, K), Front(names))
  PROVE  \/ ~Arrived(walk) /\ Idle(d, K, curr, names, walk.call)
         \/ Comes(d, K, curr, names, walk)
<1>1. PICK front : front = Front(names)
  OBVIOUS
<1>2. PICK N \in Nat : N = Len(names)
  BY DEF Names
<1>3. /\ Len(front) \in Nat
      /\ Len(front) = N - 1
      /\ \A k \in 1 .. Len(front) : front[k] = names[k] /\ <<front[k]>> \in Paths
  BY <1>1, <1>2, FrontNamed
<1>4. Walks(d, K, curr, front, walk)
  BY <1>1, <1>3, Traverse
<1>5. CASE Failed(d, K, curr, front, walk)
  <2>1. ~Arrived(walk)
    BY <1>5 DEF Failed, Arrived
  <2>2. ASSUME Halts(d, K, curr, front)
        PROVE  Halts(d, K, curr, names)
    <3>1. PICK M \in Nat : M = Len(front) /\ M = N - 1
      BY <1>3
    <3>2. /\ Len(front) >= 1 => Len(names) >= 1
          /\ Len(front) >= 2 => Len(names) >= 2 /\ front[1] = names[1]
      <4>1. M >= 1 => N >= 1
        BY <3>1
      <4>2. M >= 2 => N >= 2 /\ 1 \in 1 .. M
        BY <3>1
      <4> QED BY <1>2, <1>3, <3>1, <4>1, <4>2
    <3> QED BY <2>2, <3>2 DEF Halts
  <2>3. Idle(d, K, curr, names, walk.call)
    BY <1>5, <2>2 DEF Failed, Idle
  <2> QED BY <2>1, <2>3
<1>6. CASE Len(front) = 0 /\ walk.at = curr /\ walk.call = At(d, K)
  <2>1. curr \in K /\ inode_at(d, curr).is_directory /\ -1 \notin K
    BY NumbersOfTree DEF Tree
  <2>2. N - 1 = 0
    BY <1>3, <1>6, Zenon
  <2>3. N = 1
    BY <2>2
  <2>4. Len(names) = 1
    BY <1>2, <2>3
  <2>5. Arrived(walk)
    BY <1>6, <2>1 DEF Arrived, Going, At
  <2> QED BY <1>6, <2>1, <2>4, <2>5 DEF Comes
<1>7. CASE Len(front) = 1 /\ Inside(d, K, curr, front[1], walk)
  <2>1. /\ walk.call = At(d, K) /\ Live(d, curr)
        /\ LeadsTo(d, curr, <<front[1]>>, walk.at)
        /\ walk.at \in K /\ curr < walk.at /\ inode_at(d, walk.at).is_directory
    BY <1>7 DEF Inside
  <2>2. Len(names) = 2 /\ front[1] = names[1]
    <3>1. Len(front) = 1
      BY <1>7
    <3>2. N - 1 = 1
      BY <1>3, <3>1, Zenon
    <3>3. N = 2
      BY <3>2
    <3>4. Len(names) = 2
      BY <1>2, <3>3
    <3>5. 1 \in 1 .. Len(front)
      BY <3>1
    <3>6. front[1] = names[1]
      BY <1>3, <3>5
    <3> QED BY <3>4, <3>6
  <2>3. Arrived(walk)
    BY <2>1, NumbersOfTree DEF Arrived, Going, At
  <2> QED BY <2>1, <2>2, <2>3 DEF Comes
<1> QED BY <1>4, <1>5, <1>6, <1>7 DEF Walks

(* What a call along names returns: it has used an undefined inode, or     *)
(* kept the tree and ended the process only over a directory of theirs.    *)
Settles(names, call) ==
  \/ call.status = "undefined"
  \/ /\ Effect(disk, known, curr_directory_inode_number, call, removed')
     /\ NoMoreLinks(disk, call.disk, known)
     /\ call.status = "exited" =>
          Halts(disk, known, curr_directory_inode_number, names)

LEMMA IdleSettles ==
  ASSUME TreeInv, Ready, NEW call, Return(call), NEW names,
         Idle(disk, known, curr_directory_inode_number, names, call)
  PROVE  Settles(names, call)
<1>1. PICK d, K, curr, left : /\ d = disk /\ K = known /\ left = removed'
                              /\ curr = curr_directory_inode_number
  OBVIOUS
<1>2. Tree(d, K, curr, removed) /\ AllNamed(d, K, removed, {root})
  BY <1>1, Between
<1>3. removed \subseteq left
  BY <1>1 DEF Return
<1>4. /\ Effect(d, K, curr, call, left)
      /\ NoMoreLinks(d, call.disk, K)
      /\ call.status = "exited" => Halts(d, K, curr, names)
  BY <1>1, <1>2, <1>3, IdleEffect
<1> QED BY <1>1, <1>4 DEF Settles

(* What change_directory makes of the tree.                                *)
LEMMA ChangeStep ==
  ASSUME EnoughRoom, TreeInv, NEW path \in Paths, change_directory(path)
  PROVE  /\ \E call : Return(call) /\ Settles(path, call)
         /\ \/ UNCHANGED curr_directory_inode_number
            \/ /\ UNCHANGED <<disk, known>>
               /\ curr_directory_inode_number' \in known
               /\ curr_directory_inode_number < curr_directory_inode_number'
               /\ inode_at(disk, curr_directory_inode_number').is_directory
<1>1. PICK d, K, curr : d = disk /\ K = known /\ curr = curr_directory_inode_number
  OBVIOUS
<1>2. Ready
  BY DEF change_directory
<1>3. Tree(d, K, curr, removed) /\ Call = At(d, K)
  BY <1>1, <1>2, Between
<1>4. PICK walk : /\ walk = traverse_hierachy(At(d, K), path)
                  /\ Return(walk.call)
                  /\ curr_directory_inode_number' = IF Arrived(walk) THEN walk.at ELSE curr
  BY <1>1, <1>3 DEF change_directory
<1>5. Walks(d, K, curr, path, walk)
  <2>1. Len(path) \in Nat /\ \A k \in 1 .. Len(path) : <<path[k]>> \in Paths
    BY PathIndex
  <2> QED BY <1>1, <1>3, <1>4, <2>1, Traverse
<1>6. CASE Failed(d, K, curr, path, walk)
  <2>1. ~Arrived(walk) /\ Idle(d, K, curr, path, walk.call)
    BY <1>6 DEF Failed, Arrived, Idle
  <2> QED BY <1>1, <1>2, <1>4, <2>1, IdleSettles
<1>7. CASE Inside(d, K, curr, path[1], walk)
  <2>1. /\ walk.call = At(d, K)
        /\ walk.at \in K /\ curr < walk.at /\ inode_at(d, walk.at).is_directory
    BY <1>7 DEF Inside
  <2>2. Arrived(walk) /\ Idle(d, K, curr, path, walk.call)
    BY <1>3, <2>1, NumbersOfTree DEF Arrived, Going, At, Idle
  <2>3. Settles(path, walk.call)
    BY <1>1, <1>2, <1>4, <2>2, IdleSettles
  <2>4. UNCHANGED <<disk, known>>
    BY <1>1, <1>4, <2>1 DEF Return, At
  <2> QED BY <1>1, <1>4, <2>1, <2>2, <2>3, <2>4
<1>8. Len(path) > 0
  BY PathIndex
<1> QED BY <1>5, <1>6, <1>7, <1>8 DEF Walks

(* A file is made where the way leads, by both calls that make one.        *)
LEMMA CreationSettles ==
  ASSUME EnoughRoom, TreeInv, Ready, MayCreate, NEW path \in Paths,
         NEW walk, walk = traverse_hierachy(Call, Front(path)), Arrived(walk),
         NEW mode \in SUBSET Permissions, NEW flag \in BOOLEAN,
         NEW mask \in SUBSET Permissions, "WRITE_BIT" \in mask,
         NEW call, call = WithNewFile(walk.call, walk.at, path, mode, flag, mask),
         Return(call)
  PROVE  Settles(path, call)
<1>1. PICK d, K, curr, gone, left :
        /\ d = disk /\ K = known /\ gone = removed /\ left = removed'
        /\ curr = curr_directory_inode_number
  OBVIOUS
<1>2. Tree(d, K, curr, gone) /\ AllNamed(d, K, gone, {root}) /\ Call = At(d, K)
  BY <1>1, Between
<1>3. gone \subseteq left
  BY <1>1 DEF Return
<1>4. Comes(d, K, curr, path, walk)
  BY <1>1, <1>2, PathNamed, WayToLast
<1>5. PICK n : n = walk.at
  OBVIOUS
<1>6. n \in K /\ inode_at(d, n).is_directory /\ walk.call = At(d, K)
  BY <1>4, <1>5 DEF Comes
<1>7. NamesIn(path, curr, n)
  BY <1>4, <1>5 DEF Comes, NamesIn
<1>8. Cardinality(K \cup {VacantInode(d).ret}) <= MaxFiles
  BY <1>1 DEF MayCreate
<1>9. call = WithNewFile(At(d, K), n, path, mode, flag, mask)
  BY <1>5, <1>6
<1>10. CASE call.status # "undefined"
  <2>1. /\ Effect(d, K, curr, call, left)
        /\ NoMoreLinks(d, call.disk, K)
        /\ call.status = "exited" => Ends(d, n)
    <3>1. MakesFile(d, K, curr, n, path, mode, flag, mask, call)
      BY <1>6, <1>7, <1>9 DEF MakesFile
    <3> QED BY <1>2, <1>3, <1>8, <1>10, <3>1, NewFileEffect
  <2>2. Ends(d, n) => Halts(d, K, curr, path)
    BY <1>4, <1>5, HaltsThere
  <2> QED BY <1>1, <2>1, <2>2 DEF Settles
<1> QED BY <1>10 DEF Settles

LEMMA CreateFileStep ==
  ASSUME EnoughRoom, TreeInv, NEW path \in Paths, NEW permissions, NEW is_directory \in Kinds,
         shell_create_file(path, permissions, is_directory)
  PROVE  \E call : Return(call) /\ Settles(path, call)
<1>1. PICK d, K, curr : d = disk /\ K = known /\ curr = curr_directory_inode_number
  OBVIOUS
<1>2. Ready /\ MayCreate
  BY DEF shell_create_file
<1>3. Tree(d, K, curr, removed) /\ Call = At(d, K)
  BY <1>1, <1>2, Between
<1>4. PICK walk : /\ walk = traverse_hierachy(Call, Front(path))
                  /\ Return(IF Arrived(walk) /\ ValidPermissions(permissions)
                            THEN WithNewFile(walk.call, walk.at, path,
                                   extract_permissions(permissions), is_directory, {"WRITE_BIT"})
                            ELSE walk.call)
  BY DEF shell_create_file
<1>5. \/ ~Arrived(walk) /\ Idle(d, K, curr, path, walk.call)
      \/ Comes(d, K, curr, path, walk)
  BY <1>1, <1>3, <1>4, PathNamed, WayToLast
<1>6. CASE ~ (Arrived(walk) /\ ValidPermissions(permissions))
  <2>1. Return(walk.call)
    BY <1>4, <1>6
  <2>2. Idle(d, K, curr, path, walk.call)
    BY <1>5 DEF Comes, Idle
  <2> QED BY <1>1, <1>2, <2>1, <2>2, IdleSettles
<1>7. CASE Arrived(walk) /\ ValidPermissions(permissions)
  <2>1. PICK call : call = WithNewFile(walk.call, walk.at, path,
                             extract_permissions(permissions), is_directory, {"WRITE_BIT"})
    OBVIOUS
  <2>2. Return(call)
    BY <1>4, <1>7, <2>1
  <2>3. extract_permissions(permissions) \in SUBSET Permissions
    BY DEF extract_permissions, Permissions
  <2>4. {"WRITE_BIT"} \in SUBSET Permissions /\ "WRITE_BIT" \in {"WRITE_BIT"}
    BY DEF Permissions
  <2>5. is_directory \in BOOLEAN
    BY Ex2Assumption
  <2> QED BY <1>2, <1>4, <1>7, <2>1, <2>2, <2>3, <2>4, <2>5, CreationSettles
<1> QED BY <1>6, <1>7

LEMMA CreateDirectoryStep ==
  ASSUME EnoughRoom, TreeInv, NEW path \in Paths, create_directory(path)
  PROVE  \E call : Return(call) /\ Settles(path, call)
<1>1. PICK d, K, curr : d = disk /\ K = known /\ curr = curr_directory_inode_number
  OBVIOUS
<1>2. Ready /\ MayCreate
  BY DEF create_directory
<1>3. Tree(d, K, curr, removed) /\ Call = At(d, K)
  BY <1>1, <1>2, Between
<1>4. PICK walk : /\ walk = traverse_hierachy(Call, Front(path))
                  /\ Return(IF Arrived(walk)
                            THEN WithNewFile(walk.call, walk.at, path, Permissions, TRUE, Permissions)
                            ELSE walk.call)
  BY DEF create_directory
<1>5. \/ ~Arrived(walk) /\ Idle(d, K, curr, path, walk.call)
      \/ Comes(d, K, curr, path, walk)
  BY <1>1, <1>3, <1>4, PathNamed, WayToLast
<1>6. CASE ~Arrived(walk)
  <2>1. Return(walk.call)
    BY <1>4, <1>6
  <2>2. Idle(d, K, curr, path, walk.call)
    BY <1>5 DEF Comes, Idle
  <2> QED BY <1>1, <1>2, <2>1, <2>2, IdleSettles
<1>7. CASE Arrived(walk)
  <2>1. PICK call : call = WithNewFile(walk.call, walk.at, path, Permissions, TRUE, Permissions)
    OBVIOUS
  <2>2. Return(call)
    BY <1>4, <1>7, <2>1
  <2>3. Permissions \in SUBSET Permissions /\ "WRITE_BIT" \in Permissions
    BY DEF Permissions
  <2> QED BY <1>2, <1>4, <1>7, <2>1, <2>2, <2>3, CreationSettles
<1> QED BY <1>6, <1>7

(* A link is taken from the file named, wherever the way leads.            *)
LEMMA RemoveStep ==
  ASSUME EnoughRoom, TreeInv, NEW path \in Paths, remove_file(path)
  PROVE  \E call : Return(call) /\ Settles(path, call)
<1>1. PICK d, K, curr, left : /\ d = disk /\ K = known /\ left = removed'
                              /\ curr = curr_directory_inode_number
  OBVIOUS
<1>2. Ready
  BY DEF remove_file
<1>3. Tree(d, K, curr, removed) /\ AllNamed(d, K, removed, {root}) /\ Call = At(d, K)
  BY <1>1, <1>2, Between
<1>4. PICK walk, info, n :
        /\ walk = traverse_hierachy(Call, Front(path))
        /\ info = get_file_info(walk.call, walk.at, <<Last(path)>>)
        /\ n = (CHOOSE entry \in info.found : TRUE).inode_number
  OBVIOUS
<1>5. \/ ~Arrived(walk) /\ Return(walk.call)
      \/ /\ Arrived(walk)
         /\ ~Going(info.call) \/ info.found = {}
         /\ Return(info.call)
      \/ /\ Arrived(walk) /\ Going(info.call) /\ info.found # {}
         /\ IF InodeReadable(disk, n)
            THEN /\ inode_at(disk, n).hard_link_count = 1 =>
                      DeletionsIn(disk, n \div NUM_INODES_PER_GROUP) < MaxDeletions
                 /\ Return([info.call EXCEPT !.disk = DeletedDisk(info.call.disk, n,
                                                        inode_at(info.call.disk, n))])
            ELSE Return([info.call EXCEPT !.status = "undefined"])
  BY <1>4 DEF remove_file
<1>6. \/ ~Arrived(walk) /\ Idle(d, K, curr, path, walk.call)
      \/ Comes(d, K, curr, path, walk)
  BY <1>1, <1>3, <1>4, PathNamed, WayToLast
<1>7. CASE ~Arrived(walk)
  <2>1. Return(walk.call) /\ Idle(d, K, curr, path, walk.call)
    BY <1>1, <1>5, <1>6, <1>7 DEF Comes
  <2> QED BY <1>1, <1>2, <2>1, IdleSettles
<1>8. CASE Arrived(walk)
  <2>1. PICK at : at = walk.at
    OBVIOUS
  <2>2. at \in K /\ inode_at(d, at).is_directory /\ walk.call = At(d, K)
    BY <1>6, <1>8, <2>1 DEF Comes
  <2>3. Looks(d, K, at, <<Last(path)>>, info)
    BY <1>3, <1>4, <2>1, <2>2, LookForName
  <2>4. CASE ~Going(info.call) \/ info.found = {}
    <3>1. Idle(d, K, curr, path, info.call)
      <4>1. Ends(d, at) => Halts(d, K, curr, path)
        BY <1>6, <1>8, <2>1, HaltsThere
      <4> QED BY <2>3, <4>1 DEF Looks, Idle
    <3>2. Return(info.call)
      BY <1>5, <1>8, <2>4
    <3> QED BY <1>1, <1>2, <3>1, <3>2, IdleSettles
  <2>5. CASE Going(info.call) /\ info.found # {}
    <3>1. PICK i \in Entries(d, at) : /\ Live(d, at)
                                      /\ info.call = At(d, K)
                                      /\ info.found = {Entry(d, at, i)}
      BY <2>3, <2>5 DEF Looks
    <3>2. n = Entry(d, at, i).inode_number
      BY <1>4, <3>1
    <3>3. n \in K
      BY <1>3, <2>2, <3>1, <3>2 DEF Tree, EntriesHold, EntryHolds
    <3>4. InodeReadable(d, n)
      BY <1>3, <3>3 DEF Tree, Files
    <3>5. PICK e : e = DeletedDisk(d, n, inode_at(d, n))
      OBVIOUS
    <3>6. /\ inode_at(d, n).hard_link_count = 1 =>
               DeletionsIn(d, n \div NUM_INODES_PER_GROUP) < MaxDeletions
          /\ Return(At(e, K))
      <4>1. [At(d, K) EXCEPT !.disk = DeletedDisk(d, n, inode_at(d, n))] = At(e, K)
        BY <3>5 DEF At
      <4>2. At(d, K).disk = d
        BY DEF At
      <4> QED BY <1>1, <1>5, <1>8, <2>5, <3>1, <3>4, <4>1, <4>2
    <3>7. left = removed \cup { m \in K : Attached(d, m) /\ ~Attached(e, m) }
      BY <1>1, <3>6 DEF Return, At
    <3>8. /\ GrownTree(d, K, e, K, left)
          /\ inode_at(e, n).hard_link_count <= inode_at(d, n).hard_link_count
          /\ \A m \in K \ {n} : inode_at(e, m) = inode_at(d, m)
      <4>1. inode_at(d, n).hard_link_count = 1 =>
              DeletionsIn(d, n \div NUM_INODES_PER_GROUP) < MaxDeletions
        BY <3>6
      <4>2. Tree(d, K, curr, removed)
        BY <1>3
      <4> QED BY <3>3, <3>5, <3>7, <4>1, <4>2, DeletionKeepsTree
    <3>9. Effect(d, K, curr, At(e, K), left)
      BY <1>3, <3>7, <3>8, LinksEffect
    <3>10. NoMoreLinks(d, e, K)
      BY <1>3, <3>8, LinksAreNumbers DEF NoMoreLinks
    <3>11. Settles(path, At(e, K))
      <4>1. At(e, K).disk = e /\ At(e, K).status # "exited"
        BY DEF At
      <4> QED BY <1>1, <3>9, <3>10, <4>1 DEF Settles
    <3> QED BY <3>6, <3>11
  <2> QED BY <2>4, <2>5
<1> QED BY <1>7, <1>8

(* What is linked is the directory the first of two names leads to, which  *)
(* has nothing of the second name in it.                                   *)
Linked(d, K, curr, names, n, call) ==
  /\ n \in K /\ Live(d, curr) /\ Live(d, n)
  /\ Len(names) = 2
  /\ LeadsTo(d, curr, <<names[1]>>, n)
  /\ NoneOf(d, n, NameCode(<<names[2]>>))
  /\ \A m \in K \ {n} : inode_at(call.disk, m) = inode_at(d, m)

LEMMA HardLinkStep ==
  ASSUME EnoughRoom, TreeInv, NEW path \in Paths, NEW corresponding_path \in Paths,
         create_hard_link(path, corresponding_path)
  PROVE  \E call :
           /\ Return(call)
           /\ \/ Settles(path \o corresponding_path, call)
              \/ /\ call.status = "going"
                 /\ Effect(disk, known, curr_directory_inode_number, call, removed')
                 /\ \E n : Linked(disk, known, curr_directory_inode_number,
                                  path \o corresponding_path, n, call)
<1>1. PICK d, K, curr, left : /\ d = disk /\ K = known /\ left = removed'
                              /\ curr = curr_directory_inode_number
  OBVIOUS
<1>2. Ready
  BY DEF create_hard_link
<1>3. Tree(d, K, curr, removed) /\ AllNamed(d, K, removed, {root}) /\ Call = At(d, K)
  BY <1>1, <1>2, Between
<1>4. PICK names, walk, info, n :
        /\ names = path \o corresponding_path
        /\ walk = traverse_hierachy(Call, Front(names))
        /\ info = get_file_info(walk.call, walk.at, <<Last(names)>>)
        /\ n = IF info.found = {} THEN walk.at
               ELSE (CHOOSE entry \in info.found : TRUE).inode_number
  OBVIOUS
<1>5. \/ ~Arrived(walk) /\ Return(walk.call)
      \/ Arrived(walk) /\ ~Going(info.call) /\ Return(info.call)
      \/ /\ Arrived(walk) /\ Going(info.call)
         /\ IF InodeReadable(disk, n)
            THEN /\ inode_at(disk, n).hard_link_count < MaxLinks
                 /\ Return([info.call EXCEPT !.disk = LinkedDisk(info.call.disk, n,
                                                        inode_at(info.call.disk, n))])
            ELSE Return([info.call EXCEPT !.status = "undefined"])
  BY <1>4 DEF create_hard_link
<1>6. Names(names) /\ Len(names) >= 2
  BY <1>4, BothNamed
<1>7. \/ ~Arrived(walk) /\ Idle(d, K, curr, names, walk.call)
      \/ Comes(d, K, curr, names, walk)
  BY <1>1, <1>3, <1>4, <1>6, WayToLast
<1>8. CASE ~Arrived(walk)
  <2>1. Return(walk.call) /\ Idle(d, K, curr, names, walk.call)
    BY <1>1, <1>5, <1>7, <1>8 DEF Comes
  <2>2. Settles(names, walk.call)
    BY <1>1, <1>2, <2>1, IdleSettles
  <2> QED BY <1>4, <2>1, <2>2
<1>9. CASE Arrived(walk)
  <2>1. PICK at : at = walk.at
    OBVIOUS
  <2>2. /\ at \in K /\ inode_at(d, at).is_directory /\ walk.call = At(d, K)
        /\ curr < at /\ Live(d, curr) /\ LeadsTo(d, curr, <<names[1]>>, at)
        /\ Len(names) = 2
    BY <1>6, <1>7, <1>9, <2>1 DEF Comes
  <2>3. Looks(d, K, at, <<Last(names)>>, info)
    BY <1>3, <1>4, <2>1, <2>2, LookForName
  <2>4. CASE ~Going(info.call)
    <3>1. Idle(d, K, curr, names, info.call)
      <4>1. Ends(d, at) => Halts(d, K, curr, names)
        BY <1>7, <1>9, <2>1, HaltsThere
      <4> QED BY <2>3, <4>1 DEF Looks, Idle
    <3>2. Return(info.call)
      BY <1>5, <1>9, <2>4
    <3>3. Settles(names, info.call)
      BY <1>1, <1>2, <3>1, <3>2, IdleSettles
    <3> QED BY <1>4, <3>2, <3>3
  <2>5. CASE Going(info.call)
    <3>1. info.call # Lost(d, K)
      BY <2>5 DEF Going, Lost
    <3>2. <<Last(names)>> \in Paths /\ Len(<<Last(names)>>) = 1
      BY <1>6, FrontNamed
    <3>3. Live(d, at) /\ info.call = At(d, K)
      BY <2>3, <3>1 DEF Looks
    <3>4. NoneOf(d, at, NameCode(<<Last(names)>>))
      BY <1>3, <2>2, <3>2, <3>3, NoNameAhead
    <3>5. info.found = {}
      BY <2>3, <3>1, <3>4 DEF Looks, NoneOf, FirstOf
    <3>6. n = at
      BY <1>4, <2>1, <3>5
    <3>7. InodeReadable(d, n)
      BY <1>3, <2>2, <3>6 DEF Tree, Files
    <3>8. PICK e : e = LinkedDisk(d, n, inode_at(d, n))
      OBVIOUS
    <3>9. Return(At(e, K))
      <4>1. [At(d, K) EXCEPT !.disk = LinkedDisk(d, n, inode_at(d, n))] = At(e, K)
        BY <3>8 DEF At
      <4>2. At(d, K).disk = d
        BY DEF At
      <4> QED BY <1>1, <1>5, <1>9, <2>5, <3>3, <3>7, <4>1, <4>2
    <3>10. /\ GrownTree(d, K, e, K, removed)
           /\ \A m \in K \ {n} : inode_at(e, m) = inode_at(d, m)
      <4>1. n \in K /\ inode_at(d, n).hard_link_count > 0
        BY <2>2, <3>3, <3>6 DEF Live
      <4> QED BY <1>3, <3>8, <4>1, LinkKeepsTree
    <3>11. removed \subseteq left
      BY <1>1, <3>9 DEF Return
    <3>12. GrownTree(d, K, e, K, left)
      BY <3>10, <3>11 DEF GrownTree
    <3>13. Effect(d, K, curr, At(e, K), left)
      BY <1>3, <3>11, <3>12, LinksEffect
    <3>14. Linked(d, K, curr, names, n, At(e, K))
      <4>1. Last(names) = names[2] /\ At(e, K).disk = e
        BY <2>2 DEF Last, At
      <4> QED BY <2>2, <3>3, <3>4, <3>6, <3>10, <4>1 DEF Linked
    <3>15. At(e, K).status = "going"
      BY DEF At
    <3> QED BY <1>1, <1>4, <3>9, <3>13, <3>14, <3>15
  <2> QED BY <2>4, <2>5
<1> QED BY <1>8, <1>9

(* The first name that is not found ends the search.                       *)
IsSearch(look, call, n, names) ==
  look = [i \in 1 .. Len(names) |->
            IF i > 1 /\ (look[i - 1].found = {} \/ ~Going(look[i - 1].call))
            THEN look[i - 1]
            ELSE LookedUp(IF i = 1 THEN call ELSE look[i - 1].call, n, names[i],
                          i = Len(names))]

LEMMA SearchEnds ==
  ASSUME NEW call, NEW n, NEW names, Len(names) \in Nat, Len(names) >= 1,
         NEW first, first = LookedUp(call, n, names[1], 1 = Len(names)), first.found = {}
  PROVE  LookedUpAll(call, n, names) = first
<1>1. PICK N \in Nat : N = Len(names) /\ N >= 1
  OBVIOUS
<1>2. PICK constant : constant = [i \in 1 .. N |-> first]
  OBVIOUS
<1>3. ASSUME NEW i \in 1 .. N
      PROVE  first = IF i > 1 /\ (constant[i - 1].found = {} \/ ~Going(constant[i - 1].call))
                     THEN constant[i - 1]
                     ELSE LookedUp(IF i = 1 THEN call ELSE constant[i - 1].call, n, names[i], i = N)
  <2>1. CASE i = 1
    BY <1>1, <2>1
  <2>2. CASE i # 1
    <3>1. i > 1 /\ i - 1 \in 1 .. N
      BY <1>1, <2>2
    <3>2. constant[i - 1] = first
      BY <1>2, <3>1
    <3> QED BY <3>1, <3>2
  <2> QED BY <2>1, <2>2
<1>4. IsSearch(constant, call, n, names)
  <2>1. constant = [i \in 1 .. N |->
                      IF i > 1 /\ (constant[i - 1].found = {} \/ ~Going(constant[i - 1].call))
                      THEN constant[i - 1]
                      ELSE LookedUp(IF i = 1 THEN call ELSE constant[i - 1].call, n, names[i],
                                    i = N)]
    BY <1>2, <1>3
  <2> QED BY <1>1, <2>1 DEF IsSearch
<1>5. PICK look : look = CHOOSE l : IsSearch(l, call, n, names)
  OBVIOUS
<1>6. IsSearch(look, call, n, names)
  BY <1>4, <1>5
<1>7. LookedUpAll(call, n, names) = look[N]
  BY <1>1, <1>5 DEF LookedUpAll, IsSearch
<1>8. ASSUME NEW i \in 1 .. N
      PROVE  look[i] = IF i > 1 /\ (look[i - 1].found = {} \/ ~Going(look[i - 1].call))
                       THEN look[i - 1]
                       ELSE LookedUp(IF i = 1 THEN call ELSE look[i - 1].call, n, names[i], i = N)
  BY <1>1, <1>6 DEF IsSearch
<1>9. look[1] = first
  <2>1. 1 \in 1 .. N /\ ~ (1 > 1)
    BY <1>1
  <2> QED BY <1>1, <1>8, <2>1
<1>10. ASSUME NEW S, S = { i \in 1 .. N : look[i] # first }, S # {}
       PROVE  FALSE
  <2>1. S \subseteq Nat
    BY <1>10
  <2>2. PICK i \in S : \A other \in S : i <= other
    BY <1>10, <2>1, LeastNatural
  <2>3. i \in 1 .. N /\ look[i] # first
    BY <1>10, <2>2
  <2>4. i > 1 /\ i - 1 \in 1 .. N /\ ~ (i <= i - 1)
    BY <1>1, <1>9, <2>3
  <2>5. look[i - 1] = first
    BY <1>10, <2>2, <2>4
  <2>6. look[i] = look[i - 1]
    BY <1>8, <2>3, <2>4, <2>5
  <2> QED BY <2>3, <2>5, <2>6
<1>11. look[N] = first
  <2>1. N \in 1 .. N
    BY <1>1
  <2>2. N \notin { i \in 1 .. N : look[i] # first }
    BY <1>10
  <2> QED BY <2>1, <2>2
<1> QED BY <1>7, <1>11

(* No name of a soft link is ever found: the first is the path that must   *)
(* not be there, or it is looked up in a directory without names alone.    *)
LEMMA SoftLinkStep ==
  ASSUME EnoughRoom, TreeInv, NEW path \in Paths, NEW corresponding_path \in Paths,
         create_soft_link(path, corresponding_path)
  PROVE  \E call : Return(call) /\ Settles(path, call)
<1>1. PICK d, K, curr : d = disk /\ K = known /\ curr = curr_directory_inode_number
  OBVIOUS
<1>2. Ready
  BY DEF create_soft_link
<1>3. Tree(d, K, curr, removed) /\ Call = At(d, K)
  BY <1>1, <1>2, Between
<1>4. PICK names, walk, taken, look :
        /\ names = path \o corresponding_path
        /\ walk = traverse_hierachy(Call, Front(path))
        /\ taken = get_file_info(walk.call, walk.at, path)
        /\ look = LookedUpAll(taken.call, walk.at, names)
  OBVIOUS
<1>5. PICK call : call = IF ~Arrived(walk) THEN walk.call
                         ELSE IF taken.found # {} \/ ~Going(taken.call) THEN taken.call
                         ELSE IF look.found = {} \/ ~Going(look.call) THEN look.call
                         ELSE Appended(look.call, walk.at, {"WRITE_BIT"},
                                EntryCells(<<Last(path)>>,
                                           (CHOOSE e \in look.found : TRUE).inode_number,
                                           (CHOOSE e \in look.found : TRUE).is_directory))
  OBVIOUS
<1>6. Return(call)
  BY <1>4, <1>5 DEF create_soft_link
<1>7. SUFFICES Idle(d, K, curr, path, call)
  BY <1>1, <1>2, <1>6, IdleSettles
<1>8. Names(names) /\ Len(names) >= 2 /\ names[1] = path[1] /\ Len(names) \in Nat
  BY <1>4, BothNamed DEF Names
<1>9. \/ ~Arrived(walk) /\ Idle(d, K, curr, path, walk.call)
      \/ Comes(d, K, curr, path, walk)
  BY <1>1, <1>3, <1>4, PathNamed, WayToLast
<1>10. CASE ~Arrived(walk)
  BY <1>5, <1>9, <1>10 DEF Comes
<1>11. CASE Arrived(walk)
  <2>1. PICK at : at = walk.at
    OBVIOUS
  <2>2. /\ at \in K /\ inode_at(d, at).is_directory /\ walk.call = At(d, K)
        /\ (Len(path) = 1 \/ curr < at)
        /\ (Ends(d, at) => Halts(d, K, curr, path))
    BY <1>9, <1>11, <2>1, HaltsThere DEF Comes
  <2>3. Looks(d, K, at, path, taken)
    BY <1>3, <1>4, <2>1, <2>2, LookForName
  <2>4. CASE taken.found # {} \/ ~Going(taken.call)
    <3>1. call = taken.call
      BY <1>5, <1>11, <2>4
    <3> QED BY <2>2, <2>3, <3>1 DEF Looks, Idle
  <2>5. CASE ~ (taken.found # {} \/ ~Going(taken.call))
    <3>1. Live(d, at) /\ taken.call = At(d, K) /\ NoneOf(d, at, NameCode(path))
      <4>1. taken.call # Lost(d, K)
        BY <2>5 DEF Going, Lost
      <4> QED BY <2>3, <2>5, <4>1 DEF Looks
    <3>2. PICK info : info = get_file_info(At(d, K), at, <<names[1]>>)
      OBVIOUS
    <3>3. Looks(d, K, at, <<names[1]>>, info)
      BY <1>3, <2>2, <3>2, LookForName
    <3>4. NoneOf(d, at, NameCode(<<names[1]>>))
      <4>1. <<names[1]>> \in Paths
        <5>1. 1 \in 1 .. Len(names)
          BY <1>8
        <5> QED BY <1>8, <5>1 DEF Names
      <4>2. CASE Len(path) = 1
        <5>1. path = <<path[1]>>
          BY <4>2, PathIndex
        <5> QED BY <1>8, <3>1, <5>1
      <4>3. CASE curr < at
        <5>1. PICK single : single = <<names[1]>>
          OBVIOUS
        <5>2. single \in Paths /\ Len(single) = 1
          BY <4>1, <5>1
        <5> QED BY <1>3, <2>2, <3>1, <4>3, <5>1, <5>2, NoNameAhead
      <4> QED BY <2>2, <4>2, <4>3
    <3>5. info.found = {}
      BY <3>3, <3>4 DEF Looks, NoneOf, FirstOf
    <3>6. Idle(d, K, curr, path, info.call)
      BY <2>2, <3>3 DEF Looks, Idle
    <3>7. PICK first : first = LookedUp(At(d, K), at, names[1], 1 = Len(names))
      OBVIOUS
    <3>8. first.call = info.call /\ first.found = {}
      BY <3>2, <3>5, <3>7 DEF LookedUp
    <3>9. look = first
      <4>1. look = LookedUpAll(At(d, K), at, names)
        BY <1>4, <2>1, <3>1
      <4>2. Len(names) \in Nat /\ Len(names) >= 1
        BY <1>8
      <4> QED BY <3>7, <3>8, <4>1, <4>2, SearchEnds
    <3>10. call = look.call
      BY <1>5, <1>11, <2>5, <3>8, <3>9
    <3> QED BY <3>6, <3>8, <3>9, <3>10
  <2> QED BY <2>4, <2>5
<1> QED BY <1>10, <1>11

-----------------------------------------------------------------------------

(* Every call settles; only a hard link adds to the links of a file, and   *)
(* only a change of directory leads on, to a directory made later.         *)
Result(call) ==
  \/ call.status = "undefined"
  \/ /\ Effect(disk, known, curr_directory_inode_number, call, removed')
     /\ \/ NoMoreLinks(disk, call.disk, known)
        \/ \E path, corresponding_path \in Paths, n \in known :
             Linked(disk, known, curr_directory_inode_number,
                    path \o corresponding_path, n, call)

Moves ==
  \/ UNCHANGED curr_directory_inode_number
  \/ /\ UNCHANGED <<disk, known>>
     /\ curr_directory_inode_number' \in known
     /\ curr_directory_inode_number < curr_directory_inode_number'
     /\ inode_at(disk, curr_directory_inode_number').is_directory

Answered == Ready /\ Moves /\ \E call : Return(call) /\ Result(call)

LEMMA EveryCall ==
  ASSUME EnoughRoom, TreeInv, ShellNext
  PROVE  Answered
<1>1. PICK path \in Paths :
        \/ change_directory(path)
        \/ \E permissions \in PermissionStrings, is_directory \in Kinds :
             shell_create_file(path, permissions, is_directory)
        \/ create_directory(path)
        \/ remove_file(path)
        \/ \E corresponding_path \in Paths :
             \/ create_hard_link(path, corresponding_path)
             \/ create_soft_link(path, corresponding_path)
  BY DEF ShellNext, PathCall, LinkCall
<1>2. \A call, names : Settles(names, call) => Result(call)
  BY DEF Settles, Result
<1>3. CASE change_directory(path)
  <2>1. Ready
    BY <1>3 DEF change_directory
  <2>2. Moves /\ \E call : Return(call) /\ Settles(path, call)
    BY <1>3, ChangeStep DEF Moves
  <2> QED BY <1>2, <2>1, <2>2 DEF Answered
<1>4. ASSUME NEW permissions, NEW is_directory \in Kinds,
             shell_create_file(path, permissions, is_directory)
      PROVE  Answered
  <2>1. Ready /\ Moves
    BY <1>4 DEF shell_create_file, Moves
  <2>2. \E call : Return(call) /\ Settles(path, call)
    BY <1>4, CreateFileStep
  <2> QED BY <1>2, <2>1, <2>2 DEF Answered
<1>5. CASE create_directory(path)
  <2>1. Ready /\ Moves
    BY <1>5 DEF create_directory, Moves
  <2>2. \E call : Return(call) /\ Settles(path, call)
    BY <1>5, CreateDirectoryStep
  <2> QED BY <1>2, <2>1, <2>2 DEF Answered
<1>6. CASE remove_file(path)
  <2>1. Ready /\ Moves
    BY <1>6 DEF remove_file, Moves
  <2>2. \E call : Return(call) /\ Settles(path, call)
    BY <1>6, RemoveStep
  <2> QED BY <1>2, <2>1, <2>2 DEF Answered
<1>7. ASSUME NEW corresponding_path \in Paths, create_hard_link(path, corresponding_path)
      PROVE  Answered
  <2>1. Ready /\ Moves
    BY <1>7 DEF create_hard_link, Moves
  <2>2. PICK call :
          /\ Return(call)
          /\ \/ Settles(path \o corresponding_path, call)
             \/ /\ Effect(disk, known, curr_directory_inode_number, call, removed')
                /\ \E n : Linked(disk, known, curr_directory_inode_number,
                                 path \o corresponding_path, n, call)
    BY <1>7, HardLinkStep
  <2>3. CASE Settles(path \o corresponding_path, call)
    BY <1>2, <2>1, <2>2, <2>3 DEF Answered
  <2>4. ASSUME NEW n, Effect(disk, known, curr_directory_inode_number, call, removed'),
               Linked(disk, known, curr_directory_inode_number,
                      path \o corresponding_path, n, call)
        PROVE  Answered
    <3>1. n \in known
      BY <2>4 DEF Linked
    <3>2. Result(call)
      BY <2>4, <3>1 DEF Result
    <3> QED BY <2>1, <2>2, <3>2 DEF Answered
  <2> QED BY <2>2, <2>3, <2>4
<1>8. ASSUME NEW corresponding_path \in Paths, create_soft_link(path, corresponding_path)
      PROVE  Answered
  <2>1. Ready /\ Moves
    BY <1>8 DEF create_soft_link, Moves
  <2>2. \E call : Return(call) /\ Settles(path, call)
    BY <1>8, SoftLinkStep
  <2> QED BY <1>2, <2>1, <2>2 DEF Answered
<1> QED BY <1>1, <1>3, <1>4, <1>5, <1>6, <1>7, <1>8

-----------------------------------------------------------------------------

(* The formatted disk with its root directory is a tree.                   *)
LEMMA TreeAtStart ==
  ASSUME EnoughRoom, ShellInit, ~undefined
  PROVE  /\ Tree(disk, known, root, {})
         /\ known = {root} /\ mp = << >>
<1>1. PICK d, n : d = FormattedDisk /\ n = VacantInode(d).ret
  OBVIOUS
<1>2. PICK inode \in InodeRead(d, n) : disk = CreatedDisk(d, inode, Permissions, TRUE)
  BY <1>1 DEF ShellInit, Init
<1>3. known = {n} /\ mp = << >> /\ InodeReadable(d, n)
  BY <1>1 DEF ShellInit, Init
<1>4. inode = inode_at(d, n)
  BY <1>2, <1>3 DEF InodeRead, read_inode_info
<1>5. Records(d) /\ Files(d, {}) /\ GroupsWithInodes(d) # {}
  BY <1>1, FormattedFiles
<1>6. /\ \A g \in Groups : descriptor(d, g) = FreshDescriptor(g)
      /\ InodeBitsOf(d) = [g \in Groups |-> {}]
      /\ DataBitsOf(d) = [g \in Groups |-> {}]
  BY <1>1, FormattedSound
<1>7. CountsLeft(d)
  <2>1. ASSUME NEW g \in Groups
        PROVE  /\ descriptor(d, g).free_blocks_count # 0
               /\ descriptor(d, g).free_inodes_count
                    \in NUM_INODES_PER_GROUP - MaxDeletions .. NUM_INODES_PER_GROUP
    <3>1. /\ descriptor(d, g).free_blocks_count = DATA_BLOCKS_PER_GROUP
          /\ descriptor(d, g).free_inodes_count = NUM_INODES_PER_GROUP
      BY <1>6 DEF FreshDescriptor
    <3>2. /\ DATA_BLOCKS_PER_GROUP # 0 /\ NUM_INODES_PER_GROUP \in Nat
          /\ MaxDeletions \in Nat
      BY LayoutNumbers, Ex2Assumption
    <3> QED BY <3>1, <3>2
  <2> QED BY <2>1 DEF CountsLeft
<1>8. FirstGroup(d) = 0 /\ 0 \in Groups
  BY <1>5, <1>7, FirstGroupServes, RootPlace
<1>9. 0 \in InodeBits /\ InodeBits \subseteq Nat
  BY LayoutNumbers DEF InodeBits
<1>10. /\ n \in InodeNumbers
       /\ \/ InodeMapFull(d, 0)
          \/ \E bit \in InodeBits \ InodeBitsOf(d)[0] :
               /\ \A lower \in InodeBits : lower < bit => lower \in InodeBitsOf(d)[0]
               /\ n = InodeNumber(0, bit)
               /\ InodeBitsOf(VacantInode(d).disk) = [InodeBitsOf(d) EXCEPT ![0] = @ \cup {bit}]
  BY <1>1, <1>5, <1>8, VacantFound
<1>11. InodeBitsOf(d)[0] = {}
  BY <1>6, <1>8
<1>12. ~ InodeMapFull(d, 0)
  BY <1>8, <1>9, <1>11, FullInodeMap
<1>13. PICK bit \in InodeBits :
         /\ \A lower \in InodeBits : lower < bit => lower \in InodeBitsOf(d)[0]
         /\ n = InodeNumber(0, bit)
         /\ InodeBitsOf(VacantInode(d).disk) = [InodeBitsOf(d) EXCEPT ![0] = @ \cup {bit}]
  BY <1>10, <1>12
<1>14. bit = 0
  <2>1. ~ (0 < bit)
    BY <1>9, <1>11, <1>13
  <2> QED BY <1>9, <2>1
<1>15. n = root
  BY <1>13, <1>14 DEF root
<1>16. InodeBitsOf(VacantInode(d).disk)[0] = {0}
  <2>1. InodeBitsOf(VacantInode(d).disk)[0] = InodeBitsOf(d)[0] \cup {bit}
    BY <1>8, <1>13 DEF InodeBitsOf
  <2> QED BY <1>11, <1>14, <2>1
<1>17. FileMade(d, {}, disk, n, TRUE)
  <2>1. Permissions \in SUBSET Permissions /\ TRUE \in BOOLEAN /\ n \notin {}
    OBVIOUS
  <2>2. disk = CreatedDisk(d, inode_at(d, n), Permissions, TRUE)
    BY <1>2, <1>4
  <2> QED BY <1>1, <1>3, <1>5, <1>7, <1>8, <1>10, <2>1, <2>2, FileIsMade
<1>18. /\ Records(disk) /\ Files(disk, {root})
       /\ CountsLeft(disk)
       /\ InodeBitsOf(disk)[0] = {0}
       /\ DataBitsOf(disk) = [g \in Groups |-> {}]
       /\ root \div NUM_INODES_PER_GROUP \in Groups
       /\ inode_at(disk, root).is_directory
       /\ inode_at(disk, root).file_size = 0 /\ inode_at(disk, root).blocks[0] = 0
       /\ inode_at(disk, root).hard_link_count = 1
  <2>1. {} \cup {n} = {root} /\ n = root
    BY <1>15
  <2> QED BY <1>6, <1>16, <1>17, <2>1 DEF FileMade
<1>19. NumbersInOrder(disk, {root})
  <2>1. {root} = root .. root + 1 - 1 /\ {0} = 0 .. 1 - 1
    BY RootPlace
  <2>2. 1 \in 1 .. MaxFiles
    BY Ex2Assumption DEF EnoughRoom
  <2> QED BY <1>18, <2>1, <2>2 DEF NumbersInOrder
<1>20. OneBlockEach(disk, {root})
  <2>1. ASSUME NEW g \in Groups
        PROVE  Cardinality(DataBitsOf(disk)[g]) <= Cardinality(Sized(disk, {root}, g))
    <3>1. DataBitsOf(disk)[g] = {} /\ Sized(disk, {root}, g) = {}
      BY <1>18 DEF Sized
    <3>2. Cardinality({}) = 0
      BY FS_EmptySet
    <3> QED BY <3>1, <3>2
  <2> QED BY <2>1 DEF OneBlockEach
<1>21. EntryCount(disk, root) = 0 /\ Entries(disk, root) = {}
  BY <1>18, NoEntries
<1>22. WholeEntries(disk, {root})
  <2>1. EntrySize * 0 = 0 /\ root + 0 = root
    BY RootPlace DEF EntrySize
  <2> QED BY <1>18, <1>21, <2>1 DEF WholeEntries
<1>23. EntriesHold(disk, {root}, root) /\ EntriesApart(disk, {root})
  BY <1>21 DEF EntriesHold, EntriesApart
<1>24. \A m \in {root} : m \div NUM_INODES_PER_GROUP \in Groups
  BY <1>18
<1>25. \A m \in {root} : inode_at(disk, m).hard_link_count > 0 \/ m \in {}
  BY <1>18
<1>26. Tree(disk, {root}, root, {})
  BY <1>18, <1>19, <1>20, <1>22, <1>23, <1>24, <1>25 DEF Tree
<1> QED BY <1>3, <1>15, <1>26

LEMMA StartsAsTree ==
  ASSUME EnoughRoom, ShellInit
  PROVE  TreeInv
<1>1. alive \in BOOLEAN
  BY DEF ShellInit, Init
<1>2. ASSUME ~undefined
      PROVE  /\ Tree(disk, known, curr_directory_inode_number, removed)
             /\ mp = << >> /\ AllNamed(disk, known, removed, {root})
             /\ \E n \in known : AllNamed(disk, known, removed, {root, n})
  <2>1. /\ Tree(disk, known, root, {})
        /\ known = {root} /\ mp = << >>
    BY <1>2, TreeAtStart
  <2>2. curr_directory_inode_number = root /\ removed = {}
    BY DEF ShellInit
  <2>3. AllNamed(disk, known, removed, {root}) /\ AllNamed(disk, known, removed, {root, root})
    BY <2>1 DEF AllNamed
  <2> QED BY <2>1, <2>2, <2>3
<1> QED BY <1>1, <1>2 DEF TreeInv

(* The directory the shell moves on to was made after the one it was in.   *)
LEMMA TreeFromInside ==
  ASSUME NEW d, NEW K, NEW curr, NEW gone, Tree(d, K, curr, gone),
         NEW next \in K, curr < next, inode_at(d, next).is_directory
  PROVE  Tree(d, K, next, gone)
<1>1. curr \in Nat /\ next \in Nat /\ K \subseteq Nat
  BY NumbersOfTree DEF Tree
<1>2. EntriesHold(d, K, next)
  <2>1. ASSUME NEW n \in K, NEW entry, EntryHolds(d, K, curr, n, entry)
        PROVE  EntryHolds(d, K, next, n, entry)
    <3>1. n \in Nat
      BY <1>1
    <3>2. n <= curr => n <= next
      BY <1>1, <3>1
    <3> QED BY <2>1, <3>2 DEF EntryHolds
  <2> QED BY <2>1 DEF Tree, EntriesHold
<1> QED BY <1>2 DEF Tree

LEMMA TreeStep ==
  ASSUME EnoughRoom, TreeInv, [ShellNext]_shell_vars
  PROVE  TreeInv'
<1>1. CASE UNCHANGED shell_vars
  BY <1>1 DEF TreeInv, shell_vars
<1>2. CASE ShellNext
  <2>1. Ready /\ Moves /\ \E call : Return(call) /\ Result(call)
    BY <1>2, EveryCall DEF Answered
  <2>2. PICK call : Return(call) /\ Result(call)
    BY <2>1
  <2>3. /\ disk' = call.disk /\ mp' = call.mp /\ known' = call.known
        /\ alive' = (call.status # "exited")
        /\ undefined' = (call.status = "undefined")
    BY <2>2 DEF Return
  <2>4. PICK e, L, left, curr : /\ e = disk' /\ L = known' /\ left = removed'
                                /\ curr = curr_directory_inode_number
    OBVIOUS
  <2>5. ASSUME ~undefined'
        PROVE  /\ Tree(e, L, curr_directory_inode_number', left)
               /\ alive' => mp' = << >> /\ AllNamed(e, L, left, {root})
               /\ \E n \in L : AllNamed(e, L, left, {root, n})
    <3>1. Effect(disk, known, curr, call, left)
      BY <2>2, <2>3, <2>4, <2>5 DEF Result
    <3>2. Tree(e, L, curr, left)
      BY <2>3, <2>4, <3>1 DEF Effect
    <3>3. Tree(e, L, curr_directory_inode_number', left)
      <4>1. CASE UNCHANGED curr_directory_inode_number
        BY <2>4, <3>2, <4>1
      <4>2. CASE /\ UNCHANGED <<disk, known>>
                 /\ curr_directory_inode_number' \in known
                 /\ curr_directory_inode_number < curr_directory_inode_number'
                 /\ inode_at(disk, curr_directory_inode_number').is_directory
        <5>1. PICK next : next = curr_directory_inode_number'
          OBVIOUS
        <5>2. next \in L /\ curr < next /\ inode_at(e, next).is_directory
          BY <2>4, <4>2, <5>1
        <5> QED BY <3>2, <5>1, <5>2, TreeFromInside
      <4> QED BY <2>1, <4>1, <4>2 DEF Moves
    <3>4. \/ /\ call.status = "going" /\ mp' = << >>
             /\ AllNamed(e, L, left, {root})
          \/ /\ call.status = "exited"
             /\ \E n \in L : AllNamed(e, L, left, {root, n})
      BY <2>3, <2>4, <3>1 DEF Effect
    <3>5. root \in L /\ {root} \subseteq {root, root} /\ left \subseteq left
      BY <3>2, NumbersOfTree
    <3>6. AllNamed(e, L, left, {root}) => AllNamed(e, L, left, {root, root})
      BY <3>5, WiderNames
    <3> QED BY <2>3, <3>3, <3>4, <3>5, <3>6
  <2>6. alive' \in BOOLEAN
    BY <2>3
  <2> QED BY <2>4, <2>5, <2>6 DEF TreeInv
<1> QED BY <1>1, <1>2

-----------------------------------------------------------------------------

(* The shell's calls keep the tree of directories: each is one block of    *)
(* whole entries, every entry says what its file is, and none is for a     *)
(* file that has one already.                                              *)
THEOREM ShellKeepsTree ==
  ASSUME EnoughRoom
  PROVE  ShellSpec => []TreeInv
<1>1. ShellInit => TreeInv
  BY StartsAsTree
<1>2. TreeInv /\ [ShellNext]_shell_vars => TreeInv'
  BY TreeStep
<1> QED BY <1>1, <1>2, PTL DEF ShellSpec

(* The shell stands in a directory and has nothing open between two calls, *)
(* whatever was removed.                                                   *)
THEOREM ShellBetweenCalls ==
  ASSUME EnoughRoom
  PROVE  ShellSpec => []BetweenCalls
<1>1. TreeInv => BetweenCalls
  <2> SUFFICES ASSUME TreeInv, Ready
               PROVE  /\ curr_directory_inode_number \in Directories(disk, known)
                      /\ mp = << >>
    BY DEF BetweenCalls
  <2>1. alive /\ ~undefined
    BY DEF Ready
  <2>2. Tree(disk, known, curr_directory_inode_number, removed) /\ mp = << >>
    BY <2>1 DEF TreeInv
  <2> QED BY <2>2 DEF Tree, Directories
<1> QED BY <1>1, ShellKeepsTree, PTL

-----------------------------------------------------------------------------

(* The listing of a directory that has a link is its entries, and its      *)
(* places are among those of a file.                                       *)
LEMMA ListingShape ==
  ASSUME EnoughRoom, NEW d, NEW K, NEW curr, NEW gone, Tree(d, K, curr, gone),
         NEW n \in K, Live(d, n)
  PROVE  /\ EntryCount(d, n) \in Nat
         /\ Listing(d, n) \in Seq({ Entry(d, n, i) : i \in Entries(d, n) })
         /\ Len(Listing(d, n)) = EntryCount(d, n)
         /\ DOMAIN Listing(d, n) = 1 .. EntryCount(d, n)
         /\ 1 .. EntryCount(d, n) \subseteq 1 .. SizeLimit
         /\ \A i \in 1 .. EntryCount(d, n) :
              i - 1 \in Entries(d, n) /\ Listing(d, n)[i] = Entry(d, n, i - 1)
<1>1. PICK c \in Nat : c = EntryCount(d, n) /\ 2 * c <= BLOCK_SIZE
  BY LiveShape
<1>2. PICK listing : listing = Listing(d, n)
  OBVIOUS
<1>3. listing = [i \in 1 .. c |-> Entry(d, n, i - 1)]
  BY <1>1, <1>2 DEF Listing, EntryCount
<1>4. \A i \in 1 .. c : i - 1 \in Entries(d, n)
  BY <1>1 DEF Entries
<1>5. PICK S : S = { Entry(d, n, i) : i \in Entries(d, n) }
  OBVIOUS
<1>6. listing \in Seq(S) /\ Len(listing) = c
  <2>1. \A i \in 1 .. c : Entry(d, n, i - 1) \in S
    BY <1>4, <1>5
  <2> QED BY <1>3, <2>1
<1>7. PICK b, k : b \in Nat /\ k \in Nat /\ k >= 1 /\ b = BLOCK_SIZE /\ k = BLOCKS_PER_INODE
  BY BlockGroupAssumption, LayoutNumbers
<1>8. k * b \in Nat /\ b <= k * b
  BY <1>7, ProductGrows
<1>9. SizeLimit \in Nat /\ c <= SizeLimit
  BY <1>1, <1>7, <1>8 DEF SizeLimit
<1>10. 1 .. c \subseteq 1 .. SizeLimit
  BY <1>9
<1> QED BY <1>1, <1>2, <1>3, <1>4, <1>5, <1>6, <1>10

(* Entries that were kept are a prefix of those there are.                 *)
LEMMA KeptPrefix ==
  ASSUME EnoughRoom, NEW d, NEW K, NEW curr, NEW gone, Tree(d, K, curr, gone),
         NEW e, NEW L, NEW left, Tree(e, L, curr, left),
         NEW n \in K, n \in L, ListingKept(d, e, n), Live(e, n)
  PROVE  \/ Listing(e, n) = Listing(d, n)
         \/ /\ IsPrefix(Listing(d, n), Listing(e, n))
            /\ Len(Listing(e, n)) = Len(Listing(d, n)) + 1
            /\ "WRITE_BIT" \in inode_at(d, n).inode_mode
<1>1. /\ Live(d, n)
      /\ \A i \in Entries(d, n) : Entry(e, n, i) = Entry(d, n, i)
      /\ \/ EntryCount(e, n) = EntryCount(d, n)
         \/ /\ EntryCount(e, n) = EntryCount(d, n) + 1
            /\ "WRITE_BIT" \in inode_at(d, n).inode_mode
  BY DEF ListingKept
<1>2. PICK before, A : /\ before = Listing(d, n)
                       /\ A = { Entry(d, n, i) : i \in Entries(d, n) }
  OBVIOUS
<1>3. PICK after, B : /\ after = Listing(e, n)
                      /\ B = { Entry(e, n, i) : i \in Entries(e, n) }
  OBVIOUS
<1>4. PICK c \in Nat : c = EntryCount(d, n)
  BY <1>1, LiveShape
<1>5. PICK f \in Nat : f = EntryCount(e, n)
  BY LiveShape
<1>6. /\ before \in Seq(A) /\ Len(before) = c /\ DOMAIN before = 1 .. c
      /\ \A i \in 1 .. c : i - 1 \in Entries(d, n) /\ before[i] = Entry(d, n, i - 1)
  BY <1>1, <1>2, <1>4, ListingShape
<1>7. /\ after \in Seq(B) /\ Len(after) = f /\ DOMAIN after = 1 .. f
      /\ \A i \in 1 .. f : after[i] = Entry(e, n, i - 1)
  BY <1>3, <1>5, ListingShape
<1>8. f = c \/ (f = c + 1 /\ "WRITE_BIT" \in inode_at(d, n).inode_mode)
  BY <1>1, <1>4, <1>5
<1>9. \A i \in 1 .. c : after[i] = before[i]
  <2>1. 1 .. c \subseteq 1 .. f
    BY <1>8
  <2> QED BY <1>1, <1>6, <1>7, <2>1
<1>10. CASE f = c
  <2>1. after = before
    BY <1>6, <1>7, <1>9, <1>10
  <2> QED BY <1>2, <1>3, <2>1
<1>11. CASE f = c + 1 /\ "WRITE_BIT" \in inode_at(d, n).inode_mode
  <2>1. SubSeq(before, 1, c) = SubSeq(after, 1, c)
    <3>1. SubSeq(before, 1, c) = [i \in 1 .. c |-> before[i]]
      BY <1>6
    <3>2. SubSeq(after, 1, c) = [i \in 1 .. c |-> after[i]]
      BY <1>7, <1>11
    <3> QED BY <1>9, <3>1, <3>2
  <2>2. IsPrefix(before, after)
    BY <1>6, <1>7, <1>11, <2>1 DEF IsPrefix
  <2>3. Len(after) = Len(before) + 1
    BY <1>6, <1>7, <1>11
  <2> QED BY <1>2, <1>3, <1>11, <2>2, <2>3
<1> QED BY <1>8, <1>10, <1>11

(* What is in a directory stays in it, in its place, while the directory   *)
(* has a link: also when a file is removed, and when a call ends the       *)
(* process after it has created a file and before it has named it.         *)
THEOREM ShellListingsKept ==
  ASSUME EnoughRoom
  PROVE  ShellSpec => ListingsKept
<1> DEFINE Followed == ~undefined' =>
      \A n \in Directories(disk, known) :
        Attached(disk', n) =>
          LET before == Listing(disk, n)
              after  == Listing(disk', n)
          IN  after = before \/ ( /\ IsPrefix(before, after)
                                  /\ Len(after) = Len(before) + 1
                                  /\ "WRITE_BIT" \in inode_at(disk, n).inode_mode )
<1>1. TreeInv /\ ShellNext => Followed
  <2> SUFFICES ASSUME TreeInv, ShellNext, ~undefined',
                      NEW n \in Directories(disk, known), Attached(disk', n)
               PROVE  \/ Listing(disk', n) = Listing(disk, n)
                      \/ /\ IsPrefix(Listing(disk, n), Listing(disk', n))
                         /\ Len(Listing(disk', n)) = Len(Listing(disk, n)) + 1
                         /\ "WRITE_BIT" \in inode_at(disk, n).inode_mode
    OBVIOUS
  <2>1. Ready /\ \E call : Return(call) /\ Result(call)
    BY EveryCall DEF Answered
  <2>2. PICK call : Return(call) /\ Result(call)
    BY <2>1
  <2>3. PICK d, K, curr, e, L, left :
          /\ d = disk /\ K = known /\ curr = curr_directory_inode_number
          /\ e = disk' /\ L = known' /\ left = removed'
    OBVIOUS
  <2>4. e = call.disk /\ L = call.known
    BY <2>2, <2>3 DEF Return
  <2>5. Effect(d, K, curr, call, left)
    BY <2>2, <2>3 DEF Result, Return
  <2>6. Tree(d, K, curr, removed) /\ Tree(e, L, curr, left)
    BY <2>1, <2>3, <2>4, <2>5, Between DEF Effect
  <2>7. n \in K /\ inode_at(d, n).is_directory /\ inode_at(e, n).hard_link_count > 0
    BY <2>3 DEF Directories, Attached
  <2>8. ListingKept(d, e, n)
    BY <2>4, <2>5, <2>7 DEF Effect
  <2>9. Live(e, n)
    BY <2>7, <2>8 DEF ListingKept, Live
  <2>10. K \subseteq L
    BY <2>4, <2>5 DEF Effect
  <2>11. \/ Listing(e, n) = Listing(d, n)
         \/ /\ IsPrefix(Listing(d, n), Listing(e, n))
            /\ Len(Listing(e, n)) = Len(Listing(d, n)) + 1
            /\ "WRITE_BIT" \in inode_at(d, n).inode_mode
    BY <2>6, <2>7, <2>8, <2>9, <2>10, KeptPrefix
  <2> QED BY <2>3, <2>11
<1>2. TreeInv /\ [ShellNext]_shell_vars => [Followed]_shell_vars
  <2>1. TreeInv /\ UNCHANGED shell_vars => [Followed]_shell_vars
    OBVIOUS
  <2> QED BY <1>1, <2>1
<1>3. ShellSpec => [][Followed]_shell_vars
  BY <1>2, ShellKeepsTree, PTL DEF ShellSpec
<1> QED BY <1>3 DEF ListingsKept

-----------------------------------------------------------------------------

(* The file that a name, and two of them, lead to.                         *)
LEMMA NameFound ==
  ASSUME EnoughRoom, NEW d, NEW K, NEW curr, NEW gone, Tree(d, K, curr, gone),
         NEW n \in K, Live(d, n), NEW name
  PROVE  /\ \A x : LeadsTo(d, n, <<name>>, x) => NamedIn(d, n, name) = x
         /\ NoneOf(d, n, NameCode(<<name>>)) => NamedIn(d, n, name) = 0
<1>1. PICK code : code = NameCode(<<name>>)
  OBVIOUS
<1>2. PICK listing : listing = Listing(d, n)
  OBVIOUS
<1>3. PICK c \in Nat : c = EntryCount(d, n)
  BY LiveShape
<1>4. /\ DOMAIN listing = 1 .. c /\ Entries(d, n) = 0 .. c - 1
      /\ \A i \in 1 .. c : i - 1 \in Entries(d, n) /\ listing[i] = Entry(d, n, i - 1)
  BY <1>2, <1>3, ListingShape DEF Entries
<1>5. PICK matching : matching = { i \in DOMAIN listing : listing[i].file_name = code }
  OBVIOUS
<1>6. NamedIn(d, n, name)
        = IF \/ n = 0 \/ ~Attached(d, n) \/ ~inode_at(d, n).is_directory
             \/ matching = {}
          THEN 0
          ELSE listing[CHOOSE i \in matching : \A j \in matching : i <= j].inode_number
  BY <1>1, <1>2, <1>5 DEF NamedIn
<1>7. n # 0 /\ Attached(d, n) /\ inode_at(d, n).is_directory
  <2>1. n # 0
    BY NumbersOfTree
  <2>2. Attached(d, n)
    BY DEF Live, Attached, Tree, Files
  <2> QED BY <2>1, <2>2 DEF Live
<1>8. ASSUME NEW x, LeadsTo(d, n, <<name>>, x)
      PROVE  NamedIn(d, n, name) = x
  <2>1. PICK i \in Entries(d, n) :
          /\ Entry(d, n, i).file_name = code
          /\ \A j \in Entries(d, n) : j < i => Entry(d, n, j).file_name # code
          /\ Entry(d, n, i).inode_number = x
    BY <1>1, <1>8 DEF LeadsTo, FirstOf
  <2>2. PICK m \in 1 .. c : m = i + 1 /\ i = m - 1
    BY <1>3, <1>4, <2>1
  <2>3. m \in matching /\ listing[m].inode_number = x
    BY <1>4, <1>5, <2>1, <2>2
  <2>4. ASSUME NEW j \in matching
        PROVE  m <= j
    <3>1. j \in 1 .. c /\ listing[j].file_name = code
      BY <1>4, <1>5
    <3>2. ~(j - 1 < i)
      BY <1>4, <2>1, <3>1
    <3> QED BY <1>3, <2>2, <3>1, <3>2
  <2>5. ASSUME NEW j \in matching, \A k \in matching : j <= k
        PROVE  j = m
    <3>1. j <= m /\ m <= j
      BY <2>3, <2>4, <2>5
    <3>2. j \in Nat /\ m \in Nat
      BY <1>4, <1>5
    <3> QED BY <3>1, <3>2
  <2>6. (CHOOSE k \in matching : \A j \in matching : k <= j) = m
    BY <2>3, <2>4, <2>5
  <2> QED BY <1>6, <1>7, <2>3, <2>6
<1>9. ASSUME NoneOf(d, n, code)
      PROVE  NamedIn(d, n, name) = 0
  <2>1. matching = {}
    BY <1>4, <1>5, <1>9 DEF NoneOf
  <2> QED BY <1>6, <2>1
<1> QED BY <1>1, <1>8, <1>9

IsNaming(at, d, names) ==
  at = [k \in 0 .. Len(names) |->
          IF k = 0 THEN curr_directory_inode_number ELSE NamedIn(d, at[k - 1], names[k])]

LEMMA NamesFollowed ==
  ASSUME NEW d, NEW names,
         NEW first, first = NamedIn(d, curr_directory_inode_number, names[1]),
         NEW second, second = NamedIn(d, first, names[2])
  PROVE  /\ Len(names) = 0 => FileNamed(d, names) = curr_directory_inode_number
         /\ Len(names) = 1 => FileNamed(d, names) = first
         /\ Len(names) = 2 => FileNamed(d, names) = second
<1>1. PICK at : at = CHOOSE f : IsNaming(f, d, names)
  OBVIOUS
<1>2. FileNamed(d, names) = at[Len(names)]
  BY <1>1 DEF FileNamed, IsNaming
<1>3. ASSUME NEW N \in 0 .. 2, N = Len(names)
      PROVE  FileNamed(d, names) = IF N = 0 THEN curr_directory_inode_number
                                   ELSE IF N = 1 THEN first ELSE second
  <2>1. PICK f : f = [k \in 0 .. N |-> IF k = 0 THEN curr_directory_inode_number
                                       ELSE IF k = 1 THEN first ELSE second]
    OBVIOUS
  <2>2. ASSUME NEW k \in 0 .. N
        PROVE  f[k] = IF k = 0 THEN curr_directory_inode_number
                      ELSE NamedIn(d, f[k - 1], names[k])
    <3>1. CASE k = 0
      BY <2>1, <3>1
    <3>2. CASE k = 1
      <4>1. f[k] = first /\ f[k - 1] = curr_directory_inode_number
        BY <2>1, <3>2
      <4> QED BY <3>2, <4>1
    <3>3. CASE k = 2
      <4>1. f[k] = second /\ f[k - 1] = first
        BY <2>1, <3>3
      <4> QED BY <3>3, <4>1
    <3> QED BY <3>1, <3>2, <3>3
  <2>3. f = [k \in 0 .. N |-> IF k = 0 THEN curr_directory_inode_number
                              ELSE NamedIn(d, f[k - 1], names[k])]
    BY <2>1, <2>2
  <2>4. IsNaming(f, d, names)
    BY <1>3, <2>3 DEF IsNaming
  <2>5. IsNaming(at, d, names)
    BY <1>1, <2>4
  <2>6. \A k \in 0 .. N : at[k] = IF k = 0 THEN curr_directory_inode_number
                                  ELSE NamedIn(d, at[k - 1], names[k])
    BY <1>3, <2>5 DEF IsNaming
  <2>7. at[0] = curr_directory_inode_number
    <3>1. 0 \in 0 .. N
      OBVIOUS
    <3> QED BY <2>6, <3>1
  <2>8. ASSUME N # 0 PROVE at[1] = first
    <3>1. 1 \in 0 .. N /\ 1 - 1 = 0
      BY <2>8
    <3>2. at[1] = NamedIn(d, at[0], names[1])
      BY <2>6, <3>1
    <3> QED BY <2>7, <3>2
  <2>9. CASE N = 0
    BY <1>2, <1>3, <2>7, <2>9
  <2>10. CASE N = 1
    BY <1>2, <1>3, <2>8, <2>10
  <2>11. CASE N = 2
    <3>1. at[2] = NamedIn(d, at[1], names[2])
      BY <2>6, <2>11
    <3> QED BY <1>2, <1>3, <2>8, <2>11, <3>1
  <2> QED BY <2>9, <2>10, <2>11
<1> QED BY <1>3

(* A directory over which a call may end the process is on the way of the  *)
(* names: the current one, or the one the first name leads to.             *)
LEMMA HaltsOnTheWay ==
  ASSUME EnoughRoom, NEW gone, Tree(disk, known, curr_directory_inode_number, gone),
         NEW names, Names(names),
         Halts(disk, known, curr_directory_inode_number, names)
  PROVE  EndsTheWay(names)
<1>1. PICK N \in Nat : N = Len(names) /\ N > 0 /\ names \in Seq(STRING)
  BY DEF Names
<1>2. PICK d, K, curr : d = disk /\ K = known /\ curr = curr_directory_inode_number
  OBVIOUS
<1>3. Tree(d, K, curr, gone) /\ curr \in K /\ inode_at(d, curr).is_directory
  BY <1>2 DEF Tree
<1>4. ASSUME NEW k \in 0 .. N - 1, NEW n \in K, FileNamed(d, SubSeq(names, 1, k)) = n,
             inode_at(d, n).is_directory, Ends(d, n)
      PROVE  EndsTheWay(names)
  <2>1. n \in Directories(d, K)
    BY <1>4 DEF Directories
  <2>2. ~Attached(d, n) \/ inode_at(d, n).inode_mode # Permissions
    BY <1>4 DEF Ends, Attached
  <2> QED BY <1>1, <1>2, <1>4, <2>1, <2>2 DEF EndsTheWay
<1>5. CASE Ends(d, curr)
  <2>1. PICK front : front = SubSeq(names, 1, 0)
    OBVIOUS
  <2>2. Len(front) = 0
    BY <1>1, <2>1
  <2>3. FileNamed(d, front) = curr
    BY <1>2, <2>2, NamesFollowed
  <2>4. 0 \in 0 .. N - 1
    BY <1>1
  <2> QED BY <1>3, <1>4, <1>5, <2>1, <2>3, <2>4
<1>6. CASE /\ N >= 2 /\ Live(d, curr)
           /\ \E x \in K : /\ LeadsTo(d, curr, <<names[1]>>, x)
                           /\ inode_at(d, x).is_directory /\ Ends(d, x)
  <2>1. PICK x \in K : /\ LeadsTo(d, curr, <<names[1]>>, x)
                       /\ inode_at(d, x).is_directory /\ Ends(d, x)
    BY <1>6
  <2>2. PICK front : front = SubSeq(names, 1, 1)
    OBVIOUS
  <2>3. Len(front) = 1 /\ front[1] = names[1]
    BY <1>1, <2>2
  <2>4. NamedIn(d, curr, names[1]) = x
    BY <1>3, <1>6, <2>1, NameFound
  <2>5. FileNamed(d, front) = x
    BY <1>2, <2>3, <2>4, NamesFollowed
  <2>6. 1 \in 0 .. N - 1
    BY <1>1, <1>6
  <2> QED BY <1>4, <2>1, <2>2, <2>5, <2>6
<1> QED BY <1>1, <1>2, <1>5, <1>6 DEF Halts

LEMMA SettledOnTheWay ==
  ASSUME EnoughRoom, TreeInv, Ready, ~alive', NEW names, Names(names),
         NEW call, Return(call), Settles(names, call)
  PROVE  EndsTheWay(names)
<1>1. call.status = "exited"
  BY DEF Return
<1>2. Halts(disk, known, curr_directory_inode_number, names)
  BY <1>1 DEF Settles
<1>3. Tree(disk, known, curr_directory_inode_number, removed)
  BY DEF TreeInv, Ready
<1> QED BY <1>2, <1>3, HaltsOnTheWay

(* A call ends the process only over a directory on the way of the names   *)
(* it goes along that was removed or lacks a permission, wherever in the   *)
(* middle of its changes that is.  With enough room none is ever full.     *)
THEOREM ShellDiesOnlyOverDirectories ==
  ASSUME EnoughRoom
  PROVE  ShellSpec => DiesOnlyOverDirectories
<1> DEFINE Excused == ~alive' =>
      \A path \in Paths :
        /\ PathCall(path) => EndsTheWay(path)
        /\ \A corresponding_path \in Paths :
             /\ create_hard_link(path, corresponding_path)
                  => EndsTheWay(path \o corresponding_path)
             /\ create_soft_link(path, corresponding_path)
                  => EndsTheWay(path)
<1>1. ASSUME TreeInv, ~alive', NEW path \in Paths, PathCall(path)
      PROVE  EndsTheWay(path)
  <2>1. Ready /\ \E call : Return(call) /\ Settles(path, call)
    <3>1. CASE change_directory(path)
      BY <1>1, <3>1, ChangeStep DEF change_directory
    <3>2. ASSUME NEW permissions, NEW is_directory \in Kinds,
                 shell_create_file(path, permissions, is_directory)
          PROVE  Ready /\ \E call : Return(call) /\ Settles(path, call)
      BY <1>1, <3>2, CreateFileStep DEF shell_create_file
    <3>3. CASE create_directory(path)
      BY <1>1, <3>3, CreateDirectoryStep DEF create_directory
    <3>4. CASE remove_file(path)
      BY <1>1, <3>4, RemoveStep DEF remove_file
    <3> QED BY <1>1, <3>1, <3>2, <3>3, <3>4 DEF PathCall
  <2> QED BY <1>1, <2>1, PathNamed, SettledOnTheWay
<1>2. ASSUME TreeInv, ~alive', NEW path \in Paths, NEW corresponding_path \in Paths,
             create_hard_link(path, corresponding_path)
      PROVE  EndsTheWay(path \o corresponding_path)
  <2>1. PICK call : /\ Return(call)
                    /\ \/ Settles(path \o corresponding_path, call)
                       \/ call.status = "going"
    BY <1>2, HardLinkStep
  <2>2. call.status = "exited"
    BY <1>2, <2>1 DEF Return
  <2>3. Ready
    BY <1>2 DEF create_hard_link
  <2>4. Names(path \o corresponding_path)
    BY BothNamed
  <2> QED BY <1>2, <2>1, <2>2, <2>3, <2>4, SettledOnTheWay
<1>3. ASSUME TreeInv, ~alive', NEW path \in Paths, NEW corresponding_path \in Paths,
             create_soft_link(path, corresponding_path)
      PROVE  EndsTheWay(path)
  <2>1. Ready /\ \E call : Return(call) /\ Settles(path, call)
    BY <1>3, SoftLinkStep DEF create_soft_link
  <2> QED BY <1>3, <2>1, PathNamed, SettledOnTheWay
<1>4. TreeInv => Excused
  BY <1>1, <1>2, <1>3
<1>5. TreeInv /\ [ShellNext]_shell_vars => [Excused]_shell_vars
  BY <1>4
<1>6. ShellSpec => [][Excused]_shell_vars
  BY <1>5, ShellKeepsTree, PTL DEF ShellSpec
<1> QED BY <1>6 DEF DiesOnlyOverDirectories

-----------------------------------------------------------------------------

(* The directory that was linked.                                          *)
LEMMA LinkedIsNamed ==
  ASSUME EnoughRoom, NEW d, NEW K, NEW gone,
         NEW curr, curr = curr_directory_inode_number, Tree(d, K, curr, gone),
         NEW names, Names(names), NEW n, NEW call, Linked(d, K, curr, names, n, call)
  PROVE  /\ n \in Directories(d, K)
         /\ Attached(d, n)
         /\ FileNamed(d, Front(names)) = n
         /\ FileNamed(d, names) = 0
<1>1. /\ n \in K /\ Live(d, curr) /\ Live(d, n) /\ curr \in K
      /\ Len(names) = 2
      /\ LeadsTo(d, curr, <<names[1]>>, n)
      /\ NoneOf(d, n, NameCode(<<names[2]>>))
  BY DEF Linked, Tree
<1>2. NamedIn(d, curr, names[1]) = n
  BY <1>1, NameFound
<1>3. NamedIn(d, n, names[2]) = 0
  BY <1>1, NameFound
<1>4. PICK front : front = Front(names)
  OBVIOUS
<1>5. Len(front) = 1
  <2>1. Len(front) = Len(names) - 1
    BY <1>4, FrontNamed
  <2>2. Len(front) = 2 - 1
    BY <1>1, <2>1, Zenon
  <2> QED BY <2>2
<1>6. front[1] = names[1]
  <2>1. 1 \in 1 .. Len(front)
    BY <1>5
  <2> QED BY <1>4, <2>1, FrontNamed
<1>7. FileNamed(d, front) = n
  BY <1>2, <1>5, <1>6, NamesFollowed
<1>8. FileNamed(d, names) = 0
  BY <1>1, <1>2, <1>3, NamesFollowed
<1>9. n \in Directories(d, K)
  BY <1>1 DEF Live, Directories
<1>10. Attached(d, n)
  BY <1>1 DEF Live, Attached, Tree, Files
<1> QED BY <1>4, <1>7, <1>8, <1>9, <1>10

(* What create_hard_link links is never the file it was given the path of: *)
(* it is the directory that both paths, one behind the other, end in, and  *)
(* one that was not removed.                                               *)
THEOREM ShellLinkedByBothNames ==
  ASSUME EnoughRoom
  PROVE  ShellSpec => LinkedByBothNames
<1> DEFINE ByBoth == ~undefined' =>
      \A n \in known :
        inode_at(disk', n).hard_link_count > inode_at(disk, n).hard_link_count =>
          \E path, corresponding_path \in Paths :
            LET names == path \o corresponding_path
            IN  /\ n \in Directories(disk, known)
                /\ Attached(disk, n)
                /\ FileNamed(disk, Front(names)) = n
                /\ FileNamed(disk, names) = 0
<1>1. TreeInv /\ ShellNext => ByBoth
  <2> SUFFICES ASSUME TreeInv, ShellNext, ~undefined', NEW n \in known,
                      inode_at(disk', n).hard_link_count > inode_at(disk, n).hard_link_count
               PROVE  \E path, corresponding_path \in Paths :
                        /\ n \in Directories(disk, known)
                        /\ Attached(disk, n)
                        /\ FileNamed(disk, Front(path \o corresponding_path)) = n
                        /\ FileNamed(disk, path \o corresponding_path) = 0
    OBVIOUS
  <2>1. Ready /\ \E call : Return(call) /\ Result(call)
    BY EveryCall DEF Answered
  <2>2. PICK call : Return(call) /\ Result(call)
    BY <2>1
  <2>3. PICK d, K, curr, e, L, left :
          /\ d = disk /\ K = known /\ curr = curr_directory_inode_number
          /\ e = disk' /\ L = known' /\ left = removed'
    OBVIOUS
  <2>4. e = call.disk /\ L = call.known
    BY <2>2, <2>3 DEF Return
  <2>5. /\ Effect(d, K, curr, call, left)
        /\ \/ NoMoreLinks(d, e, K)
           \/ \E path, corresponding_path \in Paths, m \in K :
                Linked(d, K, curr, path \o corresponding_path, m, call)
    BY <2>2, <2>3, <2>4 DEF Result, Return
  <2>6. Tree(d, K, curr, removed) /\ Tree(e, L, curr, left) /\ K \subseteq L
    BY <2>1, <2>3, <2>4, <2>5, Between DEF Effect
  <2>7. PICK before, after \in Nat :
          /\ before = inode_at(d, n).hard_link_count
          /\ after = inode_at(e, n).hard_link_count
    BY <2>3, <2>6, LinksAreNumbers
  <2>8. before < after /\ n \in K
    BY <2>3, <2>7
  <2>9. ~ NoMoreLinks(d, e, K)
    BY <2>7, <2>8 DEF NoMoreLinks
  <2>10. PICK path \in Paths, corresponding_path \in Paths, m \in K :
           Linked(d, K, curr, path \o corresponding_path, m, call)
    BY <2>5, <2>9
  <2>11. m = n
    <3>1. ASSUME m # n PROVE FALSE
      <4>1. inode_at(e, n) = inode_at(d, n)
        BY <2>4, <2>8, <2>10, <3>1 DEF Linked
      <4> QED BY <2>7, <2>8, <4>1
    <3> QED BY <3>1
  <2>12. PICK names : names = path \o corresponding_path
    OBVIOUS
  <2>13. /\ n \in Directories(d, K)
         /\ Attached(d, n)
         /\ FileNamed(d, Front(names)) = n
         /\ FileNamed(d, names) = 0
    BY <2>3, <2>6, <2>10, <2>11, <2>12, BothNamed, LinkedIsNamed
  <2> QED BY <2>3, <2>12, <2>13
<1>2. TreeInv /\ [ShellNext]_shell_vars => [ByBoth]_shell_vars
  BY <1>1
<1>3. ShellSpec => [][ByBoth]_shell_vars
  BY <1>2, ShellKeepsTree, PTL DEF ShellSpec
<1> QED BY <1>3 DEF LinkedByBothNames

-----------------------------------------------------------------------------

(* When no directory is gone, a file is named where an entry is about it.  *)
LEMMA NamedPlaces ==
  ASSUME EnoughRoom, NEW d, d = disk, NEW K, K = known, NEW curr, NEW gone,
         Tree(d, K, curr, gone), gone \cap Directories(d, K) = {}, NEW n
  PROVE  /\ \A place \in NamedAt(n) :
              \E m \in K : /\ Live(d, m)
                           /\ \E i \in Entries(d, m) : /\ place = <<m, i + 1>>
                                                       /\ Entry(d, m, i).inode_number = n
         /\ HasName(d, K, n) => NamedAt(n) # {}
<1>1. ASSUME NEW m \in Directories(d, K)
      PROVE  m \in K /\ Live(d, m)
    BY DEF Directories, Tree, Live
<1>2. ASSUME NEW place \in NamedAt(n)
      PROVE  \E m \in K : /\ Live(d, m)
                          /\ \E i \in Entries(d, m) : /\ place = <<m, i + 1>>
                                                      /\ Entry(d, m, i).inode_number = n
  <2>1. PICK m, k : /\ place = <<m, k>> /\ m \in Directories(d, K) /\ k \in 1 .. SizeLimit
                    /\ k \in DOMAIN Listing(d, m)
                    /\ Listing(d, m)[k].inode_number = n
    BY DEF NamedAt
  <2>2. m \in K /\ Live(d, m)
    BY <1>1, <2>1
  <2>3. /\ EntryCount(d, m) \in Nat
        /\ k \in 1 .. EntryCount(d, m)
        /\ k - 1 \in Entries(d, m) /\ Listing(d, m)[k] = Entry(d, m, k - 1)
    BY <2>1, <2>2, ListingShape
  <2>4. PICK i \in Entries(d, m) : i = k - 1
    BY <2>3
  <2>5. k = i + 1
    BY <2>3, <2>4
  <2> QED BY <2>1, <2>2, <2>3, <2>4, <2>5
<1>3. ASSUME HasName(d, K, n)
      PROVE  NamedAt(n) # {}
  <2>1. PICK m \in K : Live(d, m) /\ \E i \in Entries(d, m) : Entry(d, m, i).inode_number = n
    BY <1>3 DEF HasName
  <2>2. PICK i \in Entries(d, m) : Entry(d, m, i).inode_number = n
    BY <2>1
  <2>3. PICK c \in Nat : /\ c = EntryCount(d, m)
                         /\ DOMAIN Listing(d, m) = 1 .. c /\ 1 .. c \subseteq 1 .. SizeLimit
                         /\ \A j \in 1 .. c : Listing(d, m)[j] = Entry(d, m, j - 1)
    BY <2>1, ListingShape
  <2>4. PICK k \in 1 .. c : k = i + 1 /\ k - 1 = i
    BY <2>2, <2>3 DEF Entries
  <2>5. Listing(d, m)[k].inode_number = n
    BY <2>2, <2>3, <2>4
  <2>6. m \in Directories(d, K) /\ k \in 1 .. SizeLimit /\ k \in DOMAIN Listing(d, m)
    BY <2>1, <2>3 DEF Directories, Live
  <2>7. <<m, k>> \in NamedAt(n)
    BY <2>5, <2>6 DEF NamedAt
  <2> QED BY <2>7
<1> QED BY <1>2, <1>3

(* No file has two names, whatever is linked; each has one from the end of *)
(* the call that creates it on, and still when it is removed, up to the    *)
(* one a process was making when it ended; and what a name says of its     *)
(* file is true.                                                           *)
THEOREM ShellOneNamePerFile ==
  ASSUME EnoughRoom
  PROVE  ShellSpec => []OneNamePerFile
<1>1. TreeInv => OneNamePerFile
  <2> SUFFICES ASSUME TreeInv, ~undefined, removed \cap Directories(disk, known) = {},
                      NEW unnamed, unnamed = { n \in known \ {root} : NamedAt(n) = {} }
               PROVE  /\ \A n \in known \ {root} : Cardinality(NamedAt(n)) <= 1
                      /\ unnamed = {} \/ (~alive /\ Cardinality(unnamed) = 1)
                      /\ \A dir \in Directories(disk, known), i \in 1 .. SizeLimit :
                           i \in DOMAIN Listing(disk, dir) =>
                             LET entry == Listing(disk, dir)[i]
                             IN  /\ entry.inode_number \in known \ {root}
                                 /\ entry.is_directory
                                      = inode_at(disk, entry.inode_number).is_directory
    BY DEF OneNamePerFile
  <2>1. PICK d, K, curr, gone : /\ d = disk /\ K = known /\ gone = removed
                                /\ curr = curr_directory_inode_number
    OBVIOUS
  <2>2. /\ Tree(d, K, curr, gone) /\ gone \cap Directories(d, K) = {}
        /\ alive => AllNamed(d, K, gone, {root})
        /\ \E n \in K : AllNamed(d, K, gone, {root, n})
    BY <2>1 DEF TreeInv
  <2>3. ASSUME NEW n \in K
        PROVE  Cardinality(NamedAt(n)) <= 1
    <3>1. PICK places : places = NamedAt(n)
      OBVIOUS
    <3>2. ASSUME NEW p \in places, NEW q \in places
          PROVE  p = q
      <4>1. PICK l \in K : /\ Live(d, l)
                           /\ \E i \in Entries(d, l) : /\ p = <<l, i + 1>>
                                                       /\ Entry(d, l, i).inode_number = n
        BY <2>1, <2>2, <3>1, NamedPlaces
      <4>2. PICK m \in K : /\ Live(d, m)
                           /\ \E i \in Entries(d, m) : /\ q = <<m, i + 1>>
                                                       /\ Entry(d, m, i).inode_number = n
        BY <2>1, <2>2, <3>1, NamedPlaces
      <4> QED BY <2>2, <4>1, <4>2 DEF Tree, EntriesApart
    <3>3. CASE places = {}
      <4>1. Cardinality(places) = 0
        BY <3>3, FS_EmptySet
      <4> QED BY <3>1, <4>1
    <3>4. CASE places # {}
      <4>1. PICK p : places = {p}
        BY <3>2, <3>4
      <4>2. Cardinality(places) = 1
        BY <4>1, FS_Singleton
      <4> QED BY <3>1, <4>2
    <3> QED BY <3>3, <3>4
  <2>4. ASSUME NEW S, AllNamed(d, K, gone, S)
        PROVE  unnamed \subseteq S
    <3>1. ASSUME NEW n \in unnamed, n \notin S PROVE FALSE
      <4>1. HasName(d, K, n)
        BY <2>1, <2>2, <2>4, <3>1 DEF AllNamed
      <4> QED BY <2>1, <2>2, <3>1, <4>1, NamedPlaces
    <3> QED BY <3>1
  <2>5. unnamed = {} \/ (~alive /\ Cardinality(unnamed) = 1)
    <3>1. root \notin unnamed
      OBVIOUS
    <3>2. alive => unnamed = {}
      BY <2>2, <2>4, <3>1
    <3>3. PICK n \in K : AllNamed(d, K, gone, {root, n})
      BY <2>2
    <3>4. unnamed \subseteq {n}
      BY <2>4, <3>1, <3>3
    <3>5. unnamed = {n} => Cardinality(unnamed) = 1
      BY FS_Singleton
    <3> QED BY <3>2, <3>4, <3>5
  <2>6. ASSUME NEW m \in Directories(d, K), NEW i \in DOMAIN Listing(d, m),
               NEW entry, entry = Listing(d, m)[i]
        PROVE  /\ entry.inode_number \in K \ {root}
               /\ entry.is_directory = inode_at(d, entry.inode_number).is_directory
    <3>1. m \in K /\ Live(d, m)
      BY <2>2 DEF Directories, Tree, Live
    <3>2. i - 1 \in Entries(d, m) /\ entry = Entry(d, m, i - 1)
      BY <2>2, <2>6, <3>1, ListingShape
    <3>3. EntryHolds(d, K, curr, m, entry)
      BY <2>2, <3>1, <3>2 DEF Tree, EntriesHold
    <3>4. entry.inode_number # root
      <4>1. root <= m /\ m < entry.inode_number /\ root \in Nat /\ m \in Nat
        BY <2>2, <3>1, <3>3, NumbersOfTree, RootPlace DEF EntryHolds
      <4> QED BY <4>1
    <3> QED BY <3>3, <3>4 DEF EntryHolds
  <2> QED BY <2>1, <2>3, <2>5, <2>6
<1> QED BY <1>1, ShellKeepsTree, PTL

-----------------------------------------------------------------------------

(* Names alone are not in the directories below the one the shell stands   *)
(* in: a path of several names leads nowhere.                              *)
LEMMA NamedInside ==
  ASSUME EnoughRoom, NEW d, NEW K, NEW curr, NEW gone, Tree(d, K, curr, gone),
         NEW name, <<name>> \in Paths, NEW x, x = NamedIn(d, curr, name), x # 0
  PROVE  /\ Live(d, curr)
         /\ LeadsTo(d, curr, <<name>>, x)
         /\ \A next : <<next>> \in Paths => NamedIn(d, x, next) = 0
<1>1. curr \in K /\ inode_at(d, curr).is_directory
  BY DEF Tree
<1>2. Live(d, curr)
  <2>1. Attached(d, curr)
    BY DEF NamedIn
  <2> QED BY <1>1, <2>1 DEF Attached, Live
<1>3. PICK path : path = <<name>> /\ path \in Paths /\ Len(path) = 1
  OBVIOUS
<1>4. LeadsTo(d, curr, path, x)
  <2>1. ~ NoneOf(d, curr, NameCode(path))
    BY <1>1, <1>2, <1>3, NameFound
  <2>2. PICK S : S = { i \in Entries(d, curr) : Entry(d, curr, i).file_name = NameCode(path) }
    OBVIOUS
  <2>3. S # {}
    BY <2>1, <2>2 DEF NoneOf
  <2>4. S \subseteq Nat
    BY <1>1, <1>2, <2>2, LiveShape DEF Entries
  <2>5. PICK i \in S : \A j \in S : i <= j
    BY <2>3, <2>4, LeastNatural
  <2>6. ASSUME NEW j \in Entries(d, curr), j < i
        PROVE  Entry(d, curr, j).file_name # NameCode(path)
    <3>1. ASSUME j \in S PROVE FALSE
      <4>1. i <= j /\ i \in Nat /\ j \in Nat
        BY <2>4, <2>5, <3>1
      <4> QED BY <2>6, <4>1
    <3> QED BY <2>2, <3>1
  <2>7. FirstOf(d, curr, i, NameCode(path)) /\ i \in Entries(d, curr)
    BY <2>2, <2>5, <2>6 DEF FirstOf
  <2>8. PICK y : y = Entry(d, curr, i).inode_number
    OBVIOUS
  <2>9. LeadsTo(d, curr, path, y)
    BY <2>7, <2>8 DEF LeadsTo
  <2>10. y = x
    BY <1>1, <1>2, <1>3, <2>9, NameFound
  <2> QED BY <2>9, <2>10
<1>5. x \in K /\ curr < x
  <2>1. PICK i \in Entries(d, curr) :
          /\ Entry(d, curr, i).file_name = NameCode(path)
          /\ Entry(d, curr, i).inode_number = x
    BY <1>4 DEF LeadsTo, FirstOf
  <2> QED BY <1>1, <1>2, <1>3, <2>1, EntryOfName
<1>6. ASSUME NEW next, <<next>> \in Paths
      PROVE  NamedIn(d, x, next) = 0
  <2>1. CASE Live(d, x)
    <3>1. PICK single : single = <<next>> /\ single \in Paths /\ Len(single) = 1
      BY <1>6
    <3>2. NoneOf(d, x, NameCode(single))
      BY <1>5, <2>1, <3>1, NoNameAhead
    <3> QED BY <1>5, <2>1, <3>1, <3>2, NameFound
  <2>2. CASE ~Live(d, x)
    <3>1. ~Attached(d, x) \/ ~inode_at(d, x).is_directory
      BY <2>2 DEF Live, Attached
    <3> QED BY <3>1 DEF NamedIn
  <2> QED BY <2>1, <2>2
<1> QED BY <1>2, <1>3, <1>4, <1>6

(* What a path leads to is in the directory the shell stands in, by the    *)
(* one name the path has.                                                  *)
LEMMA OnlyOneName ==
  ASSUME EnoughRoom, NEW d, NEW K, NEW gone,
         NEW curr, curr = curr_directory_inode_number, Tree(d, K, curr, gone),
         NEW path \in Paths, NEW n, n # 0, FileNamed(d, path) = n
  PROVE  /\ Len(path) = 1
         /\ Live(d, curr) /\ LeadsTo(d, curr, <<path[1]>>, n)
<1>1. PICK N \in Nat : /\ N = Len(path) /\ N >= 1
                       /\ \A k \in 1 .. N : <<path[k]>> \in Paths
  BY PathIndex
<1>2. PICK first : first = NamedIn(d, curr, path[1])
  OBVIOUS
<1>3. <<path[1]>> \in Paths
  <2>1. 1 \in 1 .. N
    BY <1>1
  <2> QED BY <1>1, <2>1
<1>4. ASSUME NEW name, <<name>> \in Paths
      PROVE  NamedIn(d, first, name) = 0
  <2>1. CASE first = 0
    BY <2>1 DEF NamedIn
  <2>2. CASE first # 0
    BY <1>2, <1>3, <1>4, <2>2, NamedInside
  <2> QED BY <2>1, <2>2
<1>5. PICK at : at = CHOOSE f : IsNaming(f, d, path)
  OBVIOUS
<1>6. FileNamed(d, path) = at[N]
  BY <1>1, <1>5 DEF FileNamed, IsNaming
<1>7. IsNaming(at, d, path)
  <2>1. PICK f : f = [k \in 0 .. N |-> IF k = 0 THEN curr ELSE IF k = 1 THEN first ELSE 0]
    OBVIOUS
  <2>2. ASSUME NEW k \in 0 .. N, k # 0
        PROVE  f[k] = NamedIn(d, f[k - 1], path[k])
    <3>1. k \in 1 .. N /\ k - 1 \in 0 .. N
      BY <2>2
    <3>2. CASE k = 1
      <4>1. f[k] = first /\ f[k - 1] = curr
        BY <2>1, <3>2
      <4> QED BY <1>2, <3>2, <4>1
    <3>3. CASE k = 2
      <4>1. f[k] = 0 /\ f[k - 1] = first
        BY <2>1, <3>3
      <4>2. NamedIn(d, first, path[k]) = 0
        BY <1>1, <1>4, <3>1
      <4> QED BY <4>1, <4>2
    <3>4. CASE k > 2
      <4>1. f[k] = 0 /\ f[k - 1] = 0
        BY <2>1, <3>1, <3>4
      <4>2. NamedIn(d, 0, path[k]) = 0
        BY DEF NamedIn
      <4> QED BY <4>1, <4>2
    <3> QED BY <3>1, <3>2, <3>3, <3>4
  <2>3. f = [k \in 0 .. N |-> IF k = 0 THEN curr_directory_inode_number
                              ELSE NamedIn(d, f[k - 1], path[k])]
    <3>1. f[0] = curr_directory_inode_number
      BY <2>1
    <3>2. DOMAIN f = 0 .. N /\ f = [k \in 0 .. N |-> f[k]]
      BY <2>1
    <3>3. ASSUME NEW k \in 0 .. N
          PROVE  f[k] = IF k = 0 THEN curr_directory_inode_number
                        ELSE NamedIn(d, f[k - 1], path[k])
      BY <2>2, <3>1
    <3> QED BY <3>2, <3>3
  <2>4. IsNaming(f, d, path)
    BY <1>1, <2>3 DEF IsNaming
  <2> QED BY <1>5, <2>4
<1>8. \A k \in 0 .. N : at[k] = IF k = 0 THEN curr ELSE NamedIn(d, at[k - 1], path[k])
  BY <1>1, <1>7 DEF IsNaming
<1>9. at[0] = curr /\ at[1] = first
  <2>1. 0 \in 0 .. N /\ 1 \in 0 .. N /\ 1 - 1 = 0
    BY <1>1
  <2>2. at[0] = curr
    BY <1>8, <2>1
  <2>3. at[1] = NamedIn(d, at[0], path[1])
    BY <1>8, <2>1
  <2> QED BY <1>2, <2>2, <2>3
<1>10. ASSUME NEW S, S = { k \in Nat : k >= 2 /\ k <= N /\ at[k] # 0 }
       PROVE  S = {}
  <2>1. ASSUME S # {} PROVE FALSE
    <3>1. S \subseteq Nat
      BY <1>10
    <3>2. PICK k \in S : \A other \in S : k <= other
      BY <2>1, <3>1, LeastNatural
    <3>3. /\ k \in Nat /\ k >= 2 /\ k <= N /\ at[k] # 0
          /\ k \in 0 .. N /\ k \in 1 .. N
      BY <1>10, <3>2
    <3>4. at[k] = NamedIn(d, at[k - 1], path[k])
      BY <1>8, <3>3
    <3>5. CASE k = 2
      <4>1. at[k] = NamedIn(d, first, path[k])
        BY <1>9, <3>4, <3>5
      <4> QED BY <1>1, <1>4, <3>3, <4>1
    <3>6. CASE k # 2
      <4>1. k - 1 \in Nat /\ k - 1 >= 2 /\ k - 1 <= N /\ ~ (k <= k - 1)
        BY <3>3, <3>6
      <4>2. at[k - 1] = 0
        BY <1>10, <3>2, <4>1
      <4>3. NamedIn(d, 0, path[k]) = 0
        BY DEF NamedIn
      <4> QED BY <3>3, <3>4, <4>2, <4>3
    <3> QED BY <3>5, <3>6
  <2> QED BY <2>1
<1>11. N = 1
  <2>1. N \notin { k \in Nat : k >= 2 /\ k <= N /\ at[k] # 0 }
    BY <1>10
  <2>2. at[N] # 0
    BY <1>6
  <2> QED BY <1>1, <2>1, <2>2
<1>12. n = first
  BY <1>6, <1>9, <1>11
<1> QED BY <1>1, <1>2, <1>3, <1>11, <1>12, NamedInside

(* A path leads to a file that is named in directory m if and only if the  *)
(* name there is one name and the first of its kind.                       *)
Findable(d, n, m, k) ==
  (\E path \in Paths : FileNamed(d, path) = n)
    <=> /\ Len(PathNames[Listing(d, m)[k].file_name]) = 1
        /\ \A i \in 1 .. k - 1 : Listing(d, m)[i].file_name # Listing(d, m)[k].file_name

LEMMA FoundWhereNamed ==
  ASSUME EnoughRoom, NEW d, NEW K, NEW gone,
         NEW curr, curr = curr_directory_inode_number, Tree(d, K, curr, gone),
         NEW n \in K, NamedAlone(d, K, curr, n)
  PROVE  \E m \in Directories(d, K), k \in 1 .. SizeLimit :
           /\ k \in DOMAIN Listing(d, m)
           /\ Listing(d, m)[k].inode_number = n
           /\ Findable(d, n, m, k)
<1>1. PICK m, j :
        /\ m \in K /\ Live(d, m)
        /\ j \in Entries(d, m)
        /\ Entry(d, m, j).inode_number = n
        /\ NamesIn(PathNames[Entry(d, m, j).file_name], curr, m)
  BY DEF NamedAlone
<1>2. PICK c \in Nat :
        /\ c = EntryCount(d, m)
        /\ DOMAIN Listing(d, m) = 1 .. c /\ 1 .. c \subseteq 1 .. SizeLimit
        /\ \A i \in 1 .. c : i - 1 \in Entries(d, m) /\ Listing(d, m)[i] = Entry(d, m, i - 1)
  BY <1>1, ListingShape
<1>3. PICK k \in 1 .. c : k = j + 1 /\ k - 1 = j
  BY <1>1, <1>2 DEF Entries
<1>4. PICK listing, name : /\ listing = Listing(d, m) /\ name = listing[k].file_name
                           /\ name = Entry(d, m, j).file_name
  BY <1>2, <1>3
<1>5. n # 0 /\ curr \in K
  <2>1. n # 0
    BY NumbersOfTree
  <2> QED BY <2>1 DEF Tree
<1>6. name \in DOMAIN PathNames
  BY <1>1, <1>4 DEF Tree, EntriesHold, EntryHolds
<1>7. PICK named : named = PathNames[name] /\ named \in Paths
  BY <1>6 DEF Paths
<1>8. /\ NameCode(named) \in DOMAIN PathNames /\ PathNames[NameCode(named)] = named
      /\ named \in Seq(STRING)
  BY <1>7, PathIndex
<1>9. NameCode(named) = name
  BY <1>6, <1>7, <1>8, ShellAssumption
<1>10. ASSUME NEW path \in Paths, FileNamed(d, path) = n
       PROVE  /\ Len(named) = 1
              /\ \A i \in 1 .. k - 1 : listing[i].file_name # name
  <2>1. /\ Len(path) = 1
        /\ Live(d, curr) /\ LeadsTo(d, curr, <<path[1]>>, n)
    BY <1>5, <1>10, OnlyOneName
  <2>2. PICK single : single = <<path[1]>> /\ Len(single) = 1 /\ single \in Paths
    <3>1. 1 \in 1 .. Len(path)
      BY <2>1
    <3> QED BY <3>1, PathIndex
  <2>3. PICK i \in Entries(d, curr) :
          /\ Entry(d, curr, i).file_name = NameCode(single)
          /\ \A l \in Entries(d, curr) : l < i => Entry(d, curr, l).file_name # NameCode(single)
          /\ Entry(d, curr, i).inode_number = n
    BY <2>1, <2>2 DEF LeadsTo, FirstOf
  <2>4. m = curr /\ i = j
    BY <1>1, <1>5, <2>1, <2>3 DEF Tree, EntriesApart
  <2>5. name = NameCode(single)
    BY <1>4, <2>3, <2>4
  <2>6. named = single
    BY <1>7, <2>2, <2>5, PathIndex
  <2>7. ASSUME NEW l \in 1 .. k - 1
        PROVE  listing[l].file_name # name
    <3>1. l \in 1 .. c /\ l - 1 < j
      BY <1>3
    <3>2. l - 1 \in Entries(d, m) /\ listing[l] = Entry(d, m, l - 1)
      BY <1>2, <1>4, <3>1
    <3> QED BY <2>3, <2>4, <2>5, <3>1, <3>2
  <2> QED BY <2>2, <2>6, <2>7
<1>11. ASSUME Len(named) = 1, \A i \in 1 .. k - 1 : listing[i].file_name # name
       PROVE  FileNamed(d, named) = n
  <2>1. m = curr
    BY <1>1, <1>4, <1>7, <1>11 DEF NamesIn
  <2>2. PICK single : single = <<named[1]>> /\ single = named
    BY <1>8, <1>11
  <2>3. ASSUME NEW l \in Entries(d, m), l < j
        PROVE  Entry(d, m, l).file_name # name
    <3>1. l + 1 \in 1 .. k - 1 /\ l + 1 \in 1 .. c /\ (l + 1) - 1 = l
      BY <1>2, <1>3, <2>3 DEF Entries
    <3>2. listing[l + 1] = Entry(d, m, (l + 1) - 1)
      BY <1>2, <1>4, <3>1
    <3> QED BY <1>11, <3>1, <3>2
  <2>4. LeadsTo(d, curr, single, n)
    <3>1. FirstOf(d, m, j, name)
      BY <1>4, <2>3 DEF FirstOf
    <3> QED BY <1>1, <1>9, <2>1, <2>2, <3>1 DEF LeadsTo
  <2>5. NamedIn(d, curr, named[1]) = n
    BY <1>1, <2>1, <2>2, <2>4, NameFound
  <2> QED BY <1>11, <2>5, NamesFollowed
<1>12. Findable(d, n, m, k)
  BY <1>4, <1>7, <1>10, <1>11 DEF Findable
<1>13. m \in Directories(d, K) /\ k \in 1 .. SizeLimit /\ k \in DOMAIN Listing(d, m)
  BY <1>1, <1>2, <1>3 DEF Live, Directories
<1>14. Listing(d, m)[k].inode_number = n
  BY <1>1, <1>2, <1>3
<1> QED BY <1>12, <1>13, <1>14

(* What is created by a path of several names is never found, and what is  *)
(* created by one name only if nothing in the directory had that name.     *)
THEOREM ShellFindsFreshNames ==
  ASSUME EnoughRoom
  PROVE  ShellSpec => FoundByFreshName
<1> DEFINE Found == alive' /\ ~undefined' =>
      \A n \in known' \ known :
        \E place \in NamedAt(n)' :
          LET listing == Listing(disk', place[1])
              name    == listing[place[2]].file_name
          IN  (\E path \in Paths : FileNamed(disk', path) = n)
                <=> /\ Len(PathNames[name]) = 1
                    /\ \A i \in 1 .. place[2] - 1 : listing[i].file_name # name
<1>1. TreeInv /\ ShellNext => Found
  <2> SUFFICES ASSUME TreeInv, ShellNext, alive', ~undefined', NEW n \in known' \ known
               PROVE  \E place \in NamedAt(n)' : Findable(disk', n, place[1], place[2])
    BY DEF Findable
  <2>1. Ready /\ \E call : Return(call) /\ Result(call)
    BY EveryCall DEF Answered
  <2>2. PICK call : Return(call) /\ Result(call)
    BY <2>1
  <2>3. PICK d, K, curr, e, L, left :
          /\ d = disk /\ K = known /\ curr = curr_directory_inode_number
          /\ e = disk' /\ L = known' /\ left = removed'
    OBVIOUS
  <2>4. e = call.disk /\ L = call.known /\ call.status \notin {"exited", "undefined"}
    BY <2>2, <2>3 DEF Return
  <2>5. Effect(d, K, curr, call, left)
    BY <2>2, <2>3, <2>4 DEF Result
  <2>6. Tree(e, L, curr, left) /\ NamedAlone(e, L, curr, n) /\ n \in L
    BY <2>3, <2>4, <2>5 DEF Effect
  <2>7. PICK m \in Directories(e, L), k \in 1 .. SizeLimit :
          /\ k \in DOMAIN Listing(e, m)
          /\ Listing(e, m)[k].inode_number = n
          /\ Findable(e, n, m, k)
    BY <2>3, <2>6, FoundWhereNamed
  <2>8. PICK place : place = <<m, k>>
    OBVIOUS
  <2>9. place \in NamedAt(n)'
    BY <2>3, <2>7, <2>8 DEF NamedAt
  <2>10. Findable(disk', n, place[1], place[2])
    BY <2>3, <2>7, <2>8
  <2> QED BY <2>9, <2>10
<1>2. TreeInv /\ [ShellNext]_shell_vars => [Found]_shell_vars
  BY <1>1
<1>3. ShellSpec => [][Found]_shell_vars
  BY <1>2, ShellKeepsTree, PTL DEF ShellSpec
<1> QED BY <1>3 DEF FoundByFreshName
===============================================================================
