-------------------------------- MODULE Shell --------------------------------
(***************************************************************************)
(* ShellManager (shell_manager.cpp) on top of EX2FILESYSTEM: directories   *)
(* are files whose bytes are entries.  Each call of the shell is one step  *)
(* that makes its calls of my_open, read, write, create_file, delete_file  *)
(* and increment_hard_link_count on the disk in the order of the code, up  *)
(* to the one that ends the process.                                       *)
(*                                                                         *)
(* A path is a sequence of names.  An entry takes two cells: the index of  *)
(* its file_name in PathNames (the code keeps the whole path it was given  *)
(* there) and twice the inode number plus is_directory.                    *)
(* mp is the sequence of open descriptors; undefined, as below, says that  *)
(* an inode that cannot be read was used, and ends the behaviour.          *)
(*                                                                         *)
(* Bounds: MaxFiles, MaxLinks and MaxDeletions of Ex2FileSystem.  With the *)
(* deletions so bounded no group's count of free inodes reaches 0.         *)
(* Left out: mask_permissions of an entry, which nothing reads; names too  *)
(* long for an entry; empty names; files with contents of their own.       *)
(***************************************************************************)
EXTENDS Ex2FileSystem, SequencesExt

CONSTANTS
  PathNames,         \* a sequence: the paths callers use, each once
  PermissionStrings  \* sequences of characters

(* A path is one of several names, each of them a path as well; what an    *)
(* entry is made of fits into cells.                                       *)
ASSUME ShellAssumption ==
  /\ PathNames \in Seq(Seq(STRING))
  /\ \A i, j \in DOMAIN PathNames : PathNames[i] = PathNames[j] => i = j
  /\ \A i \in DOMAIN PathNames :
       /\ Len(PathNames[i]) > 0
       /\ \A k \in DOMAIN PathNames[i] :
            \E j \in DOMAIN PathNames : PathNames[j] = <<PathNames[i][k]>>
  /\ DOMAIN PathNames \subseteq Cell
  /\ \A n \in InodeNumbers : {2 * n, 2 * n + 1} \subseteq Cell
  /\ PermissionStrings \subseteq Seq(STRING)

Paths == { PathNames[i] : i \in DOMAIN PathNames }

VARIABLES
  curr_directory_inode_number,
  removed    \* history: inodes that have lost their last link

shell_vars ==
  <<disk, mp, created_file_descriptors, known, alive, undefined,
    curr_directory_inode_number, removed>>

root == InodeNumber(0, 0)

ShellInit ==
  /\ Init
  /\ curr_directory_inode_number = root
  /\ removed = {}

-----------------------------------------------------------------------------

(* set_vacant_dir_struct and write_char_bytes; copy_char_bytes.            *)
EntrySize == 2

NameCode(path) == CHOOSE i \in DOMAIN PathNames : PathNames[i] = path

(* Mutant: the flag is left out of what write_char_bytes copies.           *)
EntryCells_flagless(path, inode_number, is_directory) ==
  <<NameCode(path), 2 * inode_number>>

EntryCells(path, inode_number, is_directory) ==
  <<NameCode(path), 2 * inode_number + IF is_directory THEN 1 ELSE 0>>

Entry(d, n, i) ==
  [file_name    |-> Byte(d, n, EntrySize * i),
   inode_number |-> Byte(d, n, EntrySize * i + 1) \div 2,
   is_directory |-> Byte(d, n, EntrySize * i + 1) % 2 = 1]

Listing(d, n) ==
  [i \in 1 .. inode_at(d, n).file_size \div EntrySize |-> Entry(d, n, i - 1)]

(* A call in progress: what it has made of the state so far, and whether   *)
(* it goes on, has ended the process, or has used an undefined inode.      *)
Call == [disk |-> disk, mp |-> mp, known |-> known, status |-> "going"]

Going(call) == call.status = "going"

Opened(call, n, mask_permissions) ==
  LET inode == inode_at(call.disk, n)
  IN  IF ~InodeReadable(call.disk, n)
      THEN [call EXCEPT !.status = "undefined"]
      ELSE IF inode.hard_link_count = 0 \/ ~(mask_permissions \subseteq inode.inode_mode)
      THEN [call EXCEPT !.status = "exited"]
      ELSE [disk   |-> FlushInode(call.disk, inode),
            mp     |-> Append(call.mp, [inode_number |-> n, position |-> 0,
                                        file_size |-> inode.file_size,
                                        is_directory |-> inode.is_directory]),
            known  |-> call.known,
            status |-> call.status]

Closed(call) == [call EXCEPT !.mp = Front(@)]

(* A file that is not empty and not a directory is left open.              *)
ReadOpened(opened, inode, n) ==
  IF ~Going(opened)
  THEN [call |-> opened, v |-> << >>]
  ELSE IF inode.file_size = 0
  THEN [call |-> Closed(opened), v |-> << >>]
  ELSE IF ~inode.is_directory
  THEN [call |-> opened, v |-> << >>]
  ELSE IF \E k \in IndicesChecked(0, (inode.file_size - 1) \div BLOCK_SIZE) : ~Readable(inode.blocks[k])
  THEN [call |-> [opened EXCEPT !.status = "exited"], v |-> << >>]
  ELSE [call |-> Closed(opened), v |-> Listing(opened.disk, n)]

(* The call after read_directory_info and what it has read.                *)
read_directory_info(call, n) ==
  ReadOpened(Opened(call, n, {"READ_BIT"}), inode_at(call.disk, n), n)

FirstNamed(read, file_name) ==
  LET matching == { i \in DOMAIN read.v : read.v[i].file_name = NameCode(file_name) }
  IN  [call  |-> read.call,
       found |-> { read.v[i] : i \in { j \in matching : \A k \in matching : j <= k } }]

(* The call after get_file_info and the set of the first entry found.      *)
get_file_info(call, n, file_name) ==
  FirstNamed(read_directory_info(call, n), file_name)

(* Mutant: what is on the way need not be a directory.                     *)
Entered_anything(walk, name) ==
  IF walk.at = -1 \/ ~Going(walk.call) THEN walk
  ELSE LET info == get_file_info(walk.call, walk.at, <<name>>)
       IN  [call |-> info.call,
            at   |-> IF info.found = {} THEN -1
                     ELSE (CHOOSE entry \in info.found : TRUE).inode_number]

(* One step of the way: into the directory of that name, or to -1.         *)
Entered(walk, name) ==
  IF walk.at = -1 \/ ~Going(walk.call) THEN walk
  ELSE LET info == get_file_info(walk.call, walk.at, <<name>>)
       IN  [call |-> info.call,
            at   |-> IF \E entry \in info.found : entry.is_directory
                     THEN (CHOOSE entry \in info.found : TRUE).inode_number
                     ELSE -1]

(* From the current directory through the directories named, to -1 when    *)
(* one of them is not there or not a directory.                            *)
traverse_hierachy(call, names) ==
  LET walk[k \in 0 .. Len(names)] ==
        IF k = 0 THEN [call |-> call, at |-> curr_directory_inode_number]
        ELSE Entered(walk[k - 1], names[k])
  IN  walk[Len(names)]

Arrived(walk) == walk.at # -1 /\ Going(walk.call)

(* What a write leaves once its local inode is destroyed.                  *)
Flushed(done) == FlushInode(done.disk, done.inode)

(* my_file_system_write of one entry and my_close; a directory that is     *)
(* full ends the process.                                                  *)
WrittenToOpened(opened, n, cells) ==
  IF ~Going(opened) THEN opened
  ELSE IF Last(opened.mp).file_size + EntrySize > SizeLimit
  THEN [opened EXCEPT !.status = "exited"]
  ELSE Closed([opened EXCEPT
                 !.disk = Flushed(Transfer(@, inode_at(@, n), Last(opened.mp), cells))])

(* my_open, my_file_system_write of one entry, my_close.                   *)
Appended(call, n, mask_permissions, cells) ==
  WrittenToOpened(Opened(call, n, mask_permissions), n, cells)

(* EX2FILESYSTEM::create_file of the inode, then the entry in directory n: *)
(* if that cannot be opened the process ends between the two.              *)
WithNewFile(call, n, path, mode, is_directory, mask_permissions) ==
  LET Create(created) ==
        [disk   |-> CreatedDisk(call.disk, inode_at(call.disk, created), mode, is_directory),
         mp     |-> call.mp,
         known  |-> call.known \cup {created},
         status |-> call.status]
      AndName(created) ==
        IF InodeReadable(call.disk, created)
        THEN Appended(Create(created), n, mask_permissions,
                      EntryCells(path, created, is_directory))
        ELSE [call EXCEPT !.status = "undefined"]
  IN  AndName(VacantInode(call.disk).ret)

-----------------------------------------------------------------------------

(* What a call leaves behind when it returns or ends the process.          *)
Return(call) ==
  /\ disk' = call.disk
  /\ mp' = call.mp
  /\ known' = call.known
  /\ alive' = (call.status # "exited")
  /\ undefined' = (call.status = "undefined")
  /\ removed' = removed \cup { n \in known : Attached(disk, n) /\ ~Attached(call.disk, n) }
  /\ UNCHANGED created_file_descriptors

Ready == alive /\ ~undefined

(* The bounds allow one more file.                                         *)
MayCreate == Cardinality(known \cup {VacantInode(disk).ret}) <= MaxFiles

change_directory(path) ==
  /\ Ready
  /\ \E walk \in {traverse_hierachy(Call, path)} :
       /\ Return(walk.call)
       /\ curr_directory_inode_number' =
            IF Arrived(walk) THEN walk.at ELSE curr_directory_inode_number

(* extract_permissions, when all of the characters are R or W.             *)
extract_permissions(permissions) ==
  { IF permissions[i] = "R" THEN "READ_BIT" ELSE "WRITE_BIT" : i \in DOMAIN permissions }

ValidPermissions(permissions) ==
  \A i \in DOMAIN permissions : permissions[i] \in {"R", "W"}

shell_create_file(path, permissions, is_directory) ==
  /\ Ready
  /\ MayCreate
  /\ \E walk \in {traverse_hierachy(Call, Front(path))} :
       Return(IF Arrived(walk) /\ ValidPermissions(permissions)
              THEN WithNewFile(walk.call, walk.at, path,
                     extract_permissions(permissions), is_directory, {"WRITE_BIT"})
              ELSE walk.call)
  /\ UNCHANGED curr_directory_inode_number

create_directory(path) ==
  /\ Ready
  /\ MayCreate
  /\ \E walk \in {traverse_hierachy(Call, Front(path))} :
       Return(IF Arrived(walk)
              THEN WithNewFile(walk.call, walk.at, path, Permissions, TRUE, Permissions)
              ELSE walk.call)
  /\ UNCHANGED curr_directory_inode_number

(* The inode loses a link, the directory keeps the entry.                  *)
remove_file(path) ==
  LET walk == traverse_hierachy(Call, Front(path))
      info == get_file_info(walk.call, walk.at, <<Last(path)>>)
      n    == (CHOOSE entry \in info.found : TRUE).inode_number
  IN  /\ Ready
      /\ UNCHANGED curr_directory_inode_number
      /\ \/ /\ ~Arrived(walk)
            /\ Return(walk.call)
         \/ /\ Arrived(walk)
            /\ ~Going(info.call) \/ info.found = {}
            /\ Return(info.call)
         \/ /\ Arrived(walk) /\ Going(info.call)
            /\ info.found # {}
            /\ IF InodeReadable(disk, n)
               THEN /\ inode_at(disk, n).hard_link_count = 1 =>
                         DeletionsIn(disk, n \div NUM_INODES_PER_GROUP) < MaxDeletions
                    /\ Return([info.call EXCEPT
                                 !.disk = DeletedDisk(@, n, inode_at(@, n))])
               ELSE Return([info.call EXCEPT !.status = "undefined"])

(* Mutant: the file to link to is looked up by its own path.               *)
create_hard_link_apart(path, corresponding_path) ==
  LET walk == traverse_hierachy(Call, Front(corresponding_path))
      info == get_file_info(walk.call, walk.at, <<Last(corresponding_path)>>)
      n    == (CHOOSE entry \in info.found : TRUE).inode_number
  IN  /\ Ready /\ Arrived(walk) /\ Going(info.call)
      /\ info.found # {}
      /\ InodeReadable(disk, n)
      /\ inode_at(disk, n).hard_link_count < MaxLinks
      /\ Return([info.call EXCEPT !.disk = LinkedDisk(@, n, inode_at(@, n))])
      /\ UNCHANGED curr_directory_inode_number

(* The first loop never runs, and the names of the file to link to are     *)
(* appended to those of the new one: all but the last lead to the          *)
(* directory the last is looked up in.  When it is not found the structure *)
(* still holds the entry before, the directory's own.                      *)
create_hard_link(path, corresponding_path) ==
  LET names == path \o corresponding_path
      walk  == traverse_hierachy(Call, Front(names))
      info  == get_file_info(walk.call, walk.at, <<Last(names)>>)
      n     == IF info.found = {} THEN walk.at
               ELSE (CHOOSE entry \in info.found : TRUE).inode_number
  IN  /\ Ready
      /\ UNCHANGED curr_directory_inode_number
      /\ \/ /\ ~Arrived(walk)
            /\ Return(walk.call)
         \/ /\ Arrived(walk)
            /\ ~Going(info.call)
            /\ Return(info.call)
         \/ /\ Arrived(walk) /\ Going(info.call)
            /\ IF InodeReadable(disk, n)
               THEN /\ inode_at(disk, n).hard_link_count < MaxLinks
                    /\ Return([info.call EXCEPT
                                 !.disk = LinkedDisk(@, n, inode_at(@, n))])
               ELSE Return([info.call EXCEPT !.status = "undefined"])

(* One name is looked up in directory n: all but the last have to be those *)
(* of directories.                                                         *)
LookedUp(call, n, name, last) ==
  LET info == get_file_info(call, n, <<name>>)
  IN  [call  |-> info.call,
       found |-> { entry \in info.found : last \/ entry.is_directory }]

(* All of the names, one after the other, in the one directory n, up to    *)
(* the first that is not found.                                            *)
LookedUpAll(call, n, names) ==
  LET look[i \in 1 .. Len(names)] ==
        IF i > 1 /\ (look[i - 1].found = {} \/ ~Going(look[i - 1].call))
        THEN look[i - 1]
        ELSE LookedUp(IF i = 1 THEN call ELSE look[i - 1].call, n, names[i], i = Len(names))
  IN  look[Len(names)]

(* An entry of that whole path must not be there; then all of the names,   *)
(* those of the new path before those of the file to link to, are looked   *)
(* up in the directory of the new one.                                     *)
create_soft_link(path, corresponding_path) ==
  LET walk  == traverse_hierachy(Call, Front(path))
      taken == get_file_info(walk.call, walk.at, path)
      look  == LookedUpAll(taken.call, walk.at, path \o corresponding_path)
      entry == CHOOSE e \in look.found : TRUE
  IN  /\ Ready
      /\ UNCHANGED curr_directory_inode_number
      /\ Return(IF ~Arrived(walk) THEN walk.call
                ELSE IF taken.found # {} \/ ~Going(taken.call) THEN taken.call
                ELSE IF look.found = {} \/ ~Going(look.call) THEN look.call
                ELSE Appended(look.call, walk.at, {"WRITE_BIT"},
                       EntryCells(<<Last(path)>>, entry.inode_number,
                                  entry.is_directory)))

PathCall(path) ==
  \/ change_directory(path)
  \/ \E permissions \in PermissionStrings, is_directory \in Kinds :
       shell_create_file(path, permissions, is_directory)
  \/ create_directory(path)
  \/ remove_file(path)

LinkCall(path, corresponding_path) ==
  \/ create_hard_link(path, corresponding_path)
  \/ create_soft_link(path, corresponding_path)

ShellNext ==
  \E path \in Paths :
    \/ PathCall(path)
    \/ \E corresponding_path \in Paths : LinkCall(path, corresponding_path)

ShellSpec == ShellInit /\ [][ShellNext]_shell_vars

-----------------------------------------------------------------------------

Directories(d, files) == { n \in files : inode_at(d, n).is_directory }

(* The places a file is named at.                                          *)
NamedAt(n) ==
  { place \in Directories(disk, known) \X (1 .. SizeLimit) :
      /\ place[2] \in DOMAIN Listing(disk, place[1])
      /\ Listing(disk, place[1])[place[2]].inode_number = n }

(* Unless a directory was removed, every file but the root is named by one *)
(* entry of one directory, from its creation on and also when it has been  *)
(* removed: no call, link or not, makes a second name.  Only a process     *)
(* that ended may have left one file without any.  What an entry says of a *)
(* file, directory or not, stays true.                                     *)
OneNamePerFile ==
  LET unnamed == { n \in known \ {root} : NamedAt(n) = {} }
  IN  ~undefined /\ removed \cap Directories(disk, known) = {} =>
        /\ \A n \in known \ {root} : Cardinality(NamedAt(n)) <= 1
        /\ unnamed = {} \/ (~alive /\ Cardinality(unnamed) = 1)
        /\ \A dir \in Directories(disk, known), i \in 1 .. SizeLimit :
             i \in DOMAIN Listing(disk, dir) =>
               LET entry == Listing(disk, dir)[i]
               IN  /\ entry.inode_number \in known \ {root}
                   /\ entry.is_directory = inode_at(disk, entry.inode_number).is_directory

(* Whatever was removed, the shell stands in a directory and has no        *)
(* descriptor open between two calls.                                      *)
BetweenCalls ==
  Ready => /\ curr_directory_inode_number \in Directories(disk, known)
           /\ mp = << >>

(* No call takes away, changes or moves an entry of a directory that still *)
(* has a link; one may follow the others if the directory is writable.     *)
ListingsKept ==
  [][~undefined' =>
       \A n \in Directories(disk, known) :
         Attached(disk', n) =>
           LET before == Listing(disk, n)
               after  == Listing(disk', n)
           IN  after = before \/ ( /\ IsPrefix(before, after)
                                   /\ Len(after) = Len(before) + 1
                                   /\ "WRITE_BIT" \in inode_at(disk, n).inode_mode )]_shell_vars

(* Where a name, and a path, leads if every directory on the way may be    *)
(* read: 0 is nowhere.                                                     *)
NamedIn(d, n, name) ==
  LET matching == { i \in DOMAIN Listing(d, n) :
                      Listing(d, n)[i].file_name = NameCode(<<name>>) }
  IN  IF \/ n = 0 \/ ~Attached(d, n) \/ ~inode_at(d, n).is_directory
         \/ matching = {}
      THEN 0
      ELSE Listing(d, n)[CHOOSE i \in matching :
                           \A j \in matching : i <= j].inode_number

FileNamed(d, path) ==
  LET at[k \in 0 .. Len(path)] ==
        IF k = 0 THEN curr_directory_inode_number
        ELSE NamedIn(d, at[k - 1], path[k])
  IN  at[Len(path)]

(* A directory on the way of the names was removed, lacks a permission or  *)
(* has no room for another entry.                                          *)
EndsTheWay(names) ==
  \E k \in 0 .. Len(names) - 1 :
    LET n == FileNamed(disk, SubSeq(names, 1, k))
    IN  /\ n \in Directories(disk, known)
        /\ \/ ~Attached(disk, n)
           \/ inode_at(disk, n).inode_mode # Permissions
           \/ inode_at(disk, n).file_size + EntrySize > SizeLimit

(* A call ends the process only over a directory of the path it is given,  *)
(* the one it works in or one it passes: a file, or a name that is not     *)
(* there, is answered.  create_hard_link passes those of both its paths,   *)
(* create_soft_link those of the new one.                                  *)
DiesOnlyOverDirectories ==
  [][~alive' =>
       \A path \in Paths :
         /\ PathCall(path) => EndsTheWay(path)
         /\ \A corresponding_path \in Paths :
              /\ create_hard_link(path, corresponding_path)
                   => EndsTheWay(path \o corresponding_path)
              /\ create_soft_link(path, corresponding_path)
                   => EndsTheWay(path)]_shell_vars

(* What is created is found if it was given by a name alone that was not   *)
(* taken, and not otherwise: an entry keeps the whole of its path, lookups *)
(* go name by name, and the first entry of a name hides the others.        *)
FoundByFreshName ==
  [][alive' /\ ~undefined' =>
       \A n \in known' \ known :
         \E place \in NamedAt(n)' :
           LET listing == Listing(disk', place[1])
               name    == listing[place[2]].file_name
           IN  (\E path \in Paths : FileNamed(disk', path) = n)
                 <=> /\ Len(PathNames[name]) = 1
                     /\ \A i \in 1 .. place[2] - 1 : listing[i].file_name # name]_shell_vars

(* Only a directory is ever given another link, and never by its own path: *)
(* all but the last name of a path and another one behind it lead to it,   *)
(* and the last is not in it.  It has a link already: what was removed     *)
(* never comes back.                                                       *)
LinkedByBothNames ==
  [][~undefined' =>
       \A n \in known :
         inode_at(disk', n).hard_link_count > inode_at(disk, n).hard_link_count =>
           \E path, corresponding_path \in Paths :
             LET names == path \o corresponding_path
             IN  /\ n \in Directories(disk, known)
                 /\ Attached(disk, n)
                 /\ FileNamed(disk, Front(names)) = n
                 /\ FileNamed(disk, names) = 0]_shell_vars
===============================================================================
