------------------------------ MODULE FileStore ------------------------------
(***************************************************************************)
(* What EX2FILESYSTEM promises to callers that open no file twice: files   *)
(* with links and a size, each known by a number of its own, changed one   *)
(* at a time, and not at all by a call that ends the process.              *)
(***************************************************************************)
EXTENDS Integers

CONSTANTS SizeLimit, Permissions

VARIABLES
  files,    \* from the numbers of files to their records
  opened,   \* numbers of the files that are open
  alive

vars == <<files, opened, alive>>

File(links, size, mode, is_directory) ==
  [links |-> links, size |-> size, mode |-> mode, is_directory |-> is_directory]

(* The root directory is there from the start.                             *)
Init ==
  /\ \E n \in DOMAIN files : files = [m \in {n} |-> File(1, 0, Permissions, TRUE)]
  /\ opened = {}
  /\ alive = TRUE

(* A new file has a number no file has had before.                         *)
Create ==
  \E n \in DOMAIN files' \ DOMAIN files :
    /\ files' = [m \in DOMAIN files \cup {n} |->
                   IF m = n
                   THEN File(1, 0, files'[n].mode, files'[n].is_directory)
                   ELSE files[m]]
    /\ UNCHANGED <<opened, alive>>

(* Only a file that has a link is opened.                                  *)
Open(n) ==
  /\ files[n].links > 0
  /\ opened' = opened \cup {n}
  /\ UNCHANGED <<files, alive>>

Close(n) ==
  /\ opened' = opened \ {n}
  /\ UNCHANGED <<files, alive>>

(* A file that is open and has a link grows up to the limit.               *)
Grow(n) ==
  /\ n \in opened
  /\ files[n].links > 0
  /\ \E size \in files[n].size + 1 .. SizeLimit : files' = [files EXCEPT ![n].size = size]
  /\ UNCHANGED <<opened, alive>>

Link(n) ==
  /\ files' = [files EXCEPT ![n].links = @ + 1]
  /\ UNCHANGED <<opened, alive>>

Unlink(n) ==
  /\ files[n].links > 0
  /\ files' = [files EXCEPT ![n].links = @ - 1]
  /\ UNCHANGED <<opened, alive>>

Die ==
  /\ alive' = FALSE
  /\ UNCHANGED <<files, opened>>

Next ==
  /\ alive
  /\ \/ Create
     \/ Die
     \/ \E n \in DOMAIN files : Open(n) \/ Close(n) \/ Grow(n) \/ Link(n) \/ Unlink(n)

Spec == Init /\ [][Next]_vars
===============================================================================
