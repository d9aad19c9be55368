----------------------------- MODULE MCBufferPool -----------------------------
(* Blocks that end in zeros, as nearly all do, and in what reads as the    *)
(* header of a dirty frame of the OS that belongs nowhere on the disk.     *)
EXTENDS BufferPool

ZeroHeader == [block_number |-> 0, os_operated |-> FALSE, is_dirty |-> FALSE]

OsHeader == [block_number |-> -2, os_operated |-> TRUE, is_dirty |-> TRUE]

TwoHeaders == {ZeroHeader, OsHeader}
OneHeader == {ZeroHeader}
===============================================================================
