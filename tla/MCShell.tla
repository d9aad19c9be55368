------------------------------- MODULE MCShell -------------------------------
(* Two names, alone and as a path; files for the directory of three        *)
(* creations.  Inode numbers 4 and 5 draw their data from group 0, the     *)
(* next ones from group 1.                                                 *)
EXTENDS Shell

TwoNames == << <<"a">>, <<"b">>, <<"a", "b">> >>

ThreePermissions == { <<"R", "W">>, <<"W">>, <<"R", "X">> }
RW == { <<"R", "W">> }

BothModes == {Permissions}

EntryValues == 0 .. 99

NoPayloads == {}
NoPositions == {}
NoJunk == {}
===============================================================================
