--------------------------- MODULE MCEx2FileSystem ---------------------------
(* Small disks for EX2FILESYSTEM.  Inode numbers 4 and 5 draw their data   *)
(* from group 0, those from 6 on from group 1, as the numbers below and    *)
(* from 7800 on do; the first two numbers are the ones of files here.      *)
EXTENDS Ex2FileSystem, TLC

Both == {"READ_BIT", "WRITE_BIT"}

OneMode == {Both}
ReadOrBoth == {Both, {"READ_BIT"}}

OneZero == {<<0>>}
TwoCells == {<<1, 1>>}
OneOrTwoCells == {<<1>>, <<1, 1>>}

(* Of two blocks, or of the three of a whole file.                         *)
SixCells == {<<1, 1, 1, 1, 1, 1>>}
LongPayloads == {<<1, 1, 1>>} \cup SixCells

(* The byte before a file, and all of it.                                  *)
FromByteBefore == -1 .. SizeLimit
WithinLimit == 0 .. SizeLimit

NoJunk == {}

(* Records left on the stack by other handlers, of zeros, of anything.     *)
Left(uid, links, size, first, second) ==
  [FreshInode(uid) EXCEPT !.hard_link_count = links, !.file_size = size,
                          !.blocks = (0 :> first) @@ (1 :> second)]

StackJunk == {FreshInode(0), Left(5, 1, 1, DataBlock(0, 0), 0)}

(* uid 20 leads to an empty slot and 23 to a data block, both through the  *)
(* wrap of the offset; data for the one goes to a bitmap, for the other    *)
(* over an inode that can be read.                                         *)
WildJunk ==
  {FreshInode(0),
   Left(20, 0, 0, get_starting_block_bitmap(0), DataBlock(1, 1)),
   Left(23, 1, -1, get_starting_block_inode(4), get_starting_block_group_descriptor(1))}
===============================================================================
