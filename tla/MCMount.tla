-------------------------------- MODULE MCMount --------------------------------
(* The image of MCBlockDescriptorManager, found blank or full of something *)
(* that a session before left: full bitmaps, inodes with links, data.      *)
EXTENDS Mount

Leftovers ==
  {ZeroData,
   [kind |-> "bitmap", bits |-> InodeBits, block_number |-> 0],
   [FreshInode(4) EXCEPT !.hard_link_count = 1, !.file_size = 1]}

(* Two data blocks, an inode, a bitmap.                                    *)
Used == {DataBlock(0, 0), DataBlock(1, 1), get_starting_block_inode(4),
         get_starting_block_inode_bitmap(0)}
===============================================================================
