----------------------- MODULE MCBlockDescriptorManager -----------------------
(* Scaled-down groups that keep the shape of the real ones: the reserved   *)
(* blocks outnumber the front offset by one, the inode numbers of group 0  *)
(* fall in the data groups 0 and 1, those of group 1 in none, and the      *)
(* later inodes lie past the end of the image or wrap to a negative offset.*)
EXTENDS BlockDescriptorManagerTheorems
===============================================================================
