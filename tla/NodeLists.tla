------------------------------ MODULE NodeLists ------------------------------
(***************************************************************************)
(* What LinkedList promises: disjoint sequences of nodes.  A node put into *)
(* a list leaves the one it was in, and only that.                         *)
(***************************************************************************)
EXTENDS Sequences

CONSTANTS Lists, Nodes

VARIABLE lists

Init == lists = [list \in Lists |-> << >>]

Without(node) ==
  [list \in Lists |-> SelectSeq(lists[list], LAMBDA other : other # node)]

Unlink(node) == lists' = Without(node)

InsertHead(list, node) ==
  lists' = [Without(node) EXCEPT ![list] = <<node>> \o @]

InsertTail(list, node) ==
  lists' = [Without(node) EXCEPT ![list] = Append(@, node)]

(* A list goes, its nodes with it and no others.                           *)
Destroy(list) == lists' = [lists EXCEPT ![list] = << >>]

Next ==
  \/ \E list \in Lists : Destroy(list)
  \/ \E node \in Nodes :
       \/ Unlink(node)
       \/ \E list \in Lists : InsertHead(list, node) \/ InsertTail(list, node)

Spec == Init /\ [][Next]_lists
===============================================================================
