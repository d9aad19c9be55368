------------------------------ MODULE LinkedList ------------------------------
(***************************************************************************)
(* Several LinkedList<T> over the same nodes, and a range-for loop over    *)
(* one of them whose body may take nodes out and move them about.  One     *)
(* call is one step.                                                       *)
(*                                                                         *)
(* Callers do not touch what a destructor has freed, and do not destroy a  *)
(* list during the loop; a loop's body does not read the data of the node  *)
(* it stands on (at a null pointer that would end the process).  Bound:    *)
(* MaxChanges, on the changes the bodies of one loop make.                 *)
(***************************************************************************)
EXTENDS ListLinks, Sequences

CONSTANT MaxChanges

ASSUME ChangesAssumption == MaxChanges \in Nat

VARIABLES
  links,
  destroyed,   \* the lists whose destructor has run
  freed,       \* the addresses it has freed
  iterated,    \* the list the loop goes over
  curr_node,   \* the loop's iterator
  changes,     \* made by the bodies of this loop
  disturbed    \* one of them took away the node the iterator stood on

vars == <<links, destroyed, freed, iterated, curr_node, changes, disturbed>>

TypeOK ==
  /\ links \in Links
  /\ destroyed \subseteq Lists
  /\ freed \subseteq Addresses
  /\ freed \cap Sentinels = UNION { {head(list), tail(list)} : list \in destroyed }
  /\ iterated \in Lists
  /\ curr_node \in Addresses \cup {null}
  /\ changes \in 0 .. MaxChanges
  /\ disturbed \in BOOLEAN

(* operator!= compares addresses only: null is not end().                  *)
Looping == curr_node # tail(iterated)

Init ==
  /\ links = NewLinks
  /\ destroyed = {}
  /\ freed = {}
  /\ iterated \in Lists
  /\ curr_node = tail(iterated)
  /\ changes = 0
  /\ disturbed = FALSE

-----------------------------------------------------------------------------

(* What a caller does to the links, in a loop's body or outside of one.    *)
Change(list, node, changed) ==
  /\ list \notin destroyed
  /\ node \notin freed
  /\ Looping => changes < MaxChanges
  /\ links' = changed
  /\ changes' = IF Looping THEN changes + 1 ELSE changes
  /\ UNCHANGED <<destroyed, freed, iterated, curr_node>>

Unlink(list, node) ==
  /\ Change(list, node, unlink(links, list, node))
  /\ disturbed' = (disturbed \/ node = curr_node)

Disturbs(list, node) == node = curr_node /\ list # iterated

InsertHead(list, node) ==
  /\ Change(list, node, insert_head(links, list, node))
  /\ disturbed' = (disturbed \/ Disturbs(list, node))

InsertTail(list, node) ==
  /\ Change(list, node, insert_tail(links, list, node))
  /\ disturbed' = (disturbed \/ Disturbs(list, node))

Begin(list) ==
  /\ ~Looping
  /\ list \notin destroyed
  /\ iterated' = list
  /\ curr_node' = begin(links, list)
  /\ changes' = 0
  /\ disturbed' = FALSE
  /\ UNCHANGED <<links, destroyed, freed>>

(* operator++; the loop goes on until operator!= finds end().  At a null   *)
(* pointer the iterator stays where it is, and the loop goes on all the    *)
(* same: a step that changes nothing.                                      *)
Increment ==
  /\ Looping
  /\ curr_node' = IF curr_node = null THEN null ELSE links.next[curr_node]
  /\ UNCHANGED <<links, destroyed, freed, iterated, changes, disturbed>>

(* Mutant: a walk from the first node, not from the sentinel before it.    *)
Destroy_sparing(list) ==
  /\ ~Looping
  /\ list \notin destroyed
  /\ destroyed' = destroyed \cup {list}
  /\ freed' = freed \cup Reached(links, begin(links, list))
  /\ UNCHANGED <<links, iterated, curr_node, changes, disturbed>>

(* The destructor frees what it comes by on its way along next.            *)
Destroy(list) ==
  /\ ~Looping
  /\ list \notin destroyed
  /\ destroyed' = destroyed \cup {list}
  /\ freed' = freed \cup Reached(links, head(list))
  /\ UNCHANGED <<links, iterated, curr_node, changes, disturbed>>

Next ==
  \/ \E list \in Lists, node \in Nodes :
       Unlink(list, node) \/ InsertHead(list, node) \/ InsertTail(list, node)
  \/ \E list \in Lists : Begin(list) \/ Destroy(list)
  \/ Increment

(* A loop that is running goes on.                                         *)
Spec == Init /\ [][Next]_vars /\ WF_vars(Increment)

-----------------------------------------------------------------------------

(* next and prev mirror each other on everything that was not freed, so    *)
(* that unlink finds the right neighbours whichever list it is called on.  *)
Mirrored ==
  \A a, b \in Addresses \ freed : links.next[a] = b <=> links.prev[b] = a

(* No node is in two lists and none in a list was freed: a destructor      *)
(* frees nothing twice and nothing another list still holds.               *)
ListsApart ==
  \A list \in Lists \ destroyed :
    /\ Reached(links, head(list)) \cap freed = {}
    /\ tail(list) \in Reached(links, head(list))
    /\ \A other \in Lists \ (destroyed \cup {list}) :
         Reached(links, head(list)) \cap Reached(links, head(other)) = {}

(* The loop keeps to its list as long as its bodies leave the node it      *)
(* stands on in that list, whatever else they take out, put in or move:    *)
(* then the end() it compares with is still ahead of it.                   *)
LoopKeepsToItsList ==
  (~disturbed /\ iterated \notin destroyed)
    => curr_node \in Reached(links, begin(links, iterated))

(* Every loop comes to end().  The one exception is a loop whose body took *)
(* away the node it stood on: it may come to a null pointer instead, where *)
(* it stays for ever.  Nothing else keeps a loop from its end, not even    *)
(* wandering into another list.                                            *)
LoopEnds == []<>(~Looping \/ (disturbed /\ curr_node = null))

(* The nodes of a list from head to tail.                                  *)
Contents(list) ==
  IF list \in destroyed
  THEN << >>
  ELSE SelectSeq([i \in 1 .. Cardinality(Addresses) |-> Walk(links, head(list))[i]],
                 LAMBDA a : a \in Nodes)

Ordered == INSTANCE NodeLists WITH lists <- [list \in Lists |-> Contents(list)]

(* Pointers or sequences: the same lists in the same order.                *)
ImplementsNodeLists == Ordered!Spec
===============================================================================
