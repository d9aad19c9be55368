------------------------------ MODULE ListLinks ------------------------------
(***************************************************************************)
(* The member functions of LinkedList<T> (linked_list.tpp) as operators on *)
(* the links between nodes.  A node's address is a positive number, a list *)
(* owns two sentinels, and links is what next and prev hold at every       *)
(* address.  Nothing says which list a node is in: unlink and the two      *)
(* insertions work on whatever the node's own links lead to.               *)
(* Left out: the data of a node, size() (its member is never set), the     *)
(* status codes (-1 for a sentinel passed as a node, which no caller has). *)
(***************************************************************************)
EXTENDS Integers, FiniteSets

CONSTANTS Lists, Nodes

ASSUME ListsAssumption ==
  /\ IsFiniteSet(Lists) /\ Lists \subseteq Nat \ {0}
  /\ IsFiniteSet(Nodes) /\ Nodes \subseteq Nat \ {0}

null == 0

head(list) == -2 * list
tail(list) == -2 * list - 1

Sentinels == { head(list) : list \in Lists } \cup { tail(list) : list \in Lists }
Addresses == Nodes \cup Sentinels

Links == [next : [Addresses -> Addresses \cup {null}],
          prev : [Addresses -> Addresses \cup {null}]]

(* Every list as its constructor makes it, every node as its own does.     *)
NewLinks ==
  [next |-> [a \in Addresses |->
               IF \E list \in Lists : a = head(list) THEN a - 1 ELSE null],
   prev |-> [a \in Addresses |->
               IF \E list \in Lists : a = tail(list) THEN a + 1 ELSE null]]

-----------------------------------------------------------------------------

get_head(links, list) ==
  IF links.next[head(list)] = tail(list) THEN null ELSE links.next[head(list)]

get_tail(links, list) ==
  IF links.prev[tail(list)] = head(list) THEN null ELSE links.prev[tail(list)]

begin(links, list) ==
  IF get_head(links, list) = null THEN tail(list) ELSE get_head(links, list)

(* A pointer stored at an address, when there is one.                      *)
Stored(f, address, value) ==
  IF address = null THEN f ELSE [f EXCEPT ![address] = value]

(* Mutant: the node forgets where it was before its neighbours are told.   *)
unlink_early(links, list, node) ==
  IF node \in {head(list), tail(list)} THEN links
  ELSE [next |-> [links.next EXCEPT ![node] = null],
        prev |-> [links.prev EXCEPT ![node] = null]]

(* Mutant: the node after the one taken out is not told.                   *)
unlink_forward(links, list, node) ==
  IF node \in {head(list), tail(list)} THEN links
  ELSE [next |-> [Stored(links.next, links.prev[node], links.next[node])
                    EXCEPT ![node] = null],
        prev |-> [links.prev EXCEPT ![node] = null]]

unlink(links, list, node) ==
  IF node \in {head(list), tail(list)} THEN links
  ELSE [next |-> [Stored(links.next, links.prev[node], links.next[node])
                    EXCEPT ![node] = null],
        prev |-> [Stored(links.prev, links.next[node], links.prev[node])
                    EXCEPT ![node] = null]]

(* Mutant: the node put in is not linked to the one behind it.             *)
insert_helper_open(links, prev_node, curr_node, next_node) ==
  IF null \in {prev_node, curr_node, next_node} THEN links
  ELSE [next |-> [links.next EXCEPT ![prev_node] = curr_node],
        prev |-> [links.prev EXCEPT ![curr_node] = prev_node, ![next_node] = curr_node]]

insert_helper(links, prev_node, curr_node, next_node) ==
  IF null \in {prev_node, curr_node, next_node} THEN links
  ELSE [next |-> [links.next EXCEPT ![prev_node] = curr_node, ![curr_node] = next_node],
        prev |-> [links.prev EXCEPT ![curr_node] = prev_node, ![next_node] = curr_node]]

(* Mutant: a node is put first without being taken out of where it is.     *)
insert_head_again(links, list, node) ==
  insert_helper(links, head(list), node, links.next[head(list)])

insert_head(links, list, node) ==
  LET out == unlink(links, list, node)
  IN  insert_helper(out, head(list), node, out.next[head(list)])

(* Mutant: the last node is looked up before the node is taken out.        *)
insert_tail_stale(links, list, node) ==
  insert_helper(unlink(links, list, node), links.prev[tail(list)], node, tail(list))

insert_tail(links, list, node) ==
  LET out == unlink(links, list, node)
  IN  insert_helper(out, out.prev[tail(list)], node, tail(list))

-----------------------------------------------------------------------------

(* The addresses a walk along next comes by, null at its end; no walk that *)
(* ends is longer than there are addresses.                                *)
Walk(links, from) ==
  LET at[i \in 0 .. Cardinality(Addresses)] ==
        IF i = 0 THEN from
        ELSE IF at[i - 1] = null THEN null ELSE links.next[at[i - 1]]
  IN  at

Reached(links, from) ==
  { Walk(links, from)[i] : i \in 0 .. Cardinality(Addresses) } \ {null}
===============================================================================
