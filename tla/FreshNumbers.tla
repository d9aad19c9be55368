----------------------------- MODULE FreshNumbers -----------------------------
(***************************************************************************)
(* What an allocator of numbered slots promises, group by group: each call *)
(* gives a number of the group's own pool that no earlier call has given,  *)
(* in any order; once the whole pool has been given, and only then, every  *)
(* call gives the group's overflow number.                                 *)
(***************************************************************************)
EXTENDS Sequences, Functions

CONSTANTS
  Owners,     \* the groups
  Pool,       \* Pool[g]: the numbers that can be given for g
  Overflow    \* Overflow[g]: the number given when there is none left

VARIABLE given   \* given[g]: all the numbers given for g, oldest first

Init == given = [g \in Owners |-> <<>>]

Give(g) ==
  \E n \in Pool[g] \ Range(given[g]) :
    given' = [given EXCEPT ![g] = Append(@, n)]

GiveOverflow(g) ==
  /\ Pool[g] \subseteq Range(given[g])
  /\ given' = [given EXCEPT ![g] = Append(@, Overflow[g])]

Next == \E g \in Owners : Give(g) \/ GiveOverflow(g)

Spec == Init /\ [][Next]_given
===============================================================================
