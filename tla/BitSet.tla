-------------------------------- MODULE BitSet --------------------------------
(***************************************************************************)
(* What a bitmap of T bits promises: a set of indices, changed one index   *)
(* at a time, that can be asked for its lowest gap.  An index or a range   *)
(* that is not inside the map is answered with -1 and changes nothing.     *)
(* The last call and its answer are part of the state, so that an answer   *)
(* counts for the call it was given to and for no other.                   *)
(***************************************************************************)
EXTENDS Integers

CONSTANTS
  T,        \* number of bits
  Asked     \* the indices callers ask about, good and bad ones

VARIABLES
  bits,     \* the set indices
  call,     \* the last call: its name and its arguments
  answer    \* to the last call; an index that is set is answered with 1

Indices == 0 .. T - 1

Init == bits = {} /\ call = <<>> /\ answer = 0

Refuse(name, index) ==
  /\ index \notin Indices
  /\ call' = <<name, index>>
  /\ answer' = -1
  /\ UNCHANGED bits

Set(index) ==
  /\ index \in Indices
  /\ call' = <<"set_bit", index>>
  /\ bits' = bits \cup {index}
  /\ answer' = 0

Clear(index) ==
  /\ index \in Indices
  /\ call' = <<"unset_bit", index>>
  /\ bits' = bits \ {index}
  /\ answer' = 0

Test(index) ==
  /\ index \in Indices
  /\ call' = <<"is_set", index>>
  /\ answer' = (IF index \in bits THEN 1 ELSE 0)
  /\ UNCHANGED bits

Flip(index) ==
  /\ index \in Indices
  /\ call' = <<"flip", index>>
  /\ bits' = (IF index \in bits THEN bits \ {index} ELSE bits \cup {index})
  /\ answer' = (IF index \in bits THEN 0 ELSE 1)

LowestGap(first, last) ==
  /\ call' = <<"get_least_significant_bit", first, last>>
  /\ UNCHANGED bits
  /\ \/ /\ {first, last} \subseteq Indices
        /\ answer' \in (first .. last) \ bits
        /\ \A index \in (first .. last) \ bits : answer' <= index
     \/ /\ {first, last} \subseteq Indices => first .. last \subseteq bits
        /\ answer' = -1

Next ==
  \/ \E index \in Asked :
       \/ \E name \in {"set_bit", "unset_bit", "is_set", "flip"} : Refuse(name, index)
       \/ Set(index)
       \/ Clear(index)
       \/ Test(index)
       \/ Flip(index)
  \/ \E first, last \in Asked : LowestGap(first, last)

Spec == Init /\ [][Next]_<<bits, call, answer>>
===============================================================================
