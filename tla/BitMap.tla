-------------------------------- MODULE BitMap --------------------------------
(***************************************************************************)
(* The template BitMap<T> of bitmap.cpp: T bits in words of block_size     *)
(* bits (31 of the 32 bits of an int, so that no mask is negative).  A     *)
(* word is the set of its set bits: | is union, ^ symmetric difference,    *)
(* and a result "num & (1 << i)", which callers only compare with 0, is    *)
(* 1 for any mask.                                                         *)
(***************************************************************************)
EXTENDS Integers, FiniteSets, Sequences

CONSTANTS
  T,            \* NUM_INODES_PER_GROUP in the code: 7800
  block_size,   \* sizeof(int) * 8 - 1 = 31
  Asked         \* arguments of the calls, good and bad ones

ASSUME BitMapAssumption ==
  /\ T \in Nat \ {0}
  /\ block_size \in Nat \ {0}
  /\ Asked \subseteq Int

VARIABLES
  blocks,
  call,      \* the last call: its name and its arguments
  result     \* of the last call

vars == <<blocks, call, result>>

(* ceil((float)T / block_size)                                             *)
size == (T + block_size - 1) \div block_size

Word == SUBSET (0 .. block_size - 1)

(* Mutant: one index too many.                                             *)
check_boundaries_inclusive(index) == index >= 0 /\ index <= T

check_boundaries(index) == index >= 0 /\ index < T

TypeOK ==
  /\ blocks \in [0 .. size - 1 -> Word]
  /\ Len(call) \in 0 .. 3
  /\ result \in -1 .. T - 1 \cup {1}

Init ==
  /\ blocks = [b \in 0 .. size - 1 |-> {}]
  /\ call = <<>>
  /\ result = 0

-----------------------------------------------------------------------------

(* The lowest clear bit of a word from start up to, not including, end.    *)
Gaps(num, start, end) == { i \in start .. end - 1 : i \notin num }

extract_least_significant(num, start, end) ==
  IF Gaps(num, start, end) = {}
  THEN -1
  ELSE CHOOSE i \in Gaps(num, start, end) :
         \A j \in Gaps(num, start, end) : i <= j

(* The four calls on an index answer a bad one with -1.                    *)
OutOfBounds(name, index) ==
  /\ ~check_boundaries(index)
  /\ call' = <<name, index>>
  /\ result' = -1
  /\ UNCHANGED blocks

(* Mutant: bits counted from one.                                          *)
set_bit_shifted(index) ==
  /\ check_boundaries(index)
  /\ call' = <<"set_bit", index>>
  /\ blocks' = [blocks EXCEPT ![index \div block_size] = @ \cup {(index % block_size) + 1}]
  /\ result' = 0

set_bit(index) ==
  /\ check_boundaries(index)
  /\ call' = <<"set_bit", index>>
  /\ blocks' = [blocks EXCEPT ![index \div block_size] = @ \cup {index % block_size}]
  /\ result' = 0

is_set(index) ==
  /\ check_boundaries(index)
  /\ call' = <<"is_set", index>>
  /\ result' = (IF index % block_size \in blocks[index \div block_size] THEN 1 ELSE 0)
  /\ UNCHANGED blocks

(* blocks[block_idx] ^= 1 << i                                             *)
Toggled(index) ==
  [blocks EXCEPT ![index \div block_size] =
     (@ \cup {index % block_size}) \ (@ \cap {index % block_size})]

unset_bit(index) ==
  /\ check_boundaries(index)
  /\ call' = <<"unset_bit", index>>
  /\ blocks' = IF index % block_size \in blocks[index \div block_size]
               THEN Toggled(index)
               ELSE blocks
  /\ result' = 0

flip(index) ==
  /\ check_boundaries(index)
  /\ call' = <<"flip", index>>
  /\ blocks' = Toggled(index)
  /\ result' = (IF index % block_size \in blocks'[index \div block_size] THEN 1 ELSE 0)

(* Mutant: the last index of the range is not looked at.                   *)
PartOf_exclusive(block, start_range, end_range) ==
  LET bound_start == IF block = start_range \div block_size
                     THEN start_range % block_size ELSE 0
      bound_end   == IF block = end_range \div block_size
                     THEN end_range % block_size ELSE block_size
  IN  extract_least_significant(blocks[block], bound_start, bound_end)

(* The words of a range in the order they are searched, each with the part *)
(* of it that belongs to the range.                                        *)
PartOf(block, start_range, end_range) ==
  LET bound_start == IF block = start_range \div block_size
                     THEN start_range % block_size ELSE 0
      bound_end   == IF block = end_range \div block_size
                     THEN (end_range % block_size) + 1 ELSE block_size
  IN  extract_least_significant(blocks[block], bound_start, bound_end)

BlocksWithGap(start_range, end_range) ==
  { block \in start_range \div block_size .. end_range \div block_size :
      PartOf(block, start_range, end_range) # -1 }

get_least_significant_bit(start_range, end_range) ==
  LET candidates == BlocksWithGap(start_range, end_range)
      block == CHOOSE b \in candidates : \A c \in candidates : b <= c
  IN  /\ call' = <<"get_least_significant_bit", start_range, end_range>>
      /\ result' =
           IF \/ start_range > end_range
              \/ ~check_boundaries(start_range)
              \/ ~check_boundaries(end_range)
              \/ candidates = {}
           THEN -1
           ELSE block * block_size + PartOf(block, start_range, end_range)
      /\ UNCHANGED blocks

Next ==
  \/ \E index \in Asked :
       \/ \E name \in {"set_bit", "unset_bit", "is_set", "flip"} : OutOfBounds(name, index)
       \/ set_bit(index)
       \/ unset_bit(index)
       \/ is_set(index)
       \/ flip(index)
  \/ \E start_range, end_range \in Asked :
       get_least_significant_bit(start_range, end_range)

Spec == Init /\ [][Next]_vars

-----------------------------------------------------------------------------

(* The indices whose bit is set in the words.                              *)
SetBits == { index \in 0 .. T - 1 :
               index % block_size \in blocks[index \div block_size] }

(* The last word has bits beyond the map: no call ever sets one, so what   *)
(* is written to disk with it never carries a bit nobody can clear.        *)
SpareBitsClear ==
  \A block \in DOMAIN blocks : \A i \in blocks[block] : block * block_size + i < T

Abstract == INSTANCE BitSet WITH bits <- SetBits, answer <- result

(* BitMap<T> is a set of indices: words, masks and the three-part search   *)
(* for the lowest clear bit of a range do not show.                        *)
ImplementsBitSet == Abstract!Spec
===============================================================================
