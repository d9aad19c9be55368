---------------------------- MODULE BitMapTheorems ----------------------------
(***************************************************************************)
(* BitMap<T> is a set of indices, for every number of bits, every size of  *)
(* a word and all arguments of the calls.                                  *)
(***************************************************************************)
EXTENDS BitMap, FiniteSetTheorems, TLAPS

(* A set of naturals that is not empty has a least element: the shortest   *)
(* of the intervals 0 .. m - 1 that end before one of its elements.        *)
LEMMA LeastNatural ==
  ASSUME NEW S, S \subseteq Nat, S # {}
  PROVE  \E n \in S : \A m \in S : n <= m
<1>1. PICK top \in S : TRUE
  OBVIOUS
<1> DEFINE U == 0 .. top
           Initial == { x \in SUBSET U : \E m \in S : m <= top /\ x = 0 .. m - 1 }
<1>2. IsWellFoundedOn(StrictSubsetOrdering(U), SUBSET U)
  <2>1. IsFiniteSet(U) BY <1>1, FS_Interval
  <2>2. FiniteSubsetsOf(U) = SUBSET U
    <3> HIDE DEF U
    <3> QED BY <2>1, FS_FiniteSubsetsOfFinite
  <2>3. IsWellFoundedOn(StrictSubsetOrdering(U), FiniteSubsetsOf(U))
    BY FS_StrictSubsetOrderingWellFounded
  <2> QED BY <2>2, <2>3
<1>3. Initial # {}
  <2>1. 0 .. top - 1 \in SUBSET U BY <1>1
  <2>2. 0 .. top - 1 \in Initial BY <1>1, <2>1
  <2> QED BY <2>2
<1>4. Initial \subseteq SUBSET U
  OBVIOUS
<1>5. PICK x \in Initial : \A y \in Initial : ~ (<<y, x>> \in StrictSubsetOrdering(U))
  <2> HIDE DEF Initial, U
  <2> QED BY <1>2, <1>3, <1>4, WFMin
<1>6. PICK n \in S : n <= top /\ x = 0 .. n - 1
  BY <1>5
<1>7. ASSUME NEW m \in S, m < n PROVE FALSE
  <2>1. 0 .. m - 1 \in Initial
    <3>1. m <= top /\ m \in Nat BY <1>1, <1>6, <1>7
    <3>2. 0 .. m - 1 \in SUBSET U BY <1>1, <3>1
    <3> QED BY <3>1, <3>2
  <2>2. 0 .. m - 1 \subseteq x /\ 0 .. m - 1 # x
    <3>1. m \in x /\ m \notin 0 .. m - 1 BY <1>6, <1>7
    <3> QED BY <1>6, <1>7, <3>1
  <2>3. <<0 .. m - 1, x>> \in StrictSubsetOrdering(U)
    BY <2>1, <2>2, <1>4, <1>5 DEF StrictSubsetOrdering
  <2> QED BY <1>5, <2>1, <2>3
<1> QED BY <1>6, <1>7

(* A larger factor gives a larger product.                                 *)
LEMMA ProductGrows ==
  ASSUME NEW a \in Int, NEW b \in Int, NEW c \in Nat, a <= b
  PROVE  a * c <= b * c
  OBVIOUS

(* A place in areas of equal size determines the area and the offset in it.*)
LEMMA PlaceUnique ==
  ASSUME NEW g \in Nat, NEW h \in Nat, NEW x \in Nat, NEW y \in Nat,
         NEW s \in Nat, x < s, y < s, g * s + x = h * s + y
  PROVE  g = h /\ x = y
<1>1. ~ g < h
  <2> SUFFICES ASSUME g < h PROVE FALSE OBVIOUS
  <2>1. (g + 1) * s <= h * s BY ProductGrows
  <2>2. (g + 1) * s = g * s + s OBVIOUS
  <2> QED BY <2>1, <2>2
<1>2. ~ h < g
  <2> SUFFICES ASSUME h < g PROVE FALSE OBVIOUS
  <2>1. (h + 1) * s <= g * s BY ProductGrows
  <2>2. (h + 1) * s = h * s + s OBVIOUS
  <2> QED BY <2>1, <2>2
<1> QED BY <1>1, <1>2

(* The area a place is in.                                                 *)
LEMMA DivisionBounds ==
  ASSUME NEW x \in Nat, NEW c \in Nat \ {0}, NEW q, q = x \div c
  PROVE  q \in Nat /\ q * c <= x /\ x < q * c + c
  OBVIOUS

LEMMA DivisionGrows ==
  ASSUME NEW x \in Nat, NEW y \in Nat, NEW c \in Nat \ {0}, x <= y
  PROVE  x \div c \in Nat /\ y \div c \in Nat /\ x \div c <= y \div c
<1>1. PICK p, q : p = x \div c /\ q = y \div c
  OBVIOUS
<1>2. p \in Nat /\ p * c <= x
  BY <1>1, DivisionBounds
<1>3. q \in Nat /\ y < q * c + c
  BY <1>1, DivisionBounds
<1>4. ~ q + 1 <= p
  <2> SUFFICES ASSUME q + 1 <= p PROVE FALSE
    OBVIOUS
  <2>1. (q + 1) * c <= p * c
    BY <1>2, <1>3, ProductGrows
  <2>2. (q + 1) * c = q * c + c /\ q * c \in Int /\ p * c \in Int
    BY <1>2, <1>3
  <2> QED BY <1>2, <1>3, <2>1, <2>2
<1> QED BY <1>1, <1>2, <1>3, <1>4

(* The words and their spare bits.                                         *)
Words == blocks \in [0 .. size - 1 -> Word] /\ SpareBitsClear

-----------------------------------------------------------------------------

(* An index is a word and a bit in it.                                     *)
LEMMA IndexParts ==
  ASSUME NEW index \in Nat
  PROVE  /\ index \div block_size \in Nat
         /\ index % block_size \in 0 .. block_size - 1
         /\ index = (index \div block_size) * block_size + (index % block_size)
  BY BitMapAssumption

(* And a word and a bit in it are one index.                               *)
LEMMA PartsIndex ==
  ASSUME NEW block \in Nat, NEW i \in 0 .. block_size - 1, NEW index,
         index = block * block_size + i
  PROVE  /\ index \in Nat
         /\ index \div block_size = block
         /\ index % block_size = i
<1>1. block_size \in Nat /\ i \in Nat /\ i < block_size
  BY BitMapAssumption
<1>2. block * block_size \in Nat
  BY <1>1
<1>3. index \in Nat
  BY <1>1, <1>2
<1>4. PICK c, j : c = index \div block_size /\ j = index % block_size
  OBVIOUS
<1>5. c \in Nat /\ j \in Nat /\ j < block_size /\ index = c * block_size + j
  <2>1. c \in Nat /\ j \in 0 .. block_size - 1 /\ index = c * block_size + j
    BY <1>3, <1>4, IndexParts
  <2> QED BY <1>1, <2>1
<1>6. block * block_size + i = c * block_size + j
  BY <1>5
<1>7. c = block /\ j = i
  BY <1>1, <1>5, <1>6, PlaceUnique
<1> QED BY <1>3, <1>4, <1>7

(* The word of an index of the map is one of its words.                    *)
LEMMA WordOfIndex ==
  ASSUME NEW index \in 0 .. T - 1
  PROVE  index \div block_size \in 0 .. size - 1
<1>1. PICK q, top : q = index \div block_size /\ top = T + block_size - 1
  OBVIOUS
<1>2. /\ index \in Nat /\ T \in Nat /\ block_size \in Nat \ {0} /\ top \in Nat
      /\ size = top \div block_size
  BY <1>1, BitMapAssumption DEF size
<1>3. q \in Nat /\ q * block_size <= index
  BY <1>1, <1>2, DivisionBounds
<1>4. size \in Nat /\ top < size * block_size + block_size
  BY <1>2, DivisionBounds
<1>5. ~ size <= q
  <2> SUFFICES ASSUME size <= q PROVE FALSE
    OBVIOUS
  <2>1. size * block_size <= q * block_size
    BY <1>2, <1>3, <1>4, ProductGrows
  <2>2. size * block_size \in Int /\ q * block_size \in Int
    BY <1>2, <1>3, <1>4
  <2> QED BY <1>1, <1>2, <1>3, <1>4, <2>1, <2>2
<1> QED BY <1>1, <1>3, <1>4, <1>5

(* Words that differ in one bit are sets that differ in one index.         *)
LEMMA OneWordChanges ==
  ASSUME Words, NEW index \in 0 .. T - 1, NEW word \in Word,
         \A i \in word : i \in blocks[index \div block_size] \/ i = index % block_size,
         \A i \in blocks[index \div block_size] : i \in word \/ i = index % block_size,
         blocks' = [blocks EXCEPT ![index \div block_size] = word]
  PROVE  /\ Words'
         /\ SetBits' = IF index % block_size \in word
                       THEN SetBits \cup {index} ELSE SetBits \ {index}
<1>1. PICK q, r : q = index \div block_size /\ r = index % block_size
  OBVIOUS
<1>2. /\ index \in Nat /\ q \in 0 .. size - 1
      /\ r \in 0 .. block_size - 1 /\ index = q * block_size + r
  <2>1. index \in Nat
    OBVIOUS
  <2> QED BY <1>1, <2>1, IndexParts, WordOfIndex
<1>3. /\ blocks' \in [0 .. size - 1 -> Word]
      /\ blocks'[q] = word
      /\ \A block \in 0 .. size - 1 \ {q} : blocks'[block] = blocks[block]
  BY <1>1, <1>2 DEF Words
<1>4. ASSUME NEW block \in DOMAIN blocks', NEW i \in blocks'[block]
      PROVE  block * block_size + i < T
  <2>1. CASE block = q /\ i = r
    BY <1>2, <2>1, BitMapAssumption
  <2>2. CASE ~ (block = q /\ i = r)
    <3>1. block \in DOMAIN blocks /\ i \in blocks[block]
      BY <1>1, <1>3, <1>4, <2>2 DEF Words
    <3> QED BY <3>1 DEF Words, SpareBitsClear
  <2> QED BY <2>1, <2>2
<1>5. Words'
  BY <1>3, <1>4 DEF Words, SpareBitsClear, Word, size
<1>6. ASSUME NEW other \in 0 .. T - 1, other # index
      PROVE  (other % block_size \in blocks'[other \div block_size])
               <=> (other % block_size \in blocks[other \div block_size])
  <2>1. PICK c, j : c = other \div block_size /\ j = other % block_size
    OBVIOUS
  <2>2. other \in Nat
    OBVIOUS
  <2>3. /\ c \in 0 .. size - 1
        /\ other = c * block_size + j
    BY <2>1, <2>2, IndexParts, WordOfIndex
  <2>4. ~ (c = q /\ j = r)
    BY <1>2, <1>6, <2>3
  <2> QED BY <1>1, <1>3, <2>1, <2>3, <2>4
<1>7. (index % block_size \in blocks'[index \div block_size]) <=> index % block_size \in word
  BY <1>1, <1>3
<1>8. SetBits' = { other \in 0 .. T - 1 :
                     other % block_size \in blocks'[other \div block_size] }
  BY DEF SetBits
<1> QED BY <1>5, <1>6, <1>7, <1>8 DEF SetBits

-----------------------------------------------------------------------------

(* The lowest gap of a part of a word, if there is one.                    *)
LEMMA LowestInWord ==
  ASSUME NEW num, NEW start \in Nat, NEW end \in Nat,
         NEW i, i = extract_least_significant(num, start, end)
  PROVE  \/ i = -1 /\ start .. end - 1 \subseteq num
         \/ /\ i \in start .. end - 1 /\ i \notin num
            /\ \A j \in start .. end - 1 : j \notin num => i <= j
<1>1. PICK gaps : gaps = Gaps(num, start, end)
  OBVIOUS
<1>2. /\ \A j : j \in gaps <=> j \in start .. end - 1 /\ j \notin num
      /\ gaps \subseteq Nat
  BY <1>1 DEF Gaps
<1>3. i = IF gaps = {} THEN -1 ELSE CHOOSE j \in gaps : \A k \in gaps : j <= k
  BY <1>1 DEF extract_least_significant
<1>4. CASE gaps = {}
  BY <1>2, <1>3, <1>4
<1>5. CASE gaps # {}
  <2>1. \E j \in gaps : \A k \in gaps : j <= k
    BY <1>2, <1>5, LeastNatural
  <2>2. i \in gaps /\ \A k \in gaps : i <= k
    BY <1>3, <1>5, <2>1
  <2> QED BY <1>2, <2>2
<1> QED BY <1>4, <1>5

(* The part of a word that belongs to a range is the indices of the range  *)
(* in that word, so the search of the part finds the lowest of them that   *)
(* is not set.                                                             *)
LEMMA LowestInPart ==
  ASSUME NEW first \in 0 .. T - 1, NEW last \in 0 .. T - 1, first <= last,
         NEW block \in first \div block_size .. last \div block_size,
         NEW i, i = PartOf(block, first, last)
  PROVE  \/ /\ i = -1
            /\ \A index \in first .. last : index \div block_size = block => index \in SetBits
         \/ /\ i \in 0 .. block_size - 1
            /\ block * block_size + i \in (first .. last) \ SetBits
            /\ \A index \in (first .. last) \ SetBits :
                 index \div block_size = block => block * block_size + i <= index
<1>1. PICK from : from = IF block = first \div block_size THEN first % block_size ELSE 0
  OBVIOUS
<1>2. PICK to : to = IF block = last \div block_size
                     THEN (last % block_size) + 1 ELSE block_size
  OBVIOUS
<1>3. i = extract_least_significant(blocks[block], from, to)
  BY <1>1, <1>2 DEF PartOf
<1>4. PICK p, q, r, s : /\ p = first \div block_size /\ q = first % block_size
                        /\ r = last \div block_size /\ s = last % block_size
  OBVIOUS
<1>5. /\ p \in Nat /\ q \in 0 .. block_size - 1 /\ first = p * block_size + q
      /\ r \in Nat /\ s \in 0 .. block_size - 1 /\ last = r * block_size + s
      /\ block \in p .. r
  <2>1. first \in Nat /\ last \in Nat
    BY BitMapAssumption
  <2> QED BY <1>4, <2>1, IndexParts
<1>6. /\ block_size \in Nat \ {0} /\ T \in Nat \ {0} /\ block \in Nat
      /\ block * block_size \in Nat
  BY <1>5, BitMapAssumption
<1>7. /\ from \in 0 .. block_size - 1 /\ to \in 1 .. block_size
      /\ block # p => from = 0
      /\ block = p => from = q
      /\ block # r => to = block_size
      /\ block = r => to = s + 1
  BY <1>1, <1>2, <1>4, <1>5, <1>6
<1>8. ASSUME NEW j \in 0 .. block_size - 1
      PROVE  (block * block_size + j \in first .. last) <=> j \in from .. to - 1
  <2>1. first <= block * block_size + j <=> from <= j
    <3>1. CASE block = p
      BY <1>5, <1>6, <1>7, <3>1
    <3>2. CASE block # p
      <4>1. (p + 1) * block_size <= block * block_size
        BY <1>5, <1>6, <3>2, ProductGrows
      <4>2. (p + 1) * block_size = p * block_size + block_size /\ p * block_size \in Nat
        BY <1>5, <1>6
      <4> QED BY <1>5, <1>6, <1>7, <3>2, <4>1, <4>2
    <3> QED BY <3>1, <3>2
  <2>2. block * block_size + j <= last <=> j <= to - 1
    <3>1. CASE block = r
      BY <1>5, <1>6, <1>7, <3>1
    <3>2. CASE block # r
      <4>1. (block + 1) * block_size <= r * block_size
        BY <1>5, <1>6, <3>2, ProductGrows
      <4>2. (block + 1) * block_size = block * block_size + block_size /\ r * block_size \in Nat
        BY <1>5, <1>6
      <4> QED BY <1>5, <1>6, <1>7, <3>2, <4>1, <4>2
    <3> QED BY <3>1, <3>2
  <2>3. /\ block * block_size + j \in Int /\ first \in Int /\ last \in Int
        /\ from \in Int /\ to \in Int
    BY <1>6, <1>7
  <2> QED BY <2>1, <2>2, <2>3
<1>9. ASSUME NEW j \in 0 .. block_size - 1, block * block_size + j \in first .. last
      PROVE  block * block_size + j \in SetBits <=> j \in blocks[block]
  <2>1. PICK index : index = block * block_size + j
    OBVIOUS
  <2>2. index \div block_size = block /\ index % block_size = j /\ index \in Nat
    BY <1>6, <2>1, PartsIndex
  <2>3. index \in 0 .. T - 1
    BY <1>6, <1>9, <2>1, <2>2
  <2> QED BY <2>1, <2>2, <2>3 DEF SetBits
<1>10. ASSUME NEW index \in first .. last, index \div block_size = block
       PROVE  \E j \in from .. to - 1 : /\ j \in 0 .. block_size - 1
                                        /\ index = block * block_size + j
  <2>1. index \in Nat
    BY <1>6
  <2>2. PICK j \in 0 .. block_size - 1 : index = block * block_size + j
    BY <1>10, <2>1, IndexParts
  <2> QED BY <1>8, <1>10, <2>2
<1>11. from \in Nat /\ to \in Nat /\ from .. to - 1 \subseteq 0 .. block_size - 1
  BY <1>6, <1>7
<1>12. CASE i = -1 /\ from .. to - 1 \subseteq blocks[block]
  BY <1>9, <1>10, <1>12
<1>13. CASE /\ i \in from .. to - 1 /\ i \notin blocks[block]
            /\ \A j \in from .. to - 1 : j \notin blocks[block] => i <= j
  <2>1. i \in 0 .. block_size - 1 /\ block * block_size + i \in (first .. last) \ SetBits
    BY <1>8, <1>9, <1>11, <1>13
  <2>2. ASSUME NEW index \in (first .. last) \ SetBits, index \div block_size = block
        PROVE  block * block_size + i <= index
    <3>1. PICK j \in from .. to - 1 : /\ j \in 0 .. block_size - 1
                                      /\ index = block * block_size + j
      BY <1>10, <2>2
    <3>2. i <= j
      BY <1>9, <1>13, <2>2, <3>1
    <3> QED BY <1>6, <2>1, <3>1, <3>2
  <2> QED BY <2>1, <2>2
<1> QED BY <1>3, <1>11, <1>12, <1>13, LowestInWord

(* The search over the words of a range.                                   *)
LEMMA SearchFindsLowest ==
  ASSUME NEW first \in Asked, NEW last \in Asked, get_least_significant_bit(first, last)
  PROVE  Abstract!LowestGap(first, last)
<1>1. PICK candidates, block : /\ candidates = BlocksWithGap(first, last)
                               /\ block = CHOOSE b \in candidates : \A c \in candidates : b <= c
  OBVIOUS
<1>2. /\ call' = <<"get_least_significant_bit", first, last>>
      /\ blocks' = blocks
      /\ result' = IF \/ first > last
                      \/ ~check_boundaries(first)
                      \/ ~check_boundaries(last)
                      \/ candidates = {}
                   THEN -1
                   ELSE block * block_size + PartOf(block, first, last)
  BY <1>1 DEF get_least_significant_bit
<1>3. /\ T \in Nat \ {0} /\ block_size \in Nat \ {0} /\ first \in Int /\ last \in Int
      /\ check_boundaries(first) <=> first \in 0 .. T - 1
      /\ check_boundaries(last) <=> last \in 0 .. T - 1
  BY BitMapAssumption DEF check_boundaries
<1>4. SetBits' = SetBits
  BY <1>2 DEF SetBits
<1>5. CASE first > last \/ ~ {first, last} \subseteq 0 .. T - 1
  <2>1. result' = -1
    BY <1>2, <1>3, <1>5
  <2>2. first > last => first .. last = {}
    BY <1>3
  <2> QED BY <1>2, <1>4, <1>5, <2>1, <2>2 DEF Abstract!LowestGap, Abstract!Indices
<1>6. CASE first <= last /\ {first, last} \subseteq 0 .. T - 1
  <2>1. first \in 0 .. T - 1 /\ last \in 0 .. T - 1 /\ first \in Nat /\ last \in Nat
    BY <1>3, <1>6
  <2>2. PICK p, r : p = first \div block_size /\ r = last \div block_size
    OBVIOUS
  <2>3. p \in Nat /\ r \in Nat
    BY <1>3, <2>1, <2>2, DivisionGrows, <1>6
  <2>4. \A b : b \in candidates <=> b \in p .. r /\ PartOf(b, first, last) # -1
    BY <1>1, <2>2 DEF BlocksWithGap
  <2>5. ASSUME NEW index \in (first .. last) \ SetBits
        PROVE  index \div block_size \in candidates
    <3>1. index \in Nat /\ first <= index /\ index <= last
      BY <1>3, <2>1
    <3>2. index \div block_size \in p .. r
      <4>1. /\ p <= index \div block_size
            /\ index \div block_size \in Nat
        BY <1>3, <2>1, <2>2, <3>1, DivisionGrows
      <4>2. index \div block_size <= r
        BY <1>3, <2>1, <2>2, <3>1, DivisionGrows
      <4> QED BY <2>3, <4>1, <4>2
    <3>3. PartOf(index \div block_size, first, last) # -1
      BY <1>6, <2>1, <2>2, <3>2, LowestInPart
    <3> QED BY <2>4, <3>2, <3>3
  <2>6. CASE candidates = {}
    <3>1. first .. last \subseteq SetBits
      BY <2>5, <2>6
    <3>2. result' = -1
      BY <1>2, <2>6
    <3> QED BY <1>2, <1>4, <3>1, <3>2 DEF Abstract!LowestGap
  <2>7. CASE candidates # {}
    <3>1. candidates \subseteq Nat
      BY <2>3, <2>4
    <3>2. \E b \in candidates : \A c \in candidates : b <= c
      BY <2>7, <3>1, LeastNatural
    <3>3. block \in candidates /\ \A c \in candidates : block <= c
      BY <1>1, <3>2
    <3>4. PICK i : i = PartOf(block, first, last)
      OBVIOUS
    <3>5. /\ i \in 0 .. block_size - 1
          /\ block * block_size + i \in (first .. last) \ SetBits
          /\ \A index \in (first .. last) \ SetBits :
               index \div block_size = block => block * block_size + i <= index
      <4>1. block \in first \div block_size .. last \div block_size /\ i # -1
        BY <2>2, <2>4, <3>3, <3>4
      <4> QED BY <1>6, <2>1, <3>4, <4>1, LowestInPart
    <3>6. result' = block * block_size + i
      BY <1>2, <1>3, <1>6, <2>1, <2>7, <3>4
    <3>7. ASSUME NEW index \in (first .. last) \ SetBits
          PROVE  result' <= index
      <4>1. PICK c : c = index \div block_size
        OBVIOUS
      <4>2. index \in Nat
        BY <2>1
      <4>3. block \in Nat /\ c \in candidates /\ block <= c /\ c \in Nat
        BY <2>5, <3>1, <3>3, <4>1
      <4>4. CASE c = block
        BY <3>5, <3>6, <4>1, <4>4
      <4>5. CASE block + 1 <= c
        <5>1. (block + 1) * block_size <= c * block_size
          BY <1>3, <4>3, <4>5, ProductGrows
        <5>2. (block + 1) * block_size = block * block_size + block_size
              /\ block * block_size \in Nat /\ c * block_size \in Nat
          BY <1>3, <4>3
        <5>3. c * block_size <= index
          BY <1>3, <4>1, <4>2, DivisionBounds
        <5> QED BY <1>3, <3>5, <3>6, <4>2, <5>1, <5>2, <5>3
      <4> QED BY <4>3, <4>4, <4>5
    <3> QED BY <1>2, <1>4, <1>6, <3>5, <3>6, <3>7 DEF Abstract!LowestGap, Abstract!Indices
  <2> QED BY <2>6, <2>7
<1> QED BY <1>3, <1>5, <1>6

-----------------------------------------------------------------------------

(* What the calls on one index do to its word.                             *)
LEMMA WordKept ==
  ASSUME Words, blocks' = blocks
  PROVE  Words' /\ SetBits' = SetBits
  BY DEF Words, SpareBitsClear, Word, size, SetBits

LEMMA BitTaken ==
  ASSUME Words, NEW index \in 0 .. T - 1, NEW q, q = index \div block_size,
         blocks' = [blocks EXCEPT ![q] = @ \cup {index % block_size}]
  PROVE  Words' /\ SetBits' = SetBits \cup {index}
<1>1. PICK r, word : r = index % block_size /\ word = blocks[q] \cup {r}
  OBVIOUS
<1>2. q \in 0 .. size - 1 /\ r \in 0 .. block_size - 1
  BY <1>1, IndexParts, WordOfIndex
<1>3. word \in Word /\ r \in word
  BY <1>1, <1>2 DEF Words, Word
<1>4. blocks' = [blocks EXCEPT ![q] = word]
  BY <1>1, <1>2 DEF Words
<1> QED BY <1>1, <1>3, <1>4, OneWordChanges

LEMMA BitToggled ==
  ASSUME Words, NEW index \in 0 .. T - 1, blocks' = Toggled(index)
  PROVE  /\ Words'
         /\ SetBits' = IF index \in SetBits THEN SetBits \ {index} ELSE SetBits \cup {index}
         /\ index % block_size \in blocks'[index \div block_size] <=> index \notin SetBits
<1>1. PICK q, r, word : /\ q = index \div block_size /\ r = index % block_size
                        /\ word = (blocks[q] \cup {r}) \ (blocks[q] \cap {r})
  OBVIOUS
<1>2. q \in 0 .. size - 1 /\ r \in 0 .. block_size - 1
  BY <1>1, IndexParts, WordOfIndex
<1>3. word \in Word /\ (r \in word <=> r \notin blocks[q])
  BY <1>1, <1>2 DEF Words, Word
<1>4. blocks' = [blocks EXCEPT ![q] = word] /\ blocks'[q] = word
  BY <1>1, <1>2 DEF Words, Toggled
<1>5. index \in SetBits <=> r \in blocks[q]
  BY <1>1 DEF SetBits
<1>6. /\ Words'
      /\ SetBits' = IF r \in word THEN SetBits \cup {index} ELSE SetBits \ {index}
  BY <1>1, <1>3, <1>4, OneWordChanges
<1> QED BY <1>1, <1>3, <1>4, <1>5, <1>6

(* Every call keeps the words in order and is the call of the set.         *)
LEMMA CallRefines ==
  ASSUME Words, TypeOK, Next
  PROVE  Words' /\ TypeOK' /\ Abstract!Next
<1>1. /\ T \in Nat \ {0}
      /\ \A index \in Asked : check_boundaries(index) <=> index \in 0 .. T - 1
  BY BitMapAssumption DEF check_boundaries
<1>2. ASSUME NEW name, NEW index, call' = <<name, index>>
      PROVE  Len(call') \in 0 .. 3
  BY <1>2
<1>3. CASE \E index \in Asked :
             \E name \in {"set_bit", "unset_bit", "is_set", "flip"} : OutOfBounds(name, index)
  <2>1. PICK index \in Asked, name \in {"set_bit", "unset_bit", "is_set", "flip"} :
          OutOfBounds(name, index)
    BY <1>3
  <2>2. /\ call' = <<name, index>> /\ result' = -1 /\ blocks' = blocks
        /\ index \notin 0 .. T - 1
    BY <1>1, <2>1 DEF OutOfBounds
  <2>3. Words' /\ SetBits' = SetBits
    BY <2>2, WordKept
  <2>4. TypeOK'
    BY <1>1, <1>2, <2>2, <2>3 DEF TypeOK, Words, size
  <2>5. Abstract!Refuse(name, index)
    BY <2>2, <2>3 DEF Abstract!Refuse, Abstract!Indices
  <2> QED BY <2>3, <2>4, <2>5 DEF Abstract!Next
<1>4. CASE \E index \in Asked : set_bit(index)
  <2>1. PICK index \in Asked : set_bit(index)
    BY <1>4
  <2>2. /\ call' = <<"set_bit", index>> /\ result' = 0 /\ index \in 0 .. T - 1
        /\ blocks' = [blocks EXCEPT ![index \div block_size] = @ \cup {index % block_size}]
    BY <1>1, <2>1 DEF set_bit
  <2>3. Words' /\ SetBits' = SetBits \cup {index}
    BY <2>2, BitTaken
  <2>4. TypeOK'
    BY <1>1, <1>2, <2>2, <2>3 DEF TypeOK, Words, size
  <2>5. Abstract!Set(index)
    BY <2>2, <2>3 DEF Abstract!Set, Abstract!Indices
  <2> QED BY <2>3, <2>4, <2>5 DEF Abstract!Next
<1>5. CASE \E index \in Asked : unset_bit(index)
  <2>1. PICK index \in Asked : unset_bit(index)
    BY <1>5
  <2>2. /\ call' = <<"unset_bit", index>> /\ result' = 0 /\ index \in 0 .. T - 1
        /\ blocks' = IF index % block_size \in blocks[index \div block_size]
                     THEN Toggled(index)
                     ELSE blocks
    BY <1>1, <2>1 DEF unset_bit
  <2>3. index % block_size \in blocks[index \div block_size] <=> index \in SetBits
    BY <2>2 DEF SetBits
  <2>4. Words' /\ SetBits' = SetBits \ {index}
    BY <2>2, <2>3, BitToggled, WordKept
  <2>5. TypeOK'
    BY <1>1, <1>2, <2>2, <2>4 DEF TypeOK, Words, size
  <2>6. Abstract!Clear(index)
    BY <2>2, <2>4 DEF Abstract!Clear, Abstract!Indices
  <2> QED BY <2>4, <2>5, <2>6 DEF Abstract!Next
<1>6. CASE \E index \in Asked : is_set(index)
  <2>1. PICK index \in Asked : is_set(index)
    BY <1>6
  <2>2. /\ call' = <<"is_set", index>> /\ index \in 0 .. T - 1 /\ blocks' = blocks
        /\ result' = IF index % block_size \in blocks[index \div block_size] THEN 1 ELSE 0
    BY <1>1, <2>1 DEF is_set
  <2>3. index % block_size \in blocks[index \div block_size] <=> index \in SetBits
    BY <2>2 DEF SetBits
  <2>4. Words' /\ SetBits' = SetBits
    BY <2>2, WordKept
  <2>5. TypeOK'
    BY <1>1, <1>2, <2>2, <2>4 DEF TypeOK, Words, size
  <2>6. Abstract!Test(index)
    BY <2>2, <2>3, <2>4 DEF Abstract!Test, Abstract!Indices
  <2> QED BY <2>4, <2>5, <2>6 DEF Abstract!Next
<1>7. CASE \E index \in Asked : flip(index)
  <2>1. PICK index \in Asked : flip(index)
    BY <1>7
  <2>2. /\ call' = <<"flip", index>> /\ index \in 0 .. T - 1 /\ blocks' = Toggled(index)
        /\ result' = IF index % block_size \in blocks'[index \div block_size] THEN 1 ELSE 0
    BY <1>1, <2>1 DEF flip
  <2>3. /\ Words'
        /\ SetBits' = IF index \in SetBits THEN SetBits \ {index} ELSE SetBits \cup {index}
        /\ index % block_size \in blocks'[index \div block_size] <=> index \notin SetBits
    BY <2>2, BitToggled
  <2>4. TypeOK'
    BY <1>1, <1>2, <2>2, <2>3 DEF TypeOK, Words, size
  <2>5. Abstract!Flip(index)
    BY <2>2, <2>3 DEF Abstract!Flip, Abstract!Indices
  <2> QED BY <2>3, <2>4, <2>5 DEF Abstract!Next
<1>8. CASE \E first, last \in Asked : get_least_significant_bit(first, last)
  <2>1. PICK first \in Asked, last \in Asked : get_least_significant_bit(first, last)
    BY <1>8
  <2>2. Abstract!LowestGap(first, last)
    BY <2>1, SearchFindsLowest
  <2>3. /\ call' = <<"get_least_significant_bit", first, last>>
        /\ blocks' = blocks
    BY <2>1 DEF get_least_significant_bit
  <2>4. Words'
    BY <2>3, WordKept
  <2>5. result' \in -1 .. T - 1 \cup {1}
    <3>1. CASE result' = -1
      BY <1>1, <3>1
    <3>2. CASE {first, last} \subseteq 0 .. T - 1 /\ result' \in (first .. last) \ SetBits
      BY <1>1, <3>2
    <3> QED BY <2>2, <3>1, <3>2 DEF Abstract!LowestGap, Abstract!Indices
  <2>6. TypeOK'
    BY <2>3, <2>4, <2>5 DEF TypeOK, Words, size
  <2> QED BY <2>2, <2>4, <2>6 DEF Abstract!Next
<1> QED BY <1>3, <1>4, <1>5, <1>6, <1>7, <1>8 DEF Next

LEMMA EmptyMap ==
  ASSUME Init
  PROVE  Words /\ TypeOK /\ Abstract!Init
<1>1. blocks = [block \in 0 .. size - 1 |-> {}] /\ call = <<>> /\ result = 0
  BY DEF Init
<1>2. Words
  BY <1>1 DEF Words, SpareBitsClear, Word
<1>3. \A index \in 0 .. T - 1 : blocks[index \div block_size] = {}
  BY <1>1, WordOfIndex
<1>4. SetBits = {}
  BY <1>3 DEF SetBits
<1>5. TypeOK
  BY <1>1, <1>2, BitMapAssumption DEF TypeOK, Words
<1> QED BY <1>1, <1>2, <1>4, <1>5 DEF Abstract!Init

LEMMA CallsInOrder ==
  /\ Init => Words /\ TypeOK /\ Abstract!Init
  /\ Words /\ TypeOK /\ [Next]_vars
       => /\ Words' /\ TypeOK'
          /\ [Abstract!Next]_<<SetBits, call, result>>
<1>1. Init => Words /\ TypeOK /\ Abstract!Init
  BY EmptyMap
<1>2. ASSUME Words, TypeOK, UNCHANGED vars
      PROVE  Words' /\ TypeOK' /\ UNCHANGED <<SetBits, call, result>>
  <2>1. Words' /\ SetBits' = SetBits
    BY <1>2, WordKept DEF vars
  <2> QED BY <1>2, <2>1 DEF TypeOK, Words, vars, size
<1> QED BY <1>1, <1>2, CallRefines

(* For every map: no call sets a bit beyond it, so the last word that is   *)
(* written to disk carries none.                                           *)
THEOREM SpareBitsStayClear == Spec => []SpareBitsClear
<1>1. Words => SpareBitsClear
  BY DEF Words
<1> QED BY <1>1, CallsInOrder, PTL DEF Spec

(* The state of a map stays well formed.                                   *)
THEOREM BitMapTypes == Spec => []TypeOK
  BY CallsInOrder, PTL DEF Spec

(* BitMap<T> answers every call, good or bad, as the set of its indices    *)
(* does, for every number of bits, also when the last word has spare ones. *)
THEOREM BitMapImplementsBitSet == Spec => ImplementsBitSet
  BY CallsInOrder, PTL DEF Spec, ImplementsBitSet, Abstract!Spec
===============================================================================
