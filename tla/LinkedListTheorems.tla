--------------------------- MODULE LinkedListTheorems ---------------------------
(***************************************************************************)
(* LinkedList<T>, for any number of lists and nodes: what next and prev    *)
(* keep to, and why a walk along next comes by the nodes of one list, all  *)
(* of them, and ends.                                                      *)
(***************************************************************************)
EXTENDS LinkedList, FiniteSetTheorems, TLAPS

(* A set of naturals that is not empty has a least element: the shortest   *)
(* of the intervals 0 .. m - 1 that end before one of its elements.        *)
LEMMA LeastNatural ==
  ASSUME NEW S, S \subseteq Nat, S # {}
  PROVE  \E n \in S : \A m \in S : n <= m
<1>1. PICK top \in S : TRUE
  OBVIOUS
<1> DEFINE U == 0 .. top
           T == { x \in SUBSET U : \E m \in S : m <= top /\ x = 0 .. m - 1 }
<1>2. IsWellFoundedOn(StrictSubsetOrdering(U), SUBSET U)
  <2>1. IsFiniteSet(U) BY <1>1, FS_Interval
  <2>2. FiniteSubsetsOf(U) = SUBSET U
    <3> HIDE DEF U
    <3> QED BY <2>1, FS_FiniteSubsetsOfFinite
  <2>3. IsWellFoundedOn(StrictSubsetOrdering(U), FiniteSubsetsOf(U))
    BY FS_StrictSubsetOrderingWellFounded
  <2> QED BY <2>2, <2>3
<1>3. T # {}
  <2>1. 0 .. top - 1 \in SUBSET U BY <1>1
  <2>2. 0 .. top - 1 \in T BY <1>1, <2>1
  <2> QED BY <2>2
<1>4. T \subseteq SUBSET U
  OBVIOUS
<1>5. PICK x \in T : \A y \in T : ~ (<<y, x>> \in StrictSubsetOrdering(U))
  <2> HIDE DEF T, U
  <2> QED BY <1>2, <1>3, <1>4, WFMin
<1>6. PICK n \in S : n <= top /\ x = 0 .. n - 1
  BY <1>5
<1>7. ASSUME NEW m \in S, m < n PROVE FALSE
  <2>1. 0 .. m - 1 \in T
    <3>1. m <= top /\ m \in Nat BY <1>1, <1>6, <1>7
    <3>2. 0 .. m - 1 \in SUBSET U BY <1>1, <3>1
    <3> QED BY <3>1, <3>2
  <2>2. 0 .. m - 1 \subseteq x /\ 0 .. m - 1 # x
    <3>1. m \in x /\ m \notin 0 .. m - 1 BY <1>6, <1>7
    <3> QED BY <1>6, <1>7, <3>1
  <2>3. <<0 .. m - 1, x>> \in StrictSubsetOrdering(U)
    BY <2>1, <2>2, <1>4, <1>5 DEF StrictSubsetOrdering
  <2> QED BY <1>5, <2>1, <2>3
<1> QED BY <1>6, <1>7

(* Links k in good order, when the addresses gone have been freed and the  *)
(* lists over destroyed: owner tells the list a node is in and rank grows  *)
(* along next.  Neither is in the code, which has no need to know them.    *)
Paired(k, gone) ==
  \A a, b \in Addresses \ gone : k.next[a] = b <=> k.prev[b] = a

Closed(k, gone) ==
  \A a \in Addresses \ gone : /\ k.next[a] \in (Addresses \ gone) \cup {null}
                              /\ k.prev[a] \in (Addresses \ gone) \cup {null}

Grows(k, gone, owner, rank) ==
  \A a \in Addresses \ gone :
    k.next[a] # null => owner[k.next[a]] = owner[a] /\ rank[a] < rank[k.next[a]]

Terminated(k, over, owner) ==
  \A list \in Lists \ over :
    /\ k.prev[head(list)] = null /\ k.next[head(list)] # null
    /\ k.next[tail(list)] = null /\ k.prev[tail(list)] # null
    /\ owner[head(list)] = list /\ owner[tail(list)] = list

InOrder(k, gone, over, owner, rank) ==
  /\ k \in Links
  /\ gone \subseteq Addresses /\ over \subseteq Lists
  /\ gone \cap Sentinels = UNION { {head(list), tail(list)} : list \in over }
  /\ owner \in [Addresses -> Lists \cup {null}]
  /\ rank \in [Addresses -> Nat]
  /\ Paired(k, gone)
  /\ Closed(k, gone)
  /\ Grows(k, gone, owner, rank)
  /\ Terminated(k, over, owner)
  /\ \A n \in Nodes \ gone : k.next[n] = null <=> k.prev[n] = null

-----------------------------------------------------------------------------

(* Sentinels are no nodes, and each belongs to one list.                   *)
LEMMA SentinelsApart ==
  /\ null \notin Addresses
  /\ Nodes \cap Sentinels = {}
  /\ \A list \in Lists : /\ head(list) \in Sentinels /\ tail(list) \in Sentinels
                         /\ head(list) # tail(list)
  /\ \A a \in Sentinels : \E list \in Lists : a \in {head(list), tail(list)}
  /\ \A list, other \in Lists :
       {head(list), tail(list)} \cap {head(other), tail(other)} # {} => list = other
<1>1. /\ \A n \in Nodes : n \in Nat \ {0}
      /\ \A list \in Lists : list \in Nat \ {0}
  BY ListsAssumption
<1>2. \A list \in Lists : /\ head(list) \in Int /\ head(list) < 0
                          /\ tail(list) \in Int /\ tail(list) < 0
                          /\ head(list) # tail(list)
  BY <1>1 DEF head, tail
<1>3. \A list, other \in Lists :
        /\ head(list) = head(other) => list = other
        /\ tail(list) = tail(other) => list = other
        /\ head(list) # tail(other)
  BY <1>1 DEF head, tail
<1>4. \A a \in Sentinels : \E list \in Lists : a \in {head(list), tail(list)}
  BY DEF Sentinels
<1>5. \A list \in Lists : head(list) \in Sentinels /\ tail(list) \in Sentinels
  BY DEF Sentinels
<1>6. null \notin Addresses
  BY <1>1, <1>2, <1>4 DEF Addresses, null
<1>7. Nodes \cap Sentinels = {}
  BY <1>1, <1>2, <1>4
<1> QED BY <1>2, <1>3, <1>4, <1>5, <1>6, <1>7

LEMMA AddressesFinite == IsFiniteSet(Addresses)
<1>1. IsFiniteSet({ head(list) : list \in Lists })
  <2>1. PICK f : f = [list \in Lists |-> head(list)]
    OBVIOUS
  <2>2. f \in Surjection(Lists, { head(list) : list \in Lists })
    BY <2>1 DEF Surjection
  <2> QED BY <2>2, ListsAssumption, FS_Surjection
<1>2. IsFiniteSet({ tail(list) : list \in Lists })
  <2>1. PICK f : f = [list \in Lists |-> tail(list)]
    OBVIOUS
  <2>2. f \in Surjection(Lists, { tail(list) : list \in Lists })
    BY <2>1 DEF Surjection
  <2> QED BY <2>2, ListsAssumption, FS_Surjection
<1>3. IsFiniteSet(Sentinels)
  BY <1>1, <1>2, FS_Union DEF Sentinels
<1> QED BY <1>3, ListsAssumption, FS_Union DEF Addresses

-----------------------------------------------------------------------------

(* unlink leaves the node by itself and its neighbours to each other, and  *)
(* everything else in good order.                                          *)
LEMMA UnlinkLinks ==
  ASSUME NEW k, NEW gone, NEW over, NEW owner, NEW rank, InOrder(k, gone, over, owner, rank),
         NEW list \in Lists, NEW n \in Nodes \ gone, NEW u, u = unlink(k, list, n)
  PROVE  /\ u \in Links
         /\ \A a \in Addresses :
              /\ u.next[a] = IF a = n THEN null ELSE IF a = k.prev[n] THEN k.next[n] ELSE k.next[a]
              /\ u.prev[a] = IF a = n THEN null ELSE IF a = k.next[n] THEN k.prev[n] ELSE k.prev[a]
<1>1. PICK p, q : p = k.prev[n] /\ q = k.next[n]
  OBVIOUS
<1>2. n \in Addresses /\ n \notin {head(list), tail(list)}
  BY SentinelsApart DEF Addresses
<1>3. p \in Addresses \cup {null} /\ q \in Addresses \cup {null} /\ null \notin Addresses
      /\ k \in Links
  BY <1>1, <1>2, SentinelsApart DEF InOrder, Links
<1>4. u = [next |-> [Stored(k.next, p, q) EXCEPT ![n] = null],
           prev |-> [Stored(k.prev, q, p) EXCEPT ![n] = null]]
  BY <1>1, <1>2 DEF unlink
<1>5. /\ k.next \in [Addresses -> Addresses \cup {null}]
      /\ k.prev \in [Addresses -> Addresses \cup {null}]
      /\ u.next = [Stored(k.next, p, q) EXCEPT ![n] = null]
      /\ u.prev = [Stored(k.prev, q, p) EXCEPT ![n] = null]
  BY <1>3, <1>4 DEF Links
<1>6. /\ u.next \in [Addresses -> Addresses \cup {null}]
      /\ \A a \in Addresses :
           u.next[a] = IF a = n THEN null ELSE IF a = p THEN q ELSE k.next[a]
  <2>1. PICK f, g : f = k.next /\ g = u.next
    OBVIOUS
  <2>2. f \in [Addresses -> Addresses \cup {null}] /\ g = [Stored(f, p, q) EXCEPT ![n] = null]
    BY <1>5, <2>1
  <2>3. /\ g \in [Addresses -> Addresses \cup {null}]
        /\ \A a \in Addresses : g[a] = IF a = n THEN null ELSE IF a = p THEN q ELSE f[a]
    BY <1>2, <1>3, <2>2 DEF Stored
  <2> QED BY <2>1, <2>3
<1>7. /\ u.prev \in [Addresses -> Addresses \cup {null}]
      /\ \A a \in Addresses :
           u.prev[a] = IF a = n THEN null ELSE IF a = q THEN p ELSE k.prev[a]
  <2>1. PICK f, g : f = k.prev /\ g = u.prev
    OBVIOUS
  <2>2. f \in [Addresses -> Addresses \cup {null}] /\ g = [Stored(f, q, p) EXCEPT ![n] = null]
    BY <1>5, <2>1
  <2>3. /\ g \in [Addresses -> Addresses \cup {null}]
        /\ \A a \in Addresses : g[a] = IF a = n THEN null ELSE IF a = q THEN p ELSE f[a]
    BY <1>2, <1>3, <2>2 DEF Stored
  <2> QED BY <2>1, <2>3
<1> QED BY <1>1, <1>4, <1>6, <1>7 DEF Links

LEMMA UnlinkInOrder ==
  ASSUME NEW k, NEW gone, NEW over, NEW owner, NEW rank, InOrder(k, gone, over, owner, rank),
         NEW list \in Lists, NEW n \in Nodes \ gone, NEW u, u = unlink(k, list, n)
  PROVE  /\ InOrder(u, gone, over, owner, rank)
         /\ u.next[n] = null /\ u.prev[n] = null
         /\ \A a \in Addresses \ (gone \cup {n}) : u.prev[a] = null <=> k.prev[a] = null
<1>1. PICK p, q : p = k.prev[n] /\ q = k.next[n]
  OBVIOUS
<1>2. /\ u \in Links
      /\ \A a \in Addresses :
           /\ u.next[a] = IF a = n THEN null ELSE IF a = p THEN q ELSE k.next[a]
           /\ u.prev[a] = IF a = n THEN null ELSE IF a = q THEN p ELSE k.prev[a]
  BY <1>1, UnlinkLinks
<1>3. /\ n \in Addresses \ gone /\ null \notin Addresses /\ n \notin Sentinels
  BY SentinelsApart DEF Addresses
<1>4. /\ p \in (Addresses \ gone) \cup {null} /\ q \in (Addresses \ gone) \cup {null}
      /\ p = null <=> q = null
  BY <1>1, <1>3 DEF InOrder, Closed
<1>5. /\ p # null => k.next[p] = n /\ owner[p] = owner[n] /\ rank[p] < rank[n]
      /\ q # null => k.prev[q] = n /\ owner[q] = owner[n] /\ rank[n] < rank[q]
  BY <1>1, <1>3, <1>4 DEF InOrder, Paired, Grows
<1>6. rank \in [Addresses -> Nat] /\ p # n /\ q # n
  BY <1>3, <1>4, <1>5 DEF InOrder
<1>7. Closed(u, gone)
  BY <1>2, <1>4 DEF InOrder, Closed
<1>8. Paired(u, gone)
  <2> SUFFICES ASSUME NEW a \in Addresses \ gone, NEW b \in Addresses \ gone
               PROVE  u.next[a] = b <=> u.prev[b] = a
    BY DEF Paired
  <2>1. k.next[a] = b <=> k.prev[b] = a
    BY DEF InOrder, Paired
  <2>2. k.next[a] = n <=> k.prev[n] = a
    BY <1>3 DEF InOrder, Paired
  <2>3. k.next[n] = b <=> k.prev[b] = n
    BY <1>3 DEF InOrder, Paired
  <2> QED BY <1>1, <1>2, <1>3, <1>4, <1>5, <1>6, <2>1, <2>2, <2>3
<1>9. Grows(u, gone, owner, rank)
  <2> SUFFICES ASSUME NEW a \in Addresses \ gone, u.next[a] # null
               PROVE  owner[u.next[a]] = owner[a] /\ rank[a] < rank[u.next[a]]
    BY DEF Grows
  <2>1. CASE a = p
    BY <1>2, <1>3, <1>4, <1>5, <1>6, <2>1
  <2>2. CASE a # p
    BY <1>2, <2>2 DEF InOrder, Grows
  <2> QED BY <2>1, <2>2
<1>10. Terminated(u, over, owner)
  <2> SUFFICES ASSUME NEW other \in Lists \ over
               PROVE  /\ u.prev[head(other)] = null /\ u.next[head(other)] # null
                      /\ u.next[tail(other)] = null /\ u.prev[tail(other)] # null
                      /\ owner[head(other)] = other /\ owner[tail(other)] = other
    BY DEF Terminated
  <2>1. /\ k.prev[head(other)] = null /\ k.next[head(other)] # null
        /\ k.next[tail(other)] = null /\ k.prev[tail(other)] # null
        /\ owner[head(other)] = other /\ owner[tail(other)] = other
    BY DEF InOrder, Terminated
  <2>2. /\ head(other) \in Addresses /\ tail(other) \in Addresses
        /\ head(other) # n /\ tail(other) # n
    BY <1>3, SentinelsApart DEF Addresses
  <2> QED BY <1>2, <1>3, <1>4, <1>5, <2>1, <2>2
<1>11. \A m \in Nodes \ gone : u.next[m] = null <=> u.prev[m] = null
  <2> SUFFICES ASSUME NEW m \in Nodes \ gone
               PROVE  u.next[m] = null <=> u.prev[m] = null
    OBVIOUS
  <2>1. m \in Addresses /\ (k.next[m] = null <=> k.prev[m] = null)
    BY DEF InOrder, Addresses
  <2> QED BY <1>2, <1>3, <1>4, <1>5, <2>1
<1>12. \A a \in Addresses \ (gone \cup {n}) : u.prev[a] = null <=> k.prev[a] = null
  BY <1>2, <1>3, <1>4, <1>5
<1>13. InOrder(u, gone, over, owner, rank)
  BY <1>2, <1>7, <1>8, <1>9, <1>10, <1>11 DEF InOrder
<1> QED BY <1>2, <1>3, <1>12, <1>13

-----------------------------------------------------------------------------

(* The owners and ranks when node n has been put between a and the node    *)
(* after it: every rank doubles, to make room.                             *)
OwnerWith(owner, n, a) == [owner EXCEPT ![n] = owner[a]]
RankWith(rank, n, a) ==
  [x \in Addresses |-> IF x = n THEN 2 * rank[a] + 1 ELSE 2 * rank[x]]

(* insert_helper puts a node that is by itself between two neighbours.     *)
LEMMA InsertInOrder ==
  ASSUME NEW k, NEW gone, NEW over, NEW owner, NEW rank, InOrder(k, gone, over, owner, rank),
         NEW n \in Nodes \ gone, k.next[n] = null, k.prev[n] = null,
         NEW a \in Addresses \ gone, NEW b, b = k.next[a], b # null,
         NEW u, u = insert_helper(k, a, n, b)
  PROVE  /\ InOrder(u, gone, over, OwnerWith(owner, n, a), RankWith(rank, n, a))
         /\ u.prev[n] = a
         /\ \A x \in Addresses \ (gone \cup {n}) : u.prev[x] = null <=> k.prev[x] = null
<1>1. /\ n \in Addresses \ gone /\ null \notin Addresses /\ n \notin Sentinels
  BY SentinelsApart DEF Addresses
<1>2. /\ b \in Addresses \ gone /\ k.prev[b] = a
      /\ k.next \in [Addresses -> Addresses \cup {null}]
      /\ k.prev \in [Addresses -> Addresses \cup {null}]
  BY DEF InOrder, Closed, Paired, Links
<1>3. a # n /\ b # n
  BY <1>1, <1>2
<1>4. u = [next |-> [k.next EXCEPT ![a] = n, ![n] = b],
           prev |-> [k.prev EXCEPT ![n] = a, ![b] = n]]
  BY <1>1, <1>2 DEF insert_helper
<1>5. /\ u \in Links
      /\ \A x \in Addresses :
           /\ u.next[x] = IF x = n THEN b ELSE IF x = a THEN n ELSE k.next[x]
           /\ u.prev[x] = IF x = b THEN n ELSE IF x = n THEN a ELSE k.prev[x]
  BY <1>1, <1>2, <1>3, <1>4 DEF Links
<1>6. PICK o, r : o = OwnerWith(owner, n, a) /\ r = RankWith(rank, n, a)
  OBVIOUS
<1>7. /\ o \in [Addresses -> Lists \cup {null}]
      /\ \A x \in Addresses : o[x] = IF x = n THEN owner[a] ELSE owner[x]
  BY <1>1, <1>6 DEF InOrder, OwnerWith
<1>8. /\ r \in [Addresses -> Nat]
      /\ \A x \in Addresses : r[x] = IF x = n THEN 2 * rank[a] + 1 ELSE 2 * rank[x]
      /\ \A x \in Addresses : rank[x] \in Nat
  BY <1>1, <1>6 DEF InOrder, RankWith
<1>9. Closed(u, gone)
  BY <1>1, <1>2, <1>5 DEF InOrder, Closed
<1>10. Paired(u, gone)
  <2> SUFFICES ASSUME NEW x \in Addresses \ gone, NEW y \in Addresses \ gone
               PROVE  u.next[x] = y <=> u.prev[y] = x
    BY DEF Paired
  <2>1. k.next[x] = y <=> k.prev[y] = x
    BY DEF InOrder, Paired
  <2> QED BY <1>1, <1>2, <1>3, <1>5, <2>1
<1>11. Grows(u, gone, o, r)
  <2> SUFFICES ASSUME NEW x \in Addresses \ gone, u.next[x] # null
               PROVE  o[u.next[x]] = o[x] /\ r[x] < r[u.next[x]]
    BY DEF Grows
  <2>1. owner[b] = owner[a] /\ rank[a] < rank[b]
    BY DEF InOrder, Grows
  <2>2. CASE x = n
    BY <1>2, <1>3, <1>5, <1>7, <1>8, <2>1, <2>2
  <2>3. CASE x = a
    <3>1. u.next[x] = n /\ x # n
      BY <1>3, <1>5, <2>3
    <3> QED BY <1>1, <1>7, <1>8, <2>3, <3>1
  <2>4. CASE x # n /\ x # a
    <3>1. PICK y : y = k.next[x]
      OBVIOUS
    <3>2. u.next[x] = y /\ y \in Addresses \ gone
      BY <1>5, <2>4, <3>1 DEF InOrder, Closed
    <3>3. owner[y] = owner[x] /\ rank[x] < rank[y]
      BY <1>1, <3>1, <3>2 DEF InOrder, Grows
    <3>4. y # n
      BY <1>1, <1>2, <3>1, <3>2 DEF InOrder, Paired
    <3> QED BY <1>7, <1>8, <2>4, <3>2, <3>3, <3>4
  <2> QED BY <2>2, <2>3, <2>4
<1>12. Terminated(u, over, o)
  <2> SUFFICES ASSUME NEW other \in Lists \ over
               PROVE  /\ u.prev[head(other)] = null /\ u.next[head(other)] # null
                      /\ u.next[tail(other)] = null /\ u.prev[tail(other)] # null
                      /\ o[head(other)] = other /\ o[tail(other)] = other
    BY DEF Terminated
  <2>1. /\ k.prev[head(other)] = null /\ k.next[head(other)] # null
        /\ k.next[tail(other)] = null /\ k.prev[tail(other)] # null
        /\ owner[head(other)] = other /\ owner[tail(other)] = other
    BY DEF InOrder, Terminated
  <2>2. /\ head(other) \in Addresses /\ tail(other) \in Addresses
        /\ head(other) # n /\ tail(other) # n
    BY <1>1, SentinelsApart DEF Addresses
  <2>3. head(other) # b /\ tail(other) # a
    BY <1>1, <1>2, <2>1
  <2> QED BY <1>1, <1>2, <1>5, <1>7, <2>1, <2>2, <2>3
<1>13. \A m \in Nodes \ gone : u.next[m] = null <=> u.prev[m] = null
  <2> SUFFICES ASSUME NEW m \in Nodes \ gone
               PROVE  u.next[m] = null <=> u.prev[m] = null
    OBVIOUS
  <2>1. m \in Addresses /\ (k.next[m] = null <=> k.prev[m] = null)
    BY DEF InOrder, Addresses
  <2> QED BY <1>1, <1>2, <1>3, <1>5, <2>1
<1>14. InOrder(u, gone, over, o, r)
  BY <1>5, <1>7, <1>8, <1>9, <1>10, <1>11, <1>12, <1>13 DEF InOrder
<1>15. \A x \in Addresses \ (gone \cup {n}) : u.prev[x] = null <=> k.prev[x] = null
  BY <1>1, <1>2, <1>3, <1>5
<1>16. u.prev[n] = a
  BY <1>1, <1>3, <1>5
<1> QED BY <1>6, <1>14, <1>15, <1>16

-----------------------------------------------------------------------------

(* The sentinels of a list that stands have not been freed.                *)
LEMMA SentinelsStand ==
  ASSUME NEW k, NEW gone, NEW over, NEW owner, NEW rank, InOrder(k, gone, over, owner, rank),
         NEW list \in Lists \ over
  PROVE  head(list) \in Addresses \ gone /\ tail(list) \in Addresses \ gone
<1>1. head(list) \in Sentinels /\ tail(list) \in Sentinels
  BY SentinelsApart
<1>2. ASSUME NEW x \in {head(list), tail(list)}, x \in gone PROVE FALSE
  <2>1. x \in gone \cap Sentinels
    BY <1>1, <1>2
  <2>2. PICK other \in over : x \in {head(other), tail(other)}
    BY <2>1 DEF InOrder
  <2>3. other = list
    BY <2>2, SentinelsApart DEF InOrder
  <2> QED BY <2>2, <2>3
<1> QED BY <1>1, <1>2 DEF Addresses

(* u is k with node n put into a list, whichever it was in before.         *)
Put(k, u, gone, over, owner, list, n) ==
  \E o, r : /\ InOrder(u, gone, over, o, r)
            /\ o[n] = list /\ u.prev[n] # null
            /\ \A x \in Addresses \ (gone \cup {n}) :
                 o[x] = owner[x] /\ (u.prev[x] = null <=> k.prev[x] = null)

LEMMA PutBetween ==
  ASSUME NEW k, NEW gone, NEW over, NEW owner, NEW rank, InOrder(k, gone, over, owner, rank),
         NEW list \in Lists, NEW n \in Nodes \ gone,
         NEW out, out = unlink(k, list, n),
         NEW a \in Addresses \ gone, NEW b, b = out.next[a], b # null, owner[a] = list,
         NEW u, u = insert_helper(out, a, n, b)
  PROVE  Put(k, u, gone, over, owner, list, n)
<1>1. /\ InOrder(out, gone, over, owner, rank)
      /\ out.next[n] = null /\ out.prev[n] = null
      /\ \A x \in Addresses \ (gone \cup {n}) : out.prev[x] = null <=> k.prev[x] = null
  BY UnlinkInOrder
<1>2. PICK o, r : o = OwnerWith(owner, n, a) /\ r = RankWith(rank, n, a)
  OBVIOUS
<1>3. /\ InOrder(u, gone, over, o, r)
      /\ u.prev[n] = a
      /\ \A x \in Addresses \ (gone \cup {n}) : u.prev[x] = null <=> out.prev[x] = null
  BY <1>1, <1>2, InsertInOrder
<1>4. /\ null \notin Addresses /\ n \in Addresses
  BY SentinelsApart DEF Addresses
<1>5. \A x \in Addresses : o[x] = IF x = n THEN list ELSE owner[x]
  BY <1>2, <1>4 DEF InOrder, OwnerWith
<1> QED BY <1>1, <1>3, <1>4, <1>5 DEF Put

LEMMA InsertHeadPuts ==
  ASSUME NEW k, NEW gone, NEW over, NEW owner, NEW rank, InOrder(k, gone, over, owner, rank),
         NEW list \in Lists \ over, NEW n \in Nodes \ gone
  PROVE  Put(k, insert_head(k, list, n), gone, over, owner, list, n)
<1>1. PICK out, u : out = unlink(k, list, n) /\ u = insert_head(k, list, n)
  OBVIOUS
<1>2. InOrder(out, gone, over, owner, rank)
  BY <1>1, UnlinkInOrder
<1>3. PICK a, b : a = head(list) /\ b = out.next[a]
  OBVIOUS
<1>4. a \in Addresses \ gone
  BY <1>3, SentinelsStand
<1>5. b # null /\ owner[a] = list
  BY <1>2, <1>3 DEF InOrder, Terminated
<1>6. u = insert_helper(out, a, n, b)
  BY <1>1, <1>3 DEF insert_head
<1>7. Put(k, u, gone, over, owner, list, n)
  BY <1>1, <1>3, <1>4, <1>5, <1>6, PutBetween
<1> QED BY <1>1, <1>7

LEMMA InsertTailPuts ==
  ASSUME NEW k, NEW gone, NEW over, NEW owner, NEW rank, InOrder(k, gone, over, owner, rank),
         NEW list \in Lists \ over, NEW n \in Nodes \ gone
  PROVE  Put(k, insert_tail(k, list, n), gone, over, owner, list, n)
<1>1. PICK out, u : out = unlink(k, list, n) /\ u = insert_tail(k, list, n)
  OBVIOUS
<1>2. InOrder(out, gone, over, owner, rank)
  BY <1>1, UnlinkInOrder
<1>3. PICK a, b : b = tail(list) /\ a = out.prev[b]
  OBVIOUS
<1>4. b \in Addresses \ gone
  BY <1>3, SentinelsStand
<1>5. a # null /\ owner[b] = list
  BY <1>2, <1>3 DEF InOrder, Terminated
<1>6. a \in Addresses \ gone
  BY <1>2, <1>3, <1>4, <1>5 DEF InOrder, Closed
<1>7. out.next[a] = b
  BY <1>2, <1>3, <1>4, <1>6 DEF InOrder, Paired
<1>8. b # null
  BY <1>4, SentinelsApart
<1>9. owner[a] = list
  BY <1>2, <1>5, <1>6, <1>7, <1>8 DEF InOrder, Grows
<1>10. u = insert_helper(out, a, n, b)
  BY <1>1, <1>3 DEF insert_tail
<1>11. Put(k, u, gone, over, owner, list, n)
  BY <1>1, <1>6, <1>7, <1>8, <1>9, <1>10, PutBetween
<1> QED BY <1>1, <1>11

-----------------------------------------------------------------------------

(* What a walk along next has come by after i steps, for i up to top.      *)
IsWalk(f, k, from, top) ==
  f = [i \in 0 .. top |-> IF i = 0 THEN from
                          ELSE IF f[i - 1] = null THEN null ELSE k.next[f[i - 1]]]

(* There is such a walk of every length: no number is the least for which  *)
(* there is none.                                                          *)
LEMMA WalkExists ==
  ASSUME NEW k, NEW from, NEW top \in Nat
  PROVE  \E f : IsWalk(f, k, from, top)
<1> DEFINE Missing == { m \in Nat : ~ \E f : IsWalk(f, k, from, m) }
<1>1. ASSUME Missing # {} PROVE FALSE
  <2>1. PICK m \in Missing : \A other \in Missing : m <= other
    <3>1. Missing \subseteq Nat OBVIOUS
    <3> HIDE DEF Missing
    <3> QED BY <1>1, <3>1, LeastNatural
  <2>2. CASE m = 0
    <3>1. 0 .. m = {0}
      BY <2>2
    <3>2. PICK f : f = [i \in {0} |-> from]
      OBVIOUS
    <3>3. IsWalk(f, k, from, m)
      BY <3>1, <3>2 DEF IsWalk
    <3> QED BY <2>1, <3>3
  <2>3. CASE m # 0
    <3>1. m - 1 \in Nat /\ m - 1 \notin Missing
      BY <2>1, <2>3
    <3>2. PICK f : IsWalk(f, k, from, m - 1)
      BY <3>1
    <3>3. f = [i \in 0 .. m - 1 |-> IF i = 0 THEN from
                    ELSE IF f[i - 1] = null THEN null ELSE k.next[f[i - 1]]]
      BY <3>2 DEF IsWalk
    <3>4. PICK h : h = [i \in 0 .. m |-> IF i = 0 THEN from
                    ELSE IF f[i - 1] = null THEN null ELSE k.next[f[i - 1]]]
      OBVIOUS
    <3>5. ASSUME NEW i \in 0 .. m, i # 0
          PROVE  h[i - 1] = f[i - 1]
      <4>1. i - 1 \in 0 .. m - 1 /\ i - 1 \in 0 .. m
        BY <3>5
      <4>2. h[i - 1] = IF i - 1 = 0 THEN from
                       ELSE IF f[i - 1 - 1] = null THEN null ELSE k.next[f[i - 1 - 1]]
        BY <3>4, <4>1
      <4>3. f[i - 1] = IF i - 1 = 0 THEN from
                       ELSE IF f[i - 1 - 1] = null THEN null ELSE k.next[f[i - 1 - 1]]
        BY <3>3, <4>1
      <4> QED BY <4>2, <4>3
    <3>6. h = [i \in 0 .. m |-> IF i = 0 THEN from
                    ELSE IF h[i - 1] = null THEN null ELSE k.next[h[i - 1]]]
      BY <3>4, <3>5
    <3>7. IsWalk(h, k, from, m)
      BY <3>6 DEF IsWalk
    <3> QED BY <2>1, <3>7
  <2> QED BY <2>2, <2>3
<1>2. top \notin Missing
  BY <1>1
<1> QED BY <1>2

(* So a walk starts where it is told to and goes on along next.            *)
LEMMA WalkSteps ==
  ASSUME NEW k, NEW from, NEW w, w = Walk(k, from)
  PROVE  /\ Cardinality(Addresses) \in Nat
         /\ w[0] = from
         /\ \A i \in 1 .. Cardinality(Addresses) :
              w[i] = IF w[i - 1] = null THEN null ELSE k.next[w[i - 1]]
<1>1. PICK top : top = Cardinality(Addresses)
  OBVIOUS
<1>2. top \in Nat
  BY <1>1, AddressesFinite, FS_CardinalityType
<1>3. PICK f : f = CHOOSE g : IsWalk(g, k, from, top)
  OBVIOUS
<1>4. IsWalk(f, k, from, top)
  BY <1>2, <1>3, WalkExists
<1>5. w = f
  BY <1>1, <1>3 DEF Walk, IsWalk
<1>6. f = [i \in 0 .. top |-> IF i = 0 THEN from
                ELSE IF f[i - 1] = null THEN null ELSE k.next[f[i - 1]]]
  BY <1>4 DEF IsWalk
<1>7. f[0] = from
  BY <1>2, <1>6
<1>8. ASSUME NEW i \in 1 .. top
      PROVE  f[i] = IF f[i - 1] = null THEN null ELSE k.next[f[i - 1]]
  BY <1>2, <1>6
<1> QED BY <1>1, <1>2, <1>5, <1>7, <1>8

(* A walk keeps to addresses that stand and to the owner it started with.  *)
LEMMA WalkStays ==
  ASSUME NEW k, NEW gone, NEW over, NEW owner, NEW rank, InOrder(k, gone, over, owner, rank),
         NEW from \in Addresses \ gone, NEW w, w = Walk(k, from),
         NEW i \in 0 .. Cardinality(Addresses)
  PROVE  /\ w[i] \in (Addresses \ gone) \cup {null}
         /\ w[i] # null => owner[w[i]] = owner[from]
<1> DEFINE Fine(j) == /\ w[j] \in (Addresses \ gone) \cup {null}
                      /\ w[j] # null => owner[w[j]] = owner[from]
           Bad == { j \in Nat : j <= Cardinality(Addresses) /\ ~ Fine(j) }
<1>1. /\ Cardinality(Addresses) \in Nat
      /\ w[0] = from
      /\ \A j \in 1 .. Cardinality(Addresses) :
           w[j] = IF w[j - 1] = null THEN null ELSE k.next[w[j - 1]]
  BY WalkSteps
<1>2. ASSUME Bad # {} PROVE FALSE
  <2>1. PICK m \in Bad : \A other \in Bad : m <= other
    <3>1. Bad \subseteq Nat OBVIOUS
    <3> HIDE DEF Bad
    <3> QED BY <1>2, <3>1, LeastNatural
  <2>2. m # 0
    BY <1>1, <2>1
  <2>3. m - 1 \in Nat /\ m - 1 <= Cardinality(Addresses) /\ m \in 1 .. Cardinality(Addresses)
    BY <1>1, <2>1, <2>2
  <2>4. m - 1 \notin Bad
    BY <2>1, <2>3
  <2>5. Fine(m - 1)
    BY <2>3, <2>4
  <2>6. PICK a, b : a = w[m - 1] /\ b = w[m]
    OBVIOUS
  <2>7. b = IF a = null THEN null ELSE k.next[a]
    BY <1>1, <2>3, <2>6
  <2>8. b \in (Addresses \ gone) \cup {null} /\ (b # null => owner[b] = owner[from])
    BY <2>5, <2>6, <2>7 DEF InOrder, Closed, Grows
  <2> QED BY <2>1, <2>6, <2>8
<1>3. i \notin Bad /\ i \in Nat /\ i <= Cardinality(Addresses)
  BY <1>1, <1>2
<1> QED BY <1>3

(* As long as it has not ended a walk goes up in rank, and so comes by no  *)
(* address twice.                                                          *)
LEMMA WalkRises ==
  ASSUME NEW k, NEW gone, NEW over, NEW owner, NEW rank, InOrder(k, gone, over, owner, rank),
         NEW from \in Addresses \ gone, NEW w, w = Walk(k, from),
         NEW i \in 0 .. Cardinality(Addresses), NEW j \in 0 .. Cardinality(Addresses),
         i < j, w[j] # null
  PROVE  w[i] # null /\ rank[w[i]] < rank[w[j]]
<1> DEFINE Fine(m) == w[m] # null => w[i] # null /\ rank[w[i]] < rank[w[m]]
           Bad == { m \in Nat : i < m /\ m <= Cardinality(Addresses) /\ ~ Fine(m) }
<1>1. /\ Cardinality(Addresses) \in Nat
      /\ \A m \in 1 .. Cardinality(Addresses) :
           w[m] = IF w[m - 1] = null THEN null ELSE k.next[w[m - 1]]
  BY WalkSteps
<1>2. /\ rank \in [Addresses -> Nat]
      /\ \A m \in 0 .. Cardinality(Addresses) : w[m] \in (Addresses \ gone) \cup {null}
  BY WalkStays DEF InOrder
<1>3. ASSUME Bad # {} PROVE FALSE
  <2>1. PICK m \in Bad : \A other \in Bad : m <= other
    <3>1. Bad \subseteq Nat OBVIOUS
    <3> HIDE DEF Bad
    <3> QED BY <1>3, <3>1, LeastNatural
  <2>2. m - 1 \in 0 .. Cardinality(Addresses) /\ m \in 1 .. Cardinality(Addresses)
    BY <1>1, <2>1
  <2>3. PICK a, b : a = w[m - 1] /\ b = w[m]
    OBVIOUS
  <2>4. b = IF a = null THEN null ELSE k.next[a]
    BY <1>1, <2>2, <2>3
  <2>5. b # null /\ a # null
    BY <2>1, <2>3, <2>4
  <2>6. a \in Addresses \ gone /\ b \in Addresses \ gone
    BY <1>2, <2>2, <2>3, <2>5
  <2>7. rank[a] < rank[b]
    BY <2>4, <2>5, <2>6 DEF InOrder, Grows
  <2>8. CASE m - 1 = i
    BY <2>1, <2>3, <2>5, <2>7, <2>8
  <2>9. CASE m - 1 # i
    <3>1. i < m - 1 /\ m - 1 \in Nat /\ m - 1 <= Cardinality(Addresses) /\ m - 1 \notin Bad
      BY <2>1, <2>2, <2>9
    <3>2. w[i] # null /\ rank[w[i]] < rank[a]
      BY <2>3, <2>5, <3>1
    <3>3. rank[w[i]] \in Nat /\ rank[a] \in Nat /\ rank[b] \in Nat
      BY <1>2, <2>6, <3>2
    <3>4. rank[w[i]] < rank[b]
      BY <2>7, <3>2, <3>3
    <3> QED BY <2>1, <2>3, <3>2, <3>4
  <2> QED BY <2>8, <2>9
<1>4. j \notin Bad /\ j \in Nat /\ j <= Cardinality(Addresses)
  BY <1>1, <1>3
<1> QED BY <1>4

(* There are not enough addresses to go on for longer.                     *)
LEMMA WalkEnds ==
  ASSUME NEW k, NEW gone, NEW over, NEW owner, NEW rank, InOrder(k, gone, over, owner, rank),
         NEW from \in Addresses \ gone, NEW w, w = Walk(k, from)
  PROVE  w[Cardinality(Addresses)] = null
<1> SUFFICES ASSUME w[Cardinality(Addresses)] # null PROVE FALSE
  OBVIOUS
<1>1. PICK top : top = Cardinality(Addresses)
  OBVIOUS
<1>2. top \in Nat
  BY <1>1, AddressesFinite, FS_CardinalityType
<1>3. ASSUME NEW i \in 0 .. top PROVE w[i] \in Addresses
  <2>1. w[i] # null
    <3>1. CASE i = top
      BY <1>1, <3>1
    <3>2. CASE i # top
      <4>1. i < top /\ top \in 0 .. top
        BY <1>2, <3>2
      <4> QED BY <1>1, <4>1, WalkRises
    <3> QED BY <3>1, <3>2
  <2> QED BY <1>1, <2>1, WalkStays
<1>4. PICK f : f = [i \in 0 .. top |-> w[i]]
  OBVIOUS
<1>5. f \in [0 .. top -> Addresses]
  BY <1>3, <1>4
<1>6. IsFiniteSet(0 .. top) /\ Cardinality(0 .. top) = top + 1
  <2>1. 0 \in Int /\ top \in Int
    BY <1>2
  <2> QED BY <1>2, <2>1, FS_Interval
<1>7. PICK i \in 0 .. top, j \in 0 .. top : i # j /\ f[i] = f[j]
  <2>1. Cardinality(Addresses) < Cardinality(0 .. top)
    BY <1>1, <1>2, <1>6
  <2> QED BY <1>5, <1>6, <2>1, AddressesFinite, FS_PigeonHole
<1>8. ASSUME NEW x \in 0 .. top, NEW y \in 0 .. top, x < y, w[x] = w[y] PROVE FALSE
  <2>1. w[y] # null
    BY <1>3, SentinelsApart
  <2>2. rank[w[x]] < rank[w[y]]
    BY <1>1, <1>8, <2>1, WalkRises
  <2>3. rank[w[y]] \in Nat
    BY <1>3 DEF InOrder
  <2> QED BY <1>8, <2>2, <2>3
<1>9. w[i] = w[j] /\ (i < j \/ j < i)
  BY <1>2, <1>4, <1>7
<1> QED BY <1>8, <1>9

(* What is reached stands and has the owner of the place it was reached    *)
(* from.                                                                   *)
LEMMA ReachedStands ==
  ASSUME NEW k, NEW gone, NEW over, NEW owner, NEW rank, InOrder(k, gone, over, owner, rank),
         NEW from \in Addresses \ gone, NEW a \in Reached(k, from)
  PROVE  a \in Addresses \ gone /\ owner[a] = owner[from]
<1>1. PICK w : w = Walk(k, from)
  OBVIOUS
<1>2. PICK i \in 0 .. Cardinality(Addresses) : a = w[i] /\ a # null
  BY <1>1 DEF Reached
<1> QED BY <1>1, <1>2, WalkStays

(* A set is reached when each of its elements other than the start comes   *)
(* after another: none of them is the least in rank that is not.           *)
LEMMA ReachesAll ==
  ASSUME NEW k, NEW gone, NEW over, NEW owner, NEW rank, InOrder(k, gone, over, owner, rank),
         NEW from \in Addresses \ gone, NEW T, T \subseteq Addresses \ gone,
         \A b \in T : b = from \/ \E a \in T : k.next[a] = b
  PROVE  T \subseteq Reached(k, from)
<1> DEFINE Ranks == { rank[b] : b \in T \ Reached(k, from) }
<1>1. rank \in [Addresses -> Nat] /\ null \notin Addresses
  BY SentinelsApart DEF InOrder
<1>2. PICK w : w = Walk(k, from)
  OBVIOUS
<1>3. /\ Cardinality(Addresses) \in Nat
      /\ w[0] = from
      /\ \A i \in 1 .. Cardinality(Addresses) :
           w[i] = IF w[i - 1] = null THEN null ELSE k.next[w[i - 1]]
  BY <1>2, WalkSteps
<1>4. w[Cardinality(Addresses)] = null
  BY <1>2, WalkEnds
<1>5. Reached(k, from) = { w[i] : i \in 0 .. Cardinality(Addresses) } \ {null}
  BY <1>2 DEF Reached
<1>6. ASSUME Ranks # {} PROVE FALSE
  <2>1. PICK r \in Ranks : \A other \in Ranks : r <= other
    <3>1. Ranks \subseteq Nat BY <1>1
    <3> HIDE DEF Ranks
    <3> QED BY <1>6, <3>1, LeastNatural
  <2>2. PICK b \in T \ Reached(k, from) : r = rank[b]
    BY <2>1
  <2>3. b \in Addresses \ gone /\ b # null
    BY <1>1, <2>2
  <2>4. b # from
    <3>1. 0 \in 0 .. Cardinality(Addresses)
      BY <1>3
    <3> QED BY <1>3, <1>5, <2>2, <2>3, <3>1
  <2>5. PICK a \in T : k.next[a] = b
    BY <2>2, <2>4
  <2>6. rank[a] < rank[b] /\ rank[a] \in Nat /\ rank[b] \in Nat
    BY <1>1, <2>3, <2>5 DEF InOrder, Grows
  <2>7. a \in Reached(k, from)
    <3>1. SUFFICES ASSUME a \notin Reached(k, from) PROVE FALSE
      OBVIOUS
    <3>2. rank[a] \in Ranks
      BY <2>5, <3>1
    <3>3. r <= rank[a]
      <4> HIDE DEF Ranks
      <4> QED BY <2>1, <3>2
    <3> QED BY <2>2, <2>6, <3>3
  <2>8. PICK i \in 0 .. Cardinality(Addresses) : a = w[i] /\ a # null
    BY <1>5, <2>7
  <2>9. i + 1 \in 1 .. Cardinality(Addresses) /\ i + 1 - 1 = i /\ i + 1 \in 0 .. Cardinality(Addresses)
    BY <1>3, <1>4, <2>8
  <2>10. w[i + 1] = b
    BY <1>3, <2>5, <2>8, <2>9
  <2> QED BY <1>5, <2>2, <2>3, <2>9, <2>10
<1> QED BY <1>6

-----------------------------------------------------------------------------

(* The nodes of a list and its tail.                                       *)
InList(k, gone, owner, list) ==
  { a \in Addresses \ gone : owner[a] = list /\ k.prev[a] # null }

(* What has something behind it comes after another of its list.           *)
LEMMA BehindInList ==
  ASSUME NEW k, NEW gone, NEW over, NEW owner, NEW rank, InOrder(k, gone, over, owner, rank),
         NEW list \in Lists \ over, NEW b \in InList(k, gone, owner, list)
  PROVE  /\ k.prev[b] \in InList(k, gone, owner, list) \cup {head(list)}
         /\ k.next[k.prev[b]] = b
<1>1. PICK a : a = k.prev[b]
  OBVIOUS
<1>2. b \in Addresses \ gone /\ owner[b] = list /\ a # null
  BY <1>1 DEF InList
<1>3. a \in Addresses \ gone
  BY <1>1, <1>2 DEF InOrder, Closed
<1>4. k.next[a] = b
  BY <1>1, <1>2, <1>3 DEF InOrder, Paired
<1>5. b # null
  BY <1>2, SentinelsApart
<1>6. owner[a] = list
  BY <1>2, <1>3, <1>4, <1>5 DEF InOrder, Grows
<1>7. a = head(list) \/ k.prev[a] # null
  <2>1. CASE a \in Nodes
    BY <1>3, <1>4, <1>5, <2>1 DEF InOrder
  <2>2. CASE a \notin Nodes
    <3>1. a \in Sentinels
      BY <1>3, <2>2 DEF Addresses
    <3>2. PICK other \in Lists : a \in {head(other), tail(other)}
      BY <3>1, SentinelsApart
    <3>3. other \notin over
      <4> SUFFICES ASSUME other \in over PROVE FALSE
        OBVIOUS
      <4>1. a \in UNION { {head(l), tail(l)} : l \in over }
        BY <3>2
      <4> QED BY <1>3, <4>1 DEF InOrder
    <3>4. other = list
      BY <1>6, <3>2, <3>3 DEF InOrder, Terminated
    <3> QED BY <1>4, <1>5, <3>2, <3>3, <3>4 DEF InOrder, Terminated
  <2> QED BY <2>1, <2>2
<1> QED BY <1>1, <1>3, <1>4, <1>6, <1>7 DEF InList

(* A loop comes by every node of its list and by the tail, and starts      *)
(* within it.                                                              *)
LEMMA LoopReaches ==
  ASSUME NEW k, NEW gone, NEW over, NEW owner, NEW rank, InOrder(k, gone, over, owner, rank),
         NEW list \in Lists \ over
  PROVE  /\ begin(k, list) \in InList(k, gone, owner, list)
         /\ InList(k, gone, owner, list) \subseteq Reached(k, begin(k, list))
<1>1. PICK h, b : h = head(list) /\ b = k.next[h]
  OBVIOUS
<1>2. h \in Addresses \ gone /\ b # null /\ owner[h] = list /\ h # null
  BY <1>1, SentinelsStand, SentinelsApart DEF InOrder, Terminated
<1>3. begin(k, list) = b
  BY <1>1, <1>2 DEF begin, get_head
<1>4. b \in Addresses \ gone /\ owner[b] = list
  BY <1>1, <1>2 DEF InOrder, Closed, Grows
<1>5. k.prev[b] = h
  BY <1>1, <1>2, <1>4 DEF InOrder, Paired
<1>6. b \in InList(k, gone, owner, list)
  BY <1>2, <1>4, <1>5 DEF InList
<1>7. PICK T : T = InList(k, gone, owner, list)
  OBVIOUS
<1>8. T \subseteq Addresses \ gone
  BY <1>7 DEF InList
<1>9. ASSUME NEW c \in T PROVE c = b \/ \E a \in T : k.next[a] = c
  <2>1. k.prev[c] \in T \cup {h} /\ k.next[k.prev[c]] = c
    BY <1>1, <1>7, BehindInList
  <2> QED BY <1>1, <2>1
<1>10. T \subseteq Reached(k, b)
  BY <1>4, <1>8, <1>9, ReachesAll
<1> QED BY <1>3, <1>6, <1>7, <1>10

(* The destructor comes by all of its list and by nothing else.            *)
LEMMA DestructorReaches ==
  ASSUME NEW k, NEW gone, NEW over, NEW owner, NEW rank, InOrder(k, gone, over, owner, rank),
         NEW list \in Lists \ over
  PROVE  /\ InList(k, gone, owner, list) \cup {head(list)} \subseteq Reached(k, head(list))
         /\ \A a \in Reached(k, head(list)) : a \in Addresses \ gone /\ owner[a] = list
         /\ tail(list) \in InList(k, gone, owner, list)
<1>1. PICK h, t : h = head(list) /\ t = tail(list)
  OBVIOUS
<1>2. /\ h \in Addresses \ gone /\ owner[h] = list
      /\ t \in Addresses \ gone /\ owner[t] = list /\ k.prev[t] # null
  BY <1>1, SentinelsStand DEF InOrder, Terminated
<1>3. PICK T : T = InList(k, gone, owner, list) \cup {h}
  OBVIOUS
<1>4. T \subseteq Addresses \ gone
  BY <1>2, <1>3 DEF InList
<1>5. ASSUME NEW c \in T PROVE c = h \/ \E a \in T : k.next[a] = c
  <2>1. CASE c \in InList(k, gone, owner, list)
    <3>1. k.prev[c] \in T /\ k.next[k.prev[c]] = c
      BY <1>1, <1>3, <2>1, BehindInList
    <3> QED BY <3>1
  <2> QED BY <1>3, <2>1
<1>6. T \subseteq Reached(k, h)
  BY <1>2, <1>4, <1>5, ReachesAll
<1>7. \A a \in Reached(k, h) : a \in Addresses \ gone /\ owner[a] = list
  BY <1>2, ReachedStands
<1> QED BY <1>1, <1>2, <1>3, <1>6, <1>7 DEF InList

(* So what is left when it is done is in good order still.                 *)
LEMMA DestroyInOrder ==
  ASSUME NEW k, NEW gone, NEW over, NEW owner, NEW rank, InOrder(k, gone, over, owner, rank),
         NEW list \in Lists \ over, NEW R, R = Reached(k, head(list))
  PROVE  InOrder(k, gone \cup R, over \cup {list}, owner, rank)
<1>1. PICK h, t, left, ended : /\ h = head(list) /\ t = tail(list)
                               /\ left = gone \cup R /\ ended = over \cup {list}
  OBVIOUS
<1>2. PICK T : T = InList(k, gone, owner, list)
  OBVIOUS
<1>3. /\ T \cup {h} \subseteq R /\ t \in T
      /\ \A a \in R : a \in Addresses \ gone /\ owner[a] = list
  BY <1>1, <1>2, DestructorReaches
<1>4. left \subseteq Addresses /\ ended \subseteq Lists
  BY <1>1, <1>3 DEF InOrder
<1>5. left \cap Sentinels = UNION { {head(l), tail(l)} : l \in ended }
  <2>1. ASSUME NEW x \in left \cap Sentinels
        PROVE  \E l \in ended : x \in {head(l), tail(l)}
    <3>1. CASE x \in gone
      BY <1>1, <3>1, <2>1 DEF InOrder
    <3>2. CASE x \in R
      <4>1. PICK other \in Lists : x \in {head(other), tail(other)}
        BY <2>1, SentinelsApart
      <4>2. CASE other \in over
        BY <1>1, <4>1, <4>2
      <4>3. CASE other \notin over
        <5>1. owner[x] = other
          BY <4>1, <4>3 DEF InOrder, Terminated
        <5> QED BY <1>1, <1>3, <3>2, <4>1, <5>1
      <4> QED BY <4>2, <4>3
    <3> QED BY <1>1, <2>1, <3>1, <3>2
  <2>2. ASSUME NEW l \in ended, NEW x \in {head(l), tail(l)}
        PROVE  x \in left \cap Sentinels
    <3>1. CASE l \in over
      <4>1. x \in UNION { {head(m), tail(m)} : m \in over }
        BY <2>2, <3>1
      <4> QED BY <1>1, <4>1 DEF InOrder
    <3>2. CASE l = list
      BY <1>1, <1>3, <2>2, <3>2, SentinelsApart
    <3> QED BY <1>1, <3>1, <3>2
  <2> QED BY <2>1, <2>2
<1>6. Paired(k, left) /\ Grows(k, left, owner, rank)
  BY <1>1 DEF InOrder, Paired, Grows
<1>7. Closed(k, left)
  <2> SUFFICES ASSUME NEW a \in Addresses \ left
               PROVE  /\ k.next[a] \in (Addresses \ left) \cup {null}
                      /\ k.prev[a] \in (Addresses \ left) \cup {null}
    BY DEF Closed
  <2>1. /\ a \in Addresses \ gone /\ a \notin R /\ a # null
        /\ k.next[a] \in (Addresses \ gone) \cup {null}
        /\ k.prev[a] \in (Addresses \ gone) \cup {null}
    BY <1>1, SentinelsApart DEF InOrder, Closed
  <2>2. ASSUME NEW b \in R, b = k.next[a] PROVE FALSE
    <3>1. b \in Addresses \ gone /\ owner[b] = list
      BY <1>3
    <3>2. k.prev[b] = a
      BY <2>1, <2>2, <3>1 DEF InOrder, Paired
    <3>3. b \in T
      BY <1>2, <2>1, <3>1, <3>2 DEF InList
    <3>4. a \in T \cup {h}
      BY <1>1, <1>2, <3>2, <3>3, BehindInList
    <3> QED BY <1>3, <2>1, <3>4
  <2>3. ASSUME NEW b \in R, b = k.prev[a] PROVE FALSE
    <3>1. b \in Addresses \ gone /\ owner[b] = list /\ b # null
      BY <1>3, SentinelsApart
    <3>2. k.next[b] = a
      BY <2>1, <2>3, <3>1 DEF InOrder, Paired
    <3>3. owner[a] = list
      BY <2>1, <3>1, <3>2 DEF InOrder, Grows
    <3>4. a \in T
      BY <1>2, <2>1, <2>3, <3>1, <3>3 DEF InList
    <3> QED BY <1>3, <2>1, <3>4
  <2> QED BY <1>1, <2>1, <2>2, <2>3
<1>8. Terminated(k, ended, owner)
  BY <1>1 DEF InOrder, Terminated
<1>9. \A n \in Nodes \ left : k.next[n] = null <=> k.prev[n] = null
  BY <1>1 DEF InOrder
<1>10. InOrder(k, left, ended, owner, rank)
  BY <1>4, <1>5, <1>6, <1>7, <1>8, <1>9 DEF InOrder
<1> QED BY <1>1, <1>10

(* What comes after a node of a list is in it too, up to the tail.         *)
LEMMA AheadInList ==
  ASSUME NEW k, NEW gone, NEW over, NEW owner, NEW rank, InOrder(k, gone, over, owner, rank),
         NEW list \in Lists \ over, NEW a \in InList(k, gone, owner, list), a # tail(list)
  PROVE  /\ a \in Nodes
         /\ k.next[a] \in InList(k, gone, owner, list)
         /\ k.prev[k.next[a]] = a
<1>1. PICK b : b = k.next[a]
  OBVIOUS
<1>2. a \in Addresses \ gone /\ owner[a] = list /\ k.prev[a] # null
  BY DEF InList
<1>3. a \in Nodes
  <2> SUFFICES ASSUME a \notin Nodes PROVE FALSE
    OBVIOUS
  <2>1. PICK other \in Lists : a \in {head(other), tail(other)}
    BY <1>2, SentinelsApart DEF Addresses
  <2>2. other \notin over
    <3> SUFFICES ASSUME other \in over PROVE FALSE
      OBVIOUS
    <3>1. a \in UNION { {head(l), tail(l)} : l \in over }
      BY <2>1
    <3> QED BY <1>2, <3>1 DEF InOrder
  <2>3. owner[a] = other /\ k.prev[head(other)] = null
    BY <2>1, <2>2 DEF InOrder, Terminated
  <2> QED BY <1>2, <2>1, <2>3
<1>4. b # null
  BY <1>1, <1>2, <1>3 DEF InOrder
<1>5. b \in Addresses \ gone /\ owner[b] = list
  BY <1>1, <1>2, <1>4 DEF InOrder, Closed, Grows
<1>6. k.prev[b] = a /\ a # null
  BY <1>1, <1>2, <1>5, SentinelsApart DEF InOrder, Paired
<1> QED BY <1>1, <1>3, <1>5, <1>6 DEF InList

(* The head is the least of a list in rank.                                *)
LEMMA HeadIsLeast ==
  ASSUME NEW k, NEW gone, NEW over, NEW owner, NEW rank, InOrder(k, gone, over, owner, rank),
         NEW list \in Lists \ over, NEW b \in InList(k, gone, owner, list)
  PROVE  rank[head(list)] < rank[b]
<1>1. PICK h, T : h = head(list) /\ T = InList(k, gone, owner, list)
  OBVIOUS
<1> DEFINE Ranks == { rank[c] : c \in { d \in T : ~ rank[h] < rank[d] } }
<1>2. /\ rank \in [Addresses -> Nat] /\ T \subseteq Addresses \ gone
      /\ h \in Addresses \ gone /\ null \notin Addresses
  BY <1>1, SentinelsStand, SentinelsApart DEF InOrder, InList
<1>3. ASSUME Ranks # {} PROVE FALSE
  <2>1. PICK m \in Ranks : \A other \in Ranks : m <= other
    <3>1. Ranks \subseteq Nat BY <1>2
    <3> HIDE DEF Ranks
    <3> QED BY <1>3, <3>1, LeastNatural
  <2>2. PICK c \in T : m = rank[c] /\ ~ rank[h] < rank[c]
    BY <2>1
  <2>3. PICK a : a = k.prev[c]
    OBVIOUS
  <2>4. a \in T \cup {h} /\ k.next[a] = c
    BY <1>1, <2>2, <2>3, BehindInList
  <2>5. rank[a] < rank[c] /\ rank[a] \in Nat /\ rank[c] \in Nat /\ rank[h] \in Nat
    BY <1>2, <2>2, <2>4 DEF InOrder, Grows
  <2>6. a \in T /\ ~ rank[h] < rank[a]
    BY <2>2, <2>4, <2>5
  <2>7. rank[a] \in Ranks
    BY <2>6
  <2>8. m <= rank[a]
    <3> HIDE DEF Ranks
    <3> QED BY <2>1, <2>7
  <2> QED BY <2>2, <2>5, <2>8
<1>4. b \in T /\ rank[b] \notin Ranks
  BY <1>1, <1>3
<1> QED BY <1>1, <1>4

(* And the node before the tail is the greatest of the nodes.              *)
LEMMA LastIsGreatest ==
  ASSUME NEW k, NEW gone, NEW over, NEW owner, NEW rank, InOrder(k, gone, over, owner, rank),
         NEW list \in Lists \ over, NEW b \in InList(k, gone, owner, list), b # tail(list)
  PROVE  rank[b] <= rank[k.prev[tail(list)]]
<1>1. PICK h, t, T, last : /\ h = head(list) /\ t = tail(list)
                           /\ T = InList(k, gone, owner, list) /\ last = k.prev[t]
  OBVIOUS
<1>2. PICK w, top : w = Walk(k, h) /\ top = Cardinality(Addresses)
  OBVIOUS
<1>3. h \in Addresses \ gone
  BY <1>1, SentinelsStand
<1>4. /\ top \in Nat
      /\ \A i \in 1 .. top : w[i] = IF w[i - 1] = null THEN null ELSE k.next[w[i - 1]]
  BY <1>2, WalkSteps
<1>5. w[top] = null
  BY <1>2, <1>3, WalkEnds
<1>6. T \subseteq { w[i] : i \in 0 .. top }
  <2>1. T \subseteq Reached(k, h)
    BY <1>1, DestructorReaches
  <2> QED BY <1>2, <2>1 DEF Reached
<1>7. /\ rank \in [Addresses -> Nat] /\ T \subseteq Addresses \ gone /\ null \notin Addresses
      /\ last \in T \cup {h} /\ t \in T
  <2>1. t \in T
    BY <1>1, DestructorReaches
  <2>2. last \in T \cup {h}
    BY <1>1, <2>1, BehindInList
  <2> QED BY <1>1, <2>1, <2>2, SentinelsApart DEF InOrder, InList
<1> DEFINE Above == { i \in 0 .. top : w[i] \in T \ {t} /\ ~ rank[w[i]] <= rank[last] }
           Left == { top - i : i \in Above }
<1>8. ASSUME Left # {} PROVE FALSE
  <2>1. PICK m \in Left : \A other \in Left : m <= other
    <3>1. Left \subseteq Nat BY <1>4
    <3> HIDE DEF Left
    <3> QED BY <1>8, <3>1, LeastNatural
  <2>2. PICK i \in Above : m = top - i
    BY <2>1
  <2>3. PICK a, c : a = w[i] /\ c = k.next[a]
    OBVIOUS
  <2>4. a \in T /\ a # t /\ ~ rank[a] <= rank[last] /\ a # null
    BY <1>7, <2>2, <2>3
  <2>5. i # top
    BY <1>5, <2>3, <2>4
  <2>6. i + 1 \in 1 .. top /\ i + 1 \in 0 .. top /\ i + 1 - 1 = i
    BY <1>4, <2>2, <2>5
  <2>7. w[i + 1] = c
    BY <1>4, <2>3, <2>4, <2>6
  <2>8. c \in T /\ k.prev[c] = a
    BY <1>1, <2>3, <2>4, AheadInList
  <2>9. c # t
    <3>1. CASE c = t
      <4>1. a = last
        BY <1>1, <2>8, <3>1
      <4>2. rank[a] \in Nat
        BY <1>7, <2>4
      <4> QED BY <2>4, <4>1, <4>2
    <3> QED BY <3>1
  <2>10. rank[a] < rank[c] /\ rank[a] \in Nat /\ rank[c] \in Nat /\ rank[last] \in Nat
    BY <1>3, <1>7, <2>3, <2>4, <2>8 DEF InOrder, Grows
  <2>11. i + 1 \in Above
    BY <2>4, <2>6, <2>7, <2>8, <2>9, <2>10
  <2>12. top - (i + 1) \in Left
    BY <2>11
  <2>13. m <= top - (i + 1)
    <3> HIDE DEF Left
    <3> QED BY <2>1, <2>12
  <2> QED BY <1>4, <2>2, <2>6, <2>13
<1>9. PICK i \in 0 .. top : b = w[i]
  BY <1>1, <1>6
<1>10. i \notin Above
  <2> SUFFICES ASSUME i \in Above PROVE FALSE
    OBVIOUS
  <2>1. top - i \in Left
    OBVIOUS
  <2> QED BY <1>8, <2>1
<1> QED BY <1>1, <1>9, <1>10

(* What insert_head puts in comes before everything else in the list, and  *)
(* the rest keeps the order it had.                                        *)
LEMMA InsertHeadFirst ==
  ASSUME NEW k, NEW gone, NEW over, NEW owner, NEW rank, InOrder(k, gone, over, owner, rank),
         NEW list \in Lists \ over, NEW n \in Nodes \ gone,
         NEW u, u = insert_head(k, list, n)
  PROVE  \E o, r :
           /\ InOrder(u, gone, over, o, r)
           /\ o[n] = list /\ u.prev[n] # null
           /\ \A x \in Addresses \ (gone \cup {n}) :
                o[x] = owner[x] /\ (u.prev[x] = null <=> k.prev[x] = null)
           /\ \A x, y \in Addresses \ {n} : r[x] < r[y] <=> rank[x] < rank[y]
           /\ \A x \in InList(k, gone, owner, list) \ {n} : r[n] < r[x]
<1>1. PICK out : out = unlink(k, list, n)
  OBVIOUS
<1>2. /\ InOrder(out, gone, over, owner, rank)
      /\ out.next[n] = null /\ out.prev[n] = null
      /\ \A x \in Addresses \ (gone \cup {n}) : out.prev[x] = null <=> k.prev[x] = null
  BY <1>1, UnlinkInOrder
<1>3. PICK a, b : a = head(list) /\ b = out.next[a]
  OBVIOUS
<1>4. a \in Addresses \ gone
  BY <1>3, SentinelsStand
<1>5. b # null /\ owner[a] = list
  BY <1>2, <1>3 DEF InOrder, Terminated
<1>6. u = insert_helper(out, a, n, b)
  BY <1>1, <1>3 DEF insert_head
<1>7. PICK o, r : o = OwnerWith(owner, n, a) /\ r = RankWith(rank, n, a)
  OBVIOUS
<1>8. /\ InOrder(u, gone, over, o, r)
      /\ u.prev[n] = a
      /\ \A x \in Addresses \ (gone \cup {n}) : u.prev[x] = null <=> out.prev[x] = null
  BY <1>2, <1>3, <1>4, <1>5, <1>6, <1>7, InsertInOrder
<1>9. null \notin Addresses /\ n \in Addresses
  BY SentinelsApart DEF Addresses
<1>10. \A x \in Addresses : o[x] = IF x = n THEN list ELSE owner[x]
  BY <1>5, <1>7, <1>9 DEF InOrder, OwnerWith
<1>11. /\ \A x \in Addresses : r[x] = IF x = n THEN 2 * rank[a] + 1 ELSE 2 * rank[x]
       /\ \A x \in Addresses : rank[x] \in Nat
  BY <1>7 DEF InOrder, RankWith
<1>12. ASSUME NEW x \in Addresses \ {n}, NEW y \in Addresses \ {n}
       PROVE  r[x] < r[y] <=> rank[x] < rank[y]
  BY <1>11
<1>13. ASSUME NEW x \in InList(k, gone, owner, list) \ {n} PROVE r[n] < r[x]
  <2>1. x \in Addresses /\ x # n
    BY DEF InList
  <2>2. rank[a] < rank[x]
    BY <1>3, HeadIsLeast
  <2>3. r[n] = 2 * rank[a] + 1 /\ r[x] = 2 * rank[x] /\ rank[a] \in Nat /\ rank[x] \in Nat
    BY <1>4, <1>9, <1>11, <2>1
  <2> QED BY <2>2, <2>3
<1>14. \A x \in Addresses \ (gone \cup {n}) :
         o[x] = owner[x] /\ (u.prev[x] = null <=> k.prev[x] = null)
  BY <1>2, <1>8, <1>10
<1>15. o[n] = list /\ u.prev[n] # null
  BY <1>4, <1>8, <1>9, <1>10
<1> QED BY <1>8, <1>12, <1>13, <1>14, <1>15

(* get_tail finds the last node, the greatest in rank, or that there is    *)
(* none.                                                                   *)
LEMMA GetTailIsLast ==
  ASSUME NEW k, NEW gone, NEW over, NEW owner, NEW rank, InOrder(k, gone, over, owner, rank),
         NEW list \in Lists \ over, NEW v, v = get_tail(k, list)
  PROVE  /\ v = null => InList(k, gone, owner, list) = {tail(list)}
         /\ v # null => /\ v \in InList(k, gone, owner, list) \cap Nodes
                        /\ \A b \in InList(k, gone, owner, list) \ {tail(list)} :
                             rank[b] <= rank[v]
<1>1. PICK h, t, T, last : /\ h = head(list) /\ t = tail(list)
                           /\ T = InList(k, gone, owner, list) /\ last = k.prev[t]
  OBVIOUS
<1>2. t \in T
  BY <1>1, DestructorReaches
<1>3. last \in T \cup {h} /\ k.next[last] = t
  BY <1>1, <1>2, BehindInList
<1>4. \A b \in T \ {t} : rank[b] <= rank[last]
  BY <1>1, LastIsGreatest
<1>5. /\ h \in Addresses /\ T \subseteq Addresses /\ t # null /\ null \notin Addresses
      /\ rank \in [Addresses -> Nat]
  BY <1>1, <1>2, SentinelsStand, SentinelsApart DEF InOrder, InList
<1>6. CASE last = h
  <2>1. v = null
    BY <1>1, <1>6 DEF get_tail
  <2>2. ASSUME NEW b \in T, b # t PROVE FALSE
    <3>1. rank[h] < rank[b]
      BY <1>1, HeadIsLeast
    <3>2. rank[b] <= rank[h]
      BY <1>4, <1>6, <2>2
    <3>3. rank[h] \in Nat /\ rank[b] \in Nat
      BY <1>5
    <3> QED BY <3>1, <3>2, <3>3
  <2> QED BY <1>1, <1>2, <2>1, <2>2
<1>7. CASE last # h
  <2>1. v = last /\ last \in T /\ last # null
    BY <1>1, <1>3, <1>5, <1>7 DEF get_tail
  <2>2. k.next[t] = null
    BY <1>1 DEF InOrder, Terminated
  <2>3. last # t
    BY <1>3, <1>5, <2>2
  <2>4. last \in Nodes
    BY <1>1, <2>1, <2>3, AheadInList
  <2> QED BY <1>1, <1>4, <2>1, <2>4
<1> QED BY <1>6, <1>7

-----------------------------------------------------------------------------

(* The links are in good order for these owners and ranks, and the loop    *)
(* stands in its list unless its node was taken away.                      *)
Sound(owner, rank) ==
  /\ InOrder(links, freed, destroyed, owner, rank)
  /\ (~disturbed /\ iterated \notin destroyed)
       => curr_node \in InList(links, freed, owner, iterated)

LInv == TypeOK /\ \E owner, rank : Sound(owner, rank)

(* As the constructors leave them the links are in order.                  *)
LEMMA NewLinksInOrder == \E owner, rank : InOrder(NewLinks, {}, {}, owner, rank)
<1>1. PICK k, owner, rank :
        /\ k = NewLinks
        /\ owner = [a \in Addresses |->
                      IF a \in Nodes THEN null
                      ELSE CHOOSE list \in Lists : a \in {head(list), tail(list)}]
        /\ rank = [a \in Addresses |->
                     IF \E list \in Lists : a = tail(list) THEN 1 ELSE 0]
  OBVIOUS
<1>2. ASSUME NEW list \in Lists
      PROVE  /\ owner[head(list)] = list /\ owner[tail(list)] = list
             /\ rank[head(list)] = 0 /\ rank[tail(list)] = 1
  <2>1. /\ head(list) \in Sentinels /\ tail(list) \in Sentinels
        /\ head(list) \notin Nodes /\ tail(list) \notin Nodes
        /\ head(list) \in Addresses /\ tail(list) \in Addresses
    BY SentinelsApart DEF Addresses
  <2>2. \A other \in Lists : head(list) # tail(other)
    BY SentinelsApart
  <2>3. \A other \in Lists :
          {head(list), tail(list)} \cap {head(other), tail(other)} # {} => list = other
    BY SentinelsApart
  <2>4. (CHOOSE l \in Lists : head(list) \in {head(l), tail(l)}) = list
    BY <2>3
  <2>5. (CHOOSE l \in Lists : tail(list) \in {head(l), tail(l)}) = list
    BY <2>3
  <2> QED BY <1>1, <2>1, <2>2, <2>4, <2>5
<1>3. /\ owner \in [Addresses -> Lists \cup {null}]
      /\ rank \in [Addresses -> Nat]
  <2>1. ASSUME NEW a \in Addresses, a \notin Nodes
        PROVE  (CHOOSE list \in Lists : a \in {head(list), tail(list)}) \in Lists
    BY <2>1, SentinelsApart DEF Addresses
  <2> QED BY <1>1, <2>1
<1>4. ASSUME NEW a \in Addresses
      PROVE  /\ \A list \in Lists : a = head(list) => /\ k.next[a] = tail(list)
                                                      /\ k.prev[a] = null
             /\ \A list \in Lists : a = tail(list) => /\ k.prev[a] = head(list)
                                                      /\ k.next[a] = null
             /\ a \in Nodes => k.next[a] = null /\ k.prev[a] = null
             /\ \/ a \in Nodes
                \/ \E list \in Lists : a = head(list)
                \/ \E list \in Lists : a = tail(list)
  <2>1. /\ k.next[a] = IF \E list \in Lists : a = head(list) THEN a - 1 ELSE null
        /\ k.prev[a] = IF \E list \in Lists : a = tail(list) THEN a + 1 ELSE null
    BY <1>1 DEF NewLinks
  <2>2. \A list \in Lists : head(list) - 1 = tail(list) /\ tail(list) + 1 = head(list)
    BY ListsAssumption DEF head, tail
  <2>3. \A list, other \in Lists : head(list) # tail(other)
    BY SentinelsApart
  <2>4. a \in Nodes => \A list \in Lists : a # head(list) /\ a # tail(list)
    BY SentinelsApart
  <2> QED BY <2>1, <2>2, <2>3, <2>4 DEF Addresses, Sentinels
<1>5. k \in Links
  <2>1. k.next = [a \in Addresses |->
                    IF \E list \in Lists : a = head(list) THEN a - 1 ELSE null]
    BY <1>1 DEF NewLinks
  <2>2. k.prev = [a \in Addresses |->
                    IF \E list \in Lists : a = tail(list) THEN a + 1 ELSE null]
    BY <1>1 DEF NewLinks
  <2>3. \A a \in Addresses : /\ k.next[a] \in Addresses \cup {null}
                             /\ k.prev[a] \in Addresses \cup {null}
    BY <1>4, SentinelsApart DEF Addresses
  <2>4. k.next \in [Addresses -> Addresses \cup {null}]
    BY <2>1, <2>3
  <2>5. k.prev \in [Addresses -> Addresses \cup {null}]
    BY <2>2, <2>3
  <2>6. k = [next |-> k.next, prev |-> k.prev]
    BY <1>1 DEF NewLinks
  <2> QED BY <2>4, <2>5, <2>6 DEF Links
<1>6. /\ null \notin Addresses
      /\ \A list \in Lists : /\ head(list) \in Addresses /\ tail(list) \in Addresses
                             /\ head(list) # null /\ tail(list) # null
      /\ \A list, other \in Lists :
           {head(list), tail(list)} \cap {head(other), tail(other)} # {} => list = other
  BY SentinelsApart DEF Addresses
<1>7. Paired(k, {})
  <2> SUFFICES ASSUME NEW a \in Addresses, NEW b \in Addresses
               PROVE  k.next[a] = b <=> k.prev[b] = a
    BY DEF Paired
  <2> QED BY <1>4, <1>6
<1>8. Closed(k, {})
  BY <1>4, <1>6 DEF Closed
<1>9. Grows(k, {}, owner, rank)
  <2> SUFFICES ASSUME NEW a \in Addresses, k.next[a] # null
               PROVE  owner[k.next[a]] = owner[a] /\ rank[a] < rank[k.next[a]]
    BY DEF Grows
  <2>1. PICK list \in Lists : a = head(list) /\ k.next[a] = tail(list)
    BY <1>4
  <2> QED BY <1>2, <2>1
<1>10. Terminated(k, {}, owner)
  BY <1>2, <1>4, <1>6 DEF Terminated
<1>11. \A n \in Nodes : k.next[n] = null <=> k.prev[n] = null
  BY <1>4 DEF Addresses
<1>12. InOrder(k, {}, {}, owner, rank)
  BY <1>3, <1>5, <1>7, <1>8, <1>9, <1>10, <1>11 DEF InOrder
<1> QED BY <1>1, <1>12

LEMMA InitialOrder == ASSUME Init PROVE LInv
<1>1. PICK owner, rank : InOrder(links, {}, {}, owner, rank)
  BY NewLinksInOrder DEF Init
<1>2. curr_node \in InList(links, {}, owner, iterated)
  BY <1>1, DestructorReaches DEF Init
<1>3. TypeOK
  <2>1. links \in Links /\ curr_node \in Addresses /\ iterated \in Lists
    BY <1>1, <1>2 DEF Init, InOrder, InList
  <2>2. changes \in 0 .. MaxChanges
    BY ChangesAssumption DEF Init
  <2> QED BY <2>1, <2>2 DEF Init, TypeOK
<1> QED BY <1>1, <1>2, <1>3 DEF Init, Sound, LInv

(* What a change of the links keeps, when it leaves owners and what is     *)
(* behind a node alone except for the node it is about.                    *)
LEMMA ChangeKeepsTypes ==
  ASSUME TypeOK, NEW list, NEW node, NEW changed, Change(list, node, changed),
         changed \in Links, disturbed' \in BOOLEAN
  PROVE  TypeOK'
<1>1. changes' \in 0 .. MaxChanges
  BY ChangesAssumption DEF TypeOK, Change
<1> QED BY <1>1 DEF TypeOK, Change

LEMMA UnlinkKeeps ==
  ASSUME LInv, NEW list \in Lists, NEW node \in Nodes, Unlink(list, node)
  PROVE  LInv'
<1>1. PICK owner, rank : Sound(owner, rank)
  BY DEF LInv
<1>2. PICK u : u = unlink(links, list, node)
  OBVIOUS
<1>3. links' = u /\ node \notin freed /\ UNCHANGED <<destroyed, freed, iterated, curr_node>>
  BY <1>2 DEF Unlink, Change
<1>4. /\ InOrder(u, freed, destroyed, owner, rank)
      /\ \A a \in Addresses \ (freed \cup {node}) : u.prev[a] = null <=> links.prev[a] = null
  BY <1>1, <1>2, <1>3, UnlinkInOrder DEF Sound
<1>5. (~disturbed' /\ iterated \notin destroyed)
        => curr_node \in InList(u, freed, owner, iterated)
  BY <1>1, <1>4 DEF Unlink, Sound, InList
<1>6. Sound(owner, rank)'
  BY <1>3, <1>4, <1>5 DEF Sound
<1>7. TypeOK'
  BY <1>2, <1>4, ChangeKeepsTypes DEF LInv, TypeOK, Unlink, InOrder
<1> QED BY <1>6, <1>7 DEF LInv

LEMMA PutKeeps ==
  ASSUME LInv, NEW list \in Lists, NEW node \in Nodes, NEW changed,
         Change(list, node, changed), disturbed' = (disturbed \/ Disturbs(list, node)),
         \A owner, rank : InOrder(links, freed, destroyed, owner, rank)
                            => Put(links, changed, freed, destroyed, owner, list, node)
  PROVE  LInv'
<1>1. PICK owner, rank : Sound(owner, rank)
  BY DEF LInv
<1>2. links' = changed /\ node \in Nodes \ freed
      /\ UNCHANGED <<destroyed, freed, iterated, curr_node>>
  BY DEF Change
<1>3. Put(links, changed, freed, destroyed, owner, list, node)
  BY <1>1 DEF Sound
<1>4. PICK o, r : /\ InOrder(changed, freed, destroyed, o, r)
                  /\ o[node] = list /\ changed.prev[node] # null
                  /\ \A x \in Addresses \ (freed \cup {node}) :
                       o[x] = owner[x] /\ (changed.prev[x] = null <=> links.prev[x] = null)
  BY <1>3 DEF Put
<1>5. ASSUME ~disturbed', iterated \notin destroyed
      PROVE  curr_node \in InList(changed, freed, o, iterated)
  <2>1. curr_node \in InList(links, freed, owner, iterated)
    BY <1>1, <1>5 DEF Sound
  <2>2. curr_node = node => list = iterated
    BY <1>5 DEF Disturbs
  <2> QED BY <1>2, <1>4, <2>1, <2>2 DEF InList
<1>6. Sound(o, r)'
  BY <1>2, <1>4, <1>5 DEF Sound
<1>7. TypeOK'
  <2>1. disturbed' \in BOOLEAN
    BY DEF LInv, TypeOK, Disturbs
  <2> QED BY <1>4, <2>1, ChangeKeepsTypes DEF LInv, InOrder
<1> QED BY <1>6, <1>7 DEF LInv

LEMMA InsertHeadKeeps ==
  ASSUME LInv, NEW list \in Lists, NEW node \in Nodes, InsertHead(list, node)
  PROVE  LInv'
<1>1. PICK changed : changed = insert_head(links, list, node)
  OBVIOUS
<1>2. Change(list, node, changed) /\ disturbed' = (disturbed \/ Disturbs(list, node))
  BY <1>1 DEF InsertHead
<1>3. list \notin destroyed /\ node \notin freed
  BY <1>2 DEF Change
<1>4. ASSUME NEW owner, NEW rank, InOrder(links, freed, destroyed, owner, rank)
      PROVE  Put(links, changed, freed, destroyed, owner, list, node)
  BY <1>1, <1>3, <1>4, InsertHeadPuts
<1> QED BY <1>2, <1>4, PutKeeps

LEMMA InsertTailKeeps ==
  ASSUME LInv, NEW list \in Lists, NEW node \in Nodes, InsertTail(list, node)
  PROVE  LInv'
<1>1. PICK changed : changed = insert_tail(links, list, node)
  OBVIOUS
<1>2. Change(list, node, changed) /\ disturbed' = (disturbed \/ Disturbs(list, node))
  BY <1>1 DEF InsertTail
<1>3. list \notin destroyed /\ node \notin freed
  BY <1>2 DEF Change
<1>4. ASSUME NEW owner, NEW rank, InOrder(links, freed, destroyed, owner, rank)
      PROVE  Put(links, changed, freed, destroyed, owner, list, node)
  BY <1>1, <1>3, <1>4, InsertTailPuts
<1> QED BY <1>2, <1>4, PutKeeps

LEMMA BeginKeeps ==
  ASSUME LInv, NEW list \in Lists, Begin(list)
  PROVE  LInv'
<1>1. PICK owner, rank : Sound(owner, rank)
  BY DEF LInv
<1>2. /\ list \notin destroyed /\ iterated' = list /\ curr_node' = begin(links, list)
      /\ changes' = 0 /\ disturbed' = FALSE /\ UNCHANGED <<links, destroyed, freed>>
  BY DEF Begin
<1>3. begin(links, list) \in InList(links, freed, owner, list)
  BY <1>1, <1>2, LoopReaches DEF Sound
<1>4. Sound(owner, rank)'
  BY <1>1, <1>2, <1>3 DEF Sound
<1>5. curr_node' \in Addresses
  BY <1>2, <1>3 DEF InList
<1>6. changes' \in 0 .. MaxChanges
  BY <1>2, ChangesAssumption
<1>7. TypeOK'
  BY <1>2, <1>5, <1>6 DEF LInv, TypeOK
<1> QED BY <1>4, <1>7 DEF LInv

LEMMA IncrementKeeps ==
  ASSUME LInv, Increment
  PROVE  LInv'
<1>1. PICK owner, rank : Sound(owner, rank)
  BY DEF LInv
<1>2. /\ curr_node # tail(iterated)
      /\ curr_node' = IF curr_node = null THEN null ELSE links.next[curr_node]
      /\ UNCHANGED <<links, destroyed, freed, iterated, changes, disturbed>>
  BY DEF Increment, Looping
<1>3. CASE curr_node = null
  BY <1>1, <1>2, <1>3 DEF LInv, TypeOK, Sound
<1>4. CASE curr_node # null
  <2>1. PICK k, a, b : k = links /\ a = curr_node /\ b = k.next[a]
    OBVIOUS
  <2>2. InOrder(k, freed, destroyed, owner, rank)
    BY <1>1, <2>1 DEF Sound
  <2>3. ASSUME ~disturbed, iterated \notin destroyed
        PROVE  b \in InList(k, freed, owner, iterated)
    <3>1. a \in InList(k, freed, owner, iterated) /\ a # tail(iterated)
      BY <1>1, <1>2, <2>1, <2>3 DEF Sound
    <3>2. iterated \in Lists \ destroyed
      BY <2>3 DEF LInv, TypeOK
    <3> QED BY <2>1, <2>2, <3>1, <3>2, AheadInList
  <2>4. Sound(owner, rank)'
    BY <1>2, <1>4, <2>1, <2>2, <2>3 DEF Sound
  <2>5. b \in Addresses \cup {null}
    BY <1>4, <2>1, <2>2 DEF InOrder, Links, LInv, TypeOK
  <2>6. TypeOK'
    BY <1>2, <1>4, <2>1, <2>5 DEF LInv, TypeOK
  <2> QED BY <2>4, <2>6 DEF LInv
<1> QED BY <1>3, <1>4

LEMMA DestroyKeeps ==
  ASSUME LInv, NEW list \in Lists, Destroy(list)
  PROVE  LInv'
<1>1. PICK owner, rank : Sound(owner, rank)
  BY DEF LInv
<1>2. PICK R : R = Reached(links, head(list))
  OBVIOUS
<1>3. /\ list \notin destroyed
      /\ destroyed' = destroyed \cup {list} /\ freed' = freed \cup R
      /\ UNCHANGED <<links, iterated, curr_node, changes, disturbed>>
  BY <1>2 DEF Destroy
<1>4. InOrder(links, freed, destroyed, owner, rank)
  BY <1>1 DEF Sound
<1>5. InOrder(links, freed \cup R, destroyed \cup {list}, owner, rank)
  BY <1>2, <1>3, <1>4, DestroyInOrder
<1>6. \A a \in R : a \in Addresses \ freed /\ owner[a] = list
  BY <1>2, <1>3, <1>4, DestructorReaches
<1>7. (~disturbed /\ iterated \notin destroyed \cup {list})
        => curr_node \in InList(links, freed \cup R, owner, iterated)
  BY <1>1, <1>6 DEF Sound, InList
<1>8. Sound(owner, rank)'
  BY <1>3, <1>5, <1>7 DEF Sound
<1>9. TypeOK'
  <2>1. links \in Links /\ destroyed' \subseteq Lists /\ freed' \subseteq Addresses
        /\ freed' \cap Sentinels = UNION { {head(l), tail(l)} : l \in destroyed' }
    BY <1>3, <1>5 DEF InOrder
  <2> QED BY <1>3, <2>1 DEF LInv, TypeOK
<1> QED BY <1>8, <1>9 DEF LInv

(* Every call keeps the links in good order.                               *)
THEOREM LinksInOrder == Spec => []LInv
<1>1. ASSUME LInv, [Next]_vars PROVE LInv'
  <2>1. CASE UNCHANGED vars
    BY <1>1, <2>1 DEF vars, LInv, TypeOK, Sound, InOrder
  <2>2. CASE Next
    <3>1. ASSUME NEW list \in Lists, NEW node \in Nodes,
                 Unlink(list, node) \/ InsertHead(list, node) \/ InsertTail(list, node)
          PROVE  LInv'
      BY <1>1, <3>1, UnlinkKeeps, InsertHeadKeeps, InsertTailKeeps
    <3>2. ASSUME NEW list \in Lists, Begin(list) \/ Destroy(list)
          PROVE  LInv'
      BY <1>1, <3>2, BeginKeeps, DestroyKeeps
    <3>3. CASE Increment
      BY <1>1, <3>3, IncrementKeeps
    <3> QED BY <2>2, <3>1, <3>2, <3>3 DEF Next
  <2> QED BY <1>1, <2>1, <2>2
<1> QED BY <1>1, InitialOrder, PTL DEF Spec

(* Every pointer holds the address of a node or a sentinel or is null, and *)
(* exactly the sentinels of the destroyed lists were freed.                *)
THEOREM LinkedListTypes == Spec => []TypeOK
<1>1. LInv => TypeOK
  BY DEF LInv
<1> QED BY <1>1, LinksInOrder, PTL

(* next and prev mirror each other on all that was not freed, so unlink    *)
(* finds the right neighbours whichever list it is called on.              *)
THEOREM LinksMirrored == Spec => []Mirrored
<1>1. LInv => Mirrored
  BY DEF LInv, Sound, InOrder, Paired, Mirrored
<1> QED BY <1>1, LinksInOrder, PTL

(* No node is in two lists and none in a list was freed, for any number of *)
(* lists and nodes: a destructor frees nothing that another list holds.    *)
THEOREM DestructorsFreeTheirOwn == Spec => []ListsApart
<1>1. ASSUME LInv PROVE ListsApart
  <2>1. PICK owner, rank : InOrder(links, freed, destroyed, owner, rank)
    BY <1>1 DEF LInv, Sound
  <2>2. ASSUME NEW list \in Lists \ destroyed
        PROVE  /\ \A a \in Reached(links, head(list)) : a \notin freed /\ owner[a] = list
               /\ tail(list) \in Reached(links, head(list))
    BY <2>1, <2>2, DestructorReaches
  <2> QED BY <2>2 DEF ListsApart
<1> QED BY <1>1, LinksInOrder, PTL

(* A range-for loop never leaves its list as long as its bodies leave the  *)
(* node it stands on in that list, whatever else they change.              *)
THEOREM LoopStaysInItsList == Spec => []LoopKeepsToItsList
<1>1. ASSUME LInv PROVE LoopKeepsToItsList
  <2>1. PICK owner, rank : Sound(owner, rank)
    BY <1>1 DEF LInv
  <2>2. iterated \in Lists
    BY <1>1 DEF LInv, TypeOK
  <2>3. ASSUME ~disturbed, iterated \notin destroyed
        PROVE  curr_node \in Reached(links, begin(links, iterated))
    <3>1. curr_node \in InList(links, freed, owner, iterated)
      BY <2>1, <2>3 DEF Sound
    <3>2. InList(links, freed, owner, iterated) \subseteq Reached(links, begin(links, iterated))
      BY <2>1, <2>2, <2>3, LoopReaches DEF Sound
    <3> QED BY <3>1, <3>2
  <2> QED BY <2>3 DEF LoopKeepsToItsList
<1> QED BY <1>1, LinksInOrder, PTL
===============================================================================
