------------------------ MODULE HandlerVectorsProofs ------------------------
(***************************************************************************)
(* Proofs about HandlerVectors, for any clients, queries and bounds: what  *)
(* sorting, removing and selecting do to a vector of any length, that the  *)
(* load is shared, and that the vectors keep the promise of HandlerSets.   *)
(***************************************************************************)
EXTENDS HandlerVectors, RoundRobinProofs, FiniteSetTheorems

-----------------------------------------------------------------------------
(* Listing the entries of a vector in an order of their places.            *)

TotalOrder(order, places) ==
    /\ \A i, j \in places : <<i, j>> \in order \/ <<j, i>> \in order
    /\ \A i, j \in places : <<i, j>> \in order /\ <<j, i>> \in order => i = j
    /\ \A i, j, k \in places : <<i, j>> \in order /\ <<j, k>> \in order => <<i, k>> \in order

Before(i, places, order) == {j \in places : <<j, i>> \in order}

Rank(i, places, order) == Cardinality(Before(i, places, order))

\* Places are ranked from 1 to their number, no two of them alike, and a lower
\* rank is earlier in the order.
LEMMA RanksCount ==
  ASSUME NEW places, IsFiniteSet(places), NEW order, TotalOrder(order, places)
  PROVE  /\ Cardinality(places) \in Nat
         /\ \A i \in places : Rank(i, places, order) \in 1..Cardinality(places)
         /\ \A i, j \in places : Rank(i, places, order) < Rank(j, places, order) => <<i, j>> \in order
         /\ \A i, j \in places : Rank(i, places, order) = Rank(j, places, order) => i = j
         /\ \A k \in 1..Cardinality(places) : \E i \in places : Rank(i, places, order) = k
<1> DEFINE N == Cardinality(places)
           B(i) == Before(i, places, order)
           rank == [i \in places |-> Rank(i, places, order)]
<1>1. N \in Nat
  BY FS_CardinalityType
<1>2. \A i \in places : /\ i \in B(i) /\ B(i) \in SUBSET places
                        /\ IsFiniteSet(B(i)) /\ Cardinality(B(i)) \in Nat
                        /\ Cardinality(B(i)) <= N
  BY FS_Subset, FS_CardinalityType DEF Before, TotalOrder
<1>3. \A i \in places : Rank(i, places, order) \in 1..N
  <2> TAKE i \in places
  <2>1. Cardinality(B(i)) # 0
    BY <1>2, FS_EmptySet
  <2> HIDE DEF B, N
  <2> QED
    BY <1>1, <1>2, <2>1 DEF Rank, B
<1>4. \A i, j \in places : <<i, j>> \in order => B(i) \subseteq B(j)
  BY DEF Before, TotalOrder
<1>5. \A i, j \in places : <<i, j>> \in order => Rank(i, places, order) <= Rank(j, places, order)
  BY <1>2, <1>4, FS_Subset DEF Rank
<1>6. \A i, j \in places : Rank(i, places, order) < Rank(j, places, order) => <<i, j>> \in order
  <2> TAKE i, j \in places
  <2>1. <<i, j>> \in order \/ <<j, i>> \in order
    BY DEF TotalOrder
  <2>2. <<j, i>> \in order => Rank(j, places, order) <= Rank(i, places, order)
    BY <1>5
  <2>3. Rank(i, places, order) \in Int /\ Rank(j, places, order) \in Int
    BY <1>3, <1>1
  <2> QED
    BY <2>1, <2>2, <2>3
<1>7. \A i, j \in places : <<i, j>> \in order /\ rank[i] = rank[j] => i = j
  <2> SUFFICES ASSUME NEW i \in places, NEW j \in places, <<i, j>> \in order, rank[i] = rank[j]
               PROVE  i = j
    OBVIOUS
  <2>1. Cardinality(B(i)) = Cardinality(B(j))
    BY DEF Rank
  <2>2. B(i) = B(j)
    BY <1>2, <1>4, <2>1, FS_Subset
  <2> QED
    BY <1>2, <2>2 DEF Before, TotalOrder
<1>8. \A i, j \in places : rank[i] = rank[j] => i = j
  BY <1>7 DEF TotalOrder
<1>9. rank \in Injection(places, 1..N)
  <2>1. rank \in [places -> 1..N]
    BY <1>3
  <2> QED
    BY <1>8, <2>1 DEF Injection, IsInjective
<1>10. IsFiniteSet(1..N) /\ Cardinality(1..N) = N
  BY <1>1, FS_Interval
<1>11. rank \in Surjection(places, 1..N)
  BY <1>9, <1>10, FS_Injection
<1>12. \A k \in 1..N : \E i \in places : rank[i] = k
  BY <1>11 DEF Surjection
<1> QED
  BY <1>1, <1>3, <1>6, <1>8, <1>12

\* A listing has every one of the places once, in their order.
LEMMA ListingIsOrdered ==
  ASSUME NEW places, IsFiniteSet(places), NEW order, TotalOrder(order, places), NEW vector
  PROVE  \E p \in Bijection(1..Cardinality(places), places) :
            /\ Listing(vector, places, order) = [k \in 1..Cardinality(places) |-> vector[p[k]]]
            /\ \A k, l \in 1..Cardinality(places) : k < l => <<p[k], p[l]>> \in order
<1> DEFINE N == Cardinality(places)
           Nth(k) == CHOOSE i \in places : Rank(i, places, order) = k
           p == [k \in 1..N |-> Nth(k)]
<1>1. N \in Nat
  BY RanksCount
<1>2. \A k \in 1..N : Nth(k) \in places /\ Rank(Nth(k), places, order) = k
  BY RanksCount
<1>3. p \in [1..N -> places] /\ \A k \in 1..N : Rank(p[k], places, order) = k
  BY <1>2
<1>4. Listing(vector, places, order) = [k \in 1..N |-> vector[p[k]]]
  BY DEF Listing, Rank, Before
<1> HIDE DEF p, N
<1>5. \A k, l \in 1..N : k < l => <<p[k], p[l]>> \in order
  <2> SUFFICES ASSUME NEW k \in 1..N, NEW l \in 1..N, k < l
               PROVE  <<p[k], p[l]>> \in order
    OBVIOUS
  <2>1. p[k] \in places /\ p[l] \in places
    BY <1>3
  <2>2. Rank(p[k], places, order) = k /\ Rank(p[l], places, order) = l
    BY <1>3
  <2>3. Rank(p[k], places, order) < Rank(p[l], places, order)
    BY <2>2
  <2> QED
    BY <2>1, <2>3, RanksCount
<1>6. IsInjective(p)
  BY <1>3 DEF IsInjective
<1>7. \A i \in places : \E k \in 1..N : p[k] = i
  <2> TAKE i \in places
  <2> DEFINE k == Rank(i, places, order)
  <2>1. k \in 1..N
    BY RanksCount DEF N
  <2>2. p[k] \in places /\ Rank(p[k], places, order) = k
    BY <1>3, <2>1
  <2> QED
    BY <2>1, <2>2, RanksCount
<1>8. p \in Bijection(1..N, places)
  BY <1>3, <1>6, <1>7 DEF Bijection, Injection, Surjection
<1> QED
  BY <1>4, <1>5, <1>8 DEF N

-----------------------------------------------------------------------------
(* What the operations do to a vector.                                     *)

\* Sorting keeps the length and the clients of a vector, in ascending order, and
\* strictly so when none occurs twice.
LEMMA SortedVector ==
  ASSUME NEW vector \in Seq(Nat)
  PROVE  LET sorted == Sorted(vector) IN
         /\ sorted \in Seq(Nat) /\ Len(sorted) = Len(vector)
         /\ ToSet(sorted) = ToSet(vector)
         /\ \A k, l \in 1..Len(vector) : k < l => sorted[k] <= sorted[l]
         /\ IsInjective(vector) => \A k, l \in 1..Len(vector) : k < l => sorted[k] < sorted[l]
         /\ \A i, j \in DOMAIN vector : i # j /\ vector[i] = vector[j] =>
               \E k, l \in 1..Len(vector) : k < l /\ sorted[k] = vector[i] /\ sorted[l] = vector[i]
<1> DEFINE n == Len(vector)
           places == 1..n
           order == ByIdThenPlace(vector)
           sorted == Sorted(vector)
<1>1. n \in Nat /\ DOMAIN vector = places /\ vector \in [places -> Nat]
  OBVIOUS
<1>2. IsFiniteSet(places) /\ Cardinality(places) = n
  <2> HIDE DEF n
  <2>1. IsFiniteSet(1..n) /\ Cardinality(1..n) = IF 1 > n THEN 0 ELSE n - 1 + 1
    BY <1>1, FS_Interval
  <2> QED
    BY <1>1, <2>1
<1>3. \A i, j \in places : <<i, j>> \in order <=> vector[i] < vector[j] \/ (vector[i] = vector[j] /\ i <= j)
  BY <1>1 DEF ByIdThenPlace
<1>4. \A i \in places : i \in Nat /\ vector[i] \in Nat
  BY <1>1
<1>5. TotalOrder(order, places)
  <2> HIDE DEF order, places
  <2>1. ASSUME NEW i \in places, NEW j \in places
        PROVE  <<i, j>> \in order \/ <<j, i>> \in order
    BY <1>3, <1>4
  <2>2. ASSUME NEW i \in places, NEW j \in places, <<i, j>> \in order, <<j, i>> \in order
        PROVE  i = j
    BY <1>3, <1>4, <2>2
  <2>3. ASSUME NEW i \in places, NEW j \in places, NEW k \in places,
               <<i, j>> \in order, <<j, k>> \in order
        PROVE  <<i, k>> \in order
    <3>1. vector[i] < vector[j] \/ (vector[i] = vector[j] /\ i <= j)
      BY <1>3, <2>3
    <3>2. vector[j] < vector[k] \/ (vector[j] = vector[k] /\ j <= k)
      BY <1>3, <2>3
    <3>3. vector[i] < vector[k] \/ (vector[i] = vector[k] /\ i <= k)
      BY <1>4, <3>1, <3>2
    <3> QED
      BY <1>3, <3>3
  <2> QED
    BY <2>1, <2>2, <2>3 DEF TotalOrder
<1>6. sorted = Listing(vector, places, order)
  BY <1>1 DEF Sorted
<1> HIDE DEF n, places, order, sorted
<1>7. PICK p \in Bijection(1..n, places) :
        /\ sorted = [k \in 1..n |-> vector[p[k]]]
        /\ \A k, l \in 1..n : k < l => <<p[k], p[l]>> \in order
  BY <1>2, <1>5, <1>6, ListingIsOrdered
<1>8. p \in [1..n -> places] /\ (\A i \in places : \E k \in 1..n : p[k] = i)
      /\ \A k, l \in 1..n : p[k] = p[l] => k = l
  BY DEF Bijection, Injection, Surjection, IsInjective
<1>9. sorted \in Seq(Nat) /\ Len(sorted) = n /\ DOMAIN sorted = 1..n
  BY <1>1, <1>4, <1>7, <1>8
<1>10. ToSet(sorted) = ToSet(vector)
  <2>1. ToSet(sorted) = {vector[p[k]] : k \in 1..n}
    BY <1>7, <1>9 DEF ToSet
  <2>2. ToSet(vector) = {vector[i] : i \in places}
    BY <1>1 DEF ToSet
  <2> QED
    BY <1>8, <2>1, <2>2
<1>11. ASSUME NEW k \in 1..n, NEW l \in 1..n, k < l
       PROVE  /\ sorted[k] <= sorted[l]
              /\ IsInjective(vector) => sorted[k] < sorted[l]
  <2>1. p[k] \in places /\ p[l] \in places
    BY <1>8
  <2>2. p[k] # p[l]
    BY <1>1, <1>8, <1>11
  <2>3. IsInjective(vector) => vector[p[k]] # vector[p[l]]
    BY <1>1, <2>1, <2>2 DEF IsInjective
  <2>4. <<p[k], p[l]>> \in order
    BY <1>7, <1>11
  <2>5. sorted[k] = vector[p[k]] /\ sorted[l] = vector[p[l]]
    BY <1>7
  <2>6. vector[p[k]] < vector[p[l]] \/ vector[p[k]] = vector[p[l]]
    BY <1>3, <2>1, <2>4
  <2>7. vector[p[k]] \in Nat /\ vector[p[l]] \in Nat
    BY <1>4, <2>1
  <2> QED
    BY <2>3, <2>5, <2>6, <2>7
<1>12. ASSUME NEW i \in places, NEW j \in places, i # j, vector[i] = vector[j]
       PROVE  \E k, l \in 1..n : k < l /\ sorted[k] = vector[i] /\ sorted[l] = vector[i]
  <2>1. PICK k \in 1..n : p[k] = i
    BY <1>8
  <2>2. PICK l \in 1..n : p[l] = j
    BY <1>8
  <2>3. sorted[k] = vector[i] /\ sorted[l] = vector[i] /\ k # l
    BY <1>7, <1>12, <2>1, <2>2
  <2>4. k < l \/ l < k
    BY <2>3
  <2> QED
    BY <2>3, <2>4
<1> QED
  BY <1>1, <1>9, <1>10, <1>11, <1>12 DEF n, sorted

\* Removing a client keeps all the others, and none of them twice.
LEMMA WithoutVector ==
  ASSUME NEW Ids, NEW vector \in Seq(Ids), NEW c
  PROVE  /\ Without(vector, c) \in Seq(Ids)
         /\ ToSet(Without(vector, c)) = ToSet(vector) \ {c}
         /\ IsInjective(vector) => IsInjective(Without(vector, c))
<1> DEFINE all == 1..Len(vector)
           places == {i \in all : vector[i] # c}
           n == Cardinality(places)
           order == ByPlace(vector)
           kept == Without(vector, c)
<1>1. Len(vector) \in Nat /\ DOMAIN vector = all /\ vector \in [all -> Ids]
  OBVIOUS
<1>2. places \subseteq all /\ \A i \in all : i \in places <=> vector[i] # c
  OBVIOUS
<1>3. \A i, j \in all : <<i, j>> \in order <=> i <= j
  BY <1>1 DEF ByPlace
<1>4. kept = Listing(vector, places, order)
  BY <1>1 DEF Without
<1>5. IsFiniteSet(all) /\ all \subseteq Nat
  BY <1>1, FS_Interval
<1> HIDE DEF all, places, order, kept
<1>6. IsFiniteSet(places) /\ n \in Nat
  BY <1>2, <1>5, FS_Subset, FS_CardinalityType
<1>7. TotalOrder(order, places)
  BY <1>2, <1>3, <1>5 DEF TotalOrder
<1> HIDE DEF n
<1>8. PICK p \in Bijection(1..n, places) : kept = [k \in 1..n |-> vector[p[k]]]
  BY <1>4, <1>6, <1>7, ListingIsOrdered DEF n
<1>9. p \in [1..n -> places] /\ (\A i \in places : \E k \in 1..n : p[k] = i)
      /\ \A k, l \in 1..n : p[k] = p[l] => k = l
  BY DEF Bijection, Injection, Surjection, IsInjective
<1>10. kept \in Seq(Ids) /\ DOMAIN kept = 1..n
  BY <1>1, <1>2, <1>6, <1>8, <1>9
<1>11. ToSet(kept) = ToSet(vector) \ {c}
  BY <1>1, <1>2, <1>8, <1>9 DEF ToSet
<1>12. IsInjective(vector) => IsInjective(kept)
  BY <1>1, <1>2, <1>8, <1>9 DEF IsInjective
<1> QED
  BY <1>10, <1>11, <1>12 DEF kept

\* A position is the place of the first such entry, or 0 when there is none.
LEMMA PositionIsPlace ==
  ASSUME NEW vector \in Seq(Nat), NEW c
  PROVE  /\ c \in ToSet(vector) =>
               /\ PositionOf(c, vector) \in 1..Len(vector)
               /\ vector[PositionOf(c, vector)] = c
               /\ \A i \in 1..Len(vector) : vector[i] = c => PositionOf(c, vector) <= i
         /\ c \notin ToSet(vector) => PositionOf(c, vector) = 0
<1> DEFINE I == {i \in 1..Len(vector) : vector[i] = c}
<1>1. PositionOf(c, vector) = IF I # {} THEN Min(I) ELSE 0
  BY DEF PositionOf, SelectInSeq
<1>2. c \in ToSet(vector) <=> I # {}
  BY DEF ToSet
<1>3. ASSUME I # {}
      PROVE  Min(I) \in I /\ \A i \in I : Min(I) <= i
  <2>1. I \in SUBSET Nat
    OBVIOUS
  <2>2. \E x \in I : \A y \in I : x <= y
    BY <1>3, <2>1, LeastExists DEF IsLeast
  <2> QED
    BY <2>2 DEF Min
<1> QED
  BY <1>1, <1>2, <1>3

\* The first id of a set is the only one.
LEMMA LeastIsUnique ==
  ASSUME NEW S \in SUBSET Nat, NEW m, IsLeast(m, S)
  PROVE  Least(S) = m
<1>1. S # {} /\ m \in S /\ \A i \in S : m <= i
  BY DEF IsLeast
<1>2. Least(S) \in S /\ \A i \in S : Least(S) <= i
  BY <1>1, LeastExists DEF IsLeast
<1>3. m \in Nat /\ Least(S) \in Nat /\ m <= Least(S) /\ Least(S) <= m
  BY <1>1, <1>2
<1> QED
  BY <1>3

\* The index after a position, back at the first after the last one.
LEMMA NextIndex ==
  ASSUME NEW n \in Nat, NEW i \in 1..n
  PROVE  (i % n) + 1 = IF i = n THEN 1 ELSE i + 1
OBVIOUS

\* RoundRobinStrategy::next takes one of the candidates it is given; when no id
\* occurs twice among them, it is the successor in the set of their ids.
THEOREM StrategyFollowsRotation ==
  ASSUME NEW candidates \in Seq(Nat), candidates # <<>>, NEW last
  PROVE  /\ StrategyNext(last, candidates) \in ToSet(candidates)
         /\ IsInjective(candidates) =>
               StrategyNext(last, candidates) = NextClient(last, ToSet(candidates))
<1> DEFINE n == Len(candidates)
           S == ToSet(candidates)
           sorted == Sorted(candidates)
           first == PositionOf(last, sorted)
           next == StrategyNext(last, candidates)
<1>1. /\ sorted \in Seq(Nat) /\ Len(sorted) = n
      /\ ToSet(sorted) = S
      /\ \A k, l \in 1..n : k < l => sorted[k] <= sorted[l]
      /\ IsInjective(candidates) => \A k, l \in 1..n : k < l => sorted[k] < sorted[l]
  BY SortedVector
<1>2. n \in Nat /\ n > 0 /\ 1 \in 1..n /\ DOMAIN sorted = 1..n
  BY <1>1
<1>3. /\ last \in S => first \in 1..n /\ sorted[first] = last
      /\ last \notin S => first = 0
  BY <1>1, PositionIsPlace
<1>4. next = IF first = 0 THEN sorted[1] ELSE sorted[(first % n) + 1]
  BY <1>1 DEF StrategyNext
<1> HIDE DEF n, sorted, first, next
<1>5. \A k \in 1..n : sorted[k] \in S /\ sorted[k] \in Nat
  <2> TAKE k \in 1..n
  <2>1. sorted[k] \in ToSet(sorted)
    BY <1>2 DEF ToSet
  <2>2. sorted[k] \in Nat
    BY <1>1, <1>2
  <2> QED
    BY <1>1, <2>1, <2>2
<1>6. \A c \in S : \E k \in 1..n : sorted[k] = c
  <2>1. \A c \in ToSet(sorted) : \E k \in 1..n : sorted[k] = c
    BY <1>1 DEF ToSet
  <2> QED
    BY <1>1, <2>1
<1>7. S \in SUBSET Nat
  BY <1>5, <1>6
<1> HIDE DEF S
<1>8. IsLeast(sorted[1], S)
  <2>1. ASSUME NEW k \in 1..n
        PROVE  sorted[1] <= sorted[k]
    <3>1. 1 \in 1..n /\ sorted[1] \in Nat
      BY <1>2, <1>5
    <3>2. CASE k = 1
      BY <3>1, <3>2
    <3>3. CASE 1 < k
      BY <1>1, <3>1, <3>3
    <3> QED
      BY <3>2, <3>3
  <2> QED
    BY <1>2, <1>5, <1>6, <2>1 DEF IsLeast
<1>9. CASE last \notin S
  <2>1. next = sorted[1]
    BY <1>3, <1>4, <1>9
  <2>2. Later(last, S) = {}
    BY <1>9 DEF Later
  <2>3. next = NextClient(last, S)
    BY <1>7, <1>8, <2>1, <2>2, LeastIsUnique DEF NextClient
  <2> QED
    <3>1. next \in S
      BY <1>2, <1>5, <2>1
    <3> QED
      BY <2>3, <3>1 DEF S, next
<1>10. CASE last \in S /\ first = n
  <2>1. next = sorted[1]
    BY <1>2, <1>3, <1>4, <1>10, NextIndex
  <2>2. \A k \in 1..n : sorted[k] <= last
    BY <1>1, <1>3, <1>5, <1>10
  <2>3. Later(last, S) = {}
    <3> SUFFICES ASSUME NEW c \in S, last < c PROVE FALSE
      BY DEF Later
    <3> QED
      BY <1>6, <1>7, <1>10, <2>2
  <2>4. next = NextClient(last, S)
    BY <1>7, <1>8, <2>1, <2>3, LeastIsUnique DEF NextClient
  <2> QED
    <3>1. next \in S
      BY <1>2, <1>5, <2>1
    <3> QED
      BY <2>4, <3>1 DEF S, next
<1>11. CASE last \in S /\ first # n
  <2>1. first \in 1..n /\ first + 1 \in 1..n /\ next = sorted[first + 1]
    <3>1. first \in 1..n /\ first # n
      BY <1>3, <1>11
    <3>2. first # 0 /\ first + 1 \in 1..n
      BY <1>2, <3>1
    <3>3. (first % n) + 1 = first + 1
      BY <1>2, <3>1, NextIndex
    <3> QED
      BY <1>4, <3>1, <3>2, <3>3
  <2>2. ASSUME IsInjective(candidates)
        PROVE  next = NextClient(last, S)
    <3>1. sorted[first + 1] \in Later(last, S)
      BY <1>1, <1>3, <1>5, <1>11, <2>1, <2>2 DEF Later
    <3>2. ASSUME NEW c \in Later(last, S)
          PROVE  sorted[first + 1] <= c
      <4>1. c \in S /\ last < c
        BY DEF Later
      <4>2. PICK k \in 1..n : sorted[k] = c
        BY <1>6, <4>1
      <4>3. sorted[first] \in Nat /\ sorted[first + 1] \in Nat /\ c \in Nat
        BY <1>5, <1>7, <2>1, <4>1
      <4>4. ~(k < first) /\ k # first
        BY <1>1, <1>3, <1>11, <2>1, <4>1, <4>2, <4>3
      <4>5. CASE k = first + 1
        BY <4>2, <4>3, <4>5
      <4>6. CASE first + 1 < k
        BY <1>1, <2>1, <4>2, <4>6
      <4> QED
        BY <2>1, <4>4, <4>5, <4>6
    <3>3. IsLeast(sorted[first + 1], Later(last, S)) /\ Later(last, S) \in SUBSET Nat
      BY <1>7, <3>1, <3>2 DEF IsLeast, Later
    <3> QED
      BY <2>1, <3>1, <3>3, LeastIsUnique DEF NextClient
  <2> QED
    BY <1>5, <2>1, <2>2 DEF S, next
<1> QED
  BY <1>9, <1>10, <1>11

\* The other side of it: while the client selected last is in the vector twice, it
\* is selected again, for its first entry is followed by its second.  A client
\* that lists a query twice gets every request for it once it has got one, as long
\* as no other query moves the cursor.
THEOREM RepeatHoldsCursor ==
  ASSUME NEW candidates \in Seq(Nat), NEW i \in DOMAIN candidates, NEW j \in DOMAIN candidates,
         i # j, candidates[i] = candidates[j]
  PROVE  StrategyNext(candidates[i], candidates) = candidates[i]
<1> DEFINE n == Len(candidates)
           last == candidates[i]
           sorted == Sorted(candidates)
           first == PositionOf(last, sorted)
<1>1. /\ sorted \in Seq(Nat) /\ Len(sorted) = n
      /\ ToSet(sorted) = ToSet(candidates)
      /\ \A k, l \in 1..n : k < l => sorted[k] <= sorted[l]
      /\ \E k, l \in 1..n : k < l /\ sorted[k] = last /\ sorted[l] = last
  BY SortedVector
<1>2. n \in Nat /\ last \in Nat /\ last \in ToSet(candidates)
  BY DEF ToSet
<1>3. /\ first \in 1..n /\ sorted[first] = last
      /\ \A k \in 1..n : sorted[k] = last => first <= k
  BY <1>1, <1>2, PositionIsPlace
<1>4. StrategyNext(last, candidates) =
         IF first = 0 THEN sorted[1] ELSE sorted[(first % n) + 1]
  BY <1>1 DEF StrategyNext
<1> HIDE DEF n, last, sorted, first
<1>5. \A k \in 1..n : sorted[k] \in Nat
  BY <1>1
<1>6. PICK l \in 1..n : first < l /\ sorted[l] = last
  BY <1>1, <1>2, <1>3
<1>7. first # n /\ first # 0 /\ first + 1 \in 1..n /\ (first + 1 = l \/ first + 1 < l)
  BY <1>2, <1>3, <1>6
<1>8. (first % n) + 1 = first + 1
  BY <1>2, <1>3, <1>7, NextIndex
<1>9. sorted[first] <= sorted[first + 1] /\ sorted[first + 1] <= sorted[l]
  <2>1. first < first + 1
    BY <1>2, <1>3
  <2>2. sorted[first] <= sorted[first + 1]
    BY <1>1, <1>3, <1>7, <2>1
  <2>3. CASE first + 1 = l
    BY <1>5, <1>7, <2>2, <2>3
  <2>4. CASE first + 1 < l
    BY <1>1, <1>7, <2>2, <2>4
  <2> QED
    BY <1>7, <2>3, <2>4
<1>10. sorted[first + 1] = last
  BY <1>2, <1>3, <1>5, <1>6, <1>7, <1>9
<1> QED
  BY <1>4, <1>7, <1>8, <1>10 DEF last

-----------------------------------------------------------------------------
(* Types.                                                                  *)

\* A query is counted as often as the registration lists it.
LEMMA OccurrencesCount ==
  ASSUME NEW list \in Seq(QueryIds), NEW q
  PROVE  /\ Occurrences(list, q) \in Nat
         /\ Occurrences(list, q) = 0 <=> q \notin ToSet(list)
         /\ IsInjective(list) => Occurrences(list, q) <= 1
<1> DEFINE I == {i \in DOMAIN list : list[i] = q}
<1>1. DOMAIN list = 1..Len(list) /\ Len(list) \in Nat
  OBVIOUS
<1>2. IsFiniteSet(DOMAIN list) /\ I \in SUBSET DOMAIN list
  BY <1>1, FS_Interval
<1>3. IsFiniteSet(I) /\ Cardinality(I) \in Nat /\ (Cardinality(I) = 0 <=> I = {})
  BY <1>2, FS_Subset, FS_CardinalityType, FS_EmptySet
<1>4. I = {} <=> q \notin ToSet(list)
  BY DEF ToSet
<1>5. ASSUME IsInjective(list), NEW i \in I
      PROVE  I = {i}
  BY <1>5 DEF IsInjective
<1>6. IsInjective(list) => Cardinality(I) <= 1
  BY <1>3, <1>5, FS_Singleton
<1> QED
  BY <1>3, <1>4, <1>6 DEF Occurrences

\* A registration adds its client to the vectors of the queries it lists; no
\* vector repeats it if the client is new and lists no query twice.
LEMMA PushedVector ==
  ASSUME NEW q, query_handlers[q] \in Seq(ClientIds), NEW c \in ClientIds,
         NEW list \in Seq(QueryIds)
  PROVE  /\ Pushed(q, c, list) \in Seq(ClientIds)
         /\ ToSet(Pushed(q, c, list)) =
               ToSet(query_handlers[q]) \cup (IF q \in ToSet(list) THEN {c} ELSE {})
         /\ /\ IsInjective(query_handlers[q])
            /\ c \notin ToSet(query_handlers[q])
            /\ IsInjective(list)
            => IsInjective(Pushed(q, c, list))
<1> DEFINE v == query_handlers[q]
           m == Len(v)
           n == Occurrences(list, q)
           w == Pushed(q, c, list)
<1>1. m \in Nat /\ n \in Nat /\ DOMAIN v = 1..m /\ v \in [1..m -> ClientIds]
  BY OccurrencesCount
<1>2. w = v \o [i \in 1..n |-> c]
  BY DEF Pushed
<1> HIDE DEF n, w
<1>3. [i \in 1..n |-> c] \in Seq(ClientIds) /\ Len([i \in 1..n |-> c]) = n
  BY <1>1
<1>4. w \in Seq(ClientIds) /\ Len(w) = m + n
  BY <1>1, <1>2, <1>3
<1>5. DOMAIN w = 1..(m + n)
  BY <1>4
<1>6. \A i \in 1..m : w[i] = v[i]
  BY <1>1, <1>2, <1>3
<1>7. \A i \in (m + 1)..(m + n) : w[i] = c
  <2> TAKE i \in (m + 1)..(m + n)
  <2>1. i - m \in 1..n /\ i \in 1..(m + n)
    BY <1>1
  <2>2. w[i] = [j \in 1..n |-> c][i - m]
    BY <1>1, <1>2, <1>3, <2>1
  <2> QED
    BY <2>1, <2>2
<1> HIDE DEF v, m
<1>8. \A i \in 1..(m + n) : i \in 1..m \/ i \in (m + 1)..(m + n)
  BY <1>1
<1>9. \A i \in 1..m : i \in 1..(m + n)
  BY <1>1
<1>10. n # 0 => m + 1 \in (m + 1)..(m + n) /\ m + 1 \in 1..(m + n)
  BY <1>1
<1>11. ToSet(v) = {v[i] : i \in 1..m} /\ ToSet(w) = {w[i] : i \in 1..(m + n)}
  BY <1>1, <1>5 DEF ToSet
<1>12. n = 0 => ToSet(w) = ToSet(v)
  BY <1>1, <1>6, <1>11
<1>13. n # 0 => ToSet(w) = ToSet(v) \cup {c}
  BY <1>6, <1>7, <1>8, <1>9, <1>10, <1>11
<1>14. n = 0 <=> q \notin ToSet(list)
  BY OccurrencesCount DEF n
<1>15. ASSUME IsInjective(v), c \notin ToSet(v), IsInjective(list)
       PROVE  IsInjective(w)
  <2>1. n <= 1
    BY <1>15, OccurrencesCount DEF n
  <2>2. \A i \in (m + 1)..(m + n) : i = m + 1
    BY <1>1, <2>1
  <2>3. \A i, j \in 1..m : v[i] = v[j] => i = j
    BY <1>1, <1>15 DEF IsInjective
  <2>4. \A i \in 1..m : v[i] # c
    BY <1>11, <1>15
  <2> QED
    BY <1>5, <1>6, <1>7, <1>8, <2>2, <2>3, <2>4 DEF IsInjective
<1> QED
  BY <1>4, <1>12, <1>13, <1>14, <1>15 DEF v, w

\* Vectors hold ids, which are naturals.
LEMMA VectorsHoldIds ==
  ASSUME TypeOK, NEW q \in QueryIds
  PROVE  /\ query_handlers[q] \in Seq(ClientIds) /\ query_handlers[q] \in Seq(Nat)
         /\ ToSet(query_handlers[q]) \subseteq ClientIds
         /\ query_handlers[q] # <<>> <=> ToSet(query_handlers[q]) # {}
<1>1. query_handlers[q] \in Seq(ClientIds)
  BY DEF TypeOK
<1>2. query_handlers[q] \in Seq(Nat)
  <2>1. ASSUME NEW v \in Seq(ClientIds) PROVE v \in Seq(Nat)
    <3>1. Len(v) \in Nat /\ v \in [1..Len(v) -> ClientIds]
      OBVIOUS
    <3>2. v \in [1..Len(v) -> Nat]
      BY <3>1, ClientsAreOrdered
    <3> QED
      BY <3>1, <3>2
  <2> QED
    BY <1>1, <2>1
<1>3. DOMAIN query_handlers[q] = 1..Len(query_handlers[q]) /\ Len(query_handlers[q]) \in Nat
  BY <1>1
<1>4. \A i \in DOMAIN query_handlers[q] : query_handlers[q][i] \in ClientIds
  BY <1>1
<1>5. query_handlers[q] # <<>> <=> 1 \in DOMAIN query_handlers[q]
  BY <1>1
<1>6. 1 \in DOMAIN query_handlers[q] <=> DOMAIN query_handlers[q] # {}
  BY <1>3
<1> QED
  BY <1>1, <1>2, <1>4, <1>5, <1>6 DEF ToSet

\* What a selection does: the client is one of the vector, and its turn counts.
LEMMA SelectionStep ==
  ASSUME TypeOK, NEW q \in QueryIds, SelectForQuery(q)
  PROVE  /\ last_selected' = StrategyNext(last_selected, query_handlers[q])
         /\ last_selected' \in ToSet(query_handlers[q]) /\ last_selected' \in ClientIds
         /\ CountTurn(q, last_selected') /\ UNCHANGED query_handlers
BY VectorsHoldIds, StrategyFollowsRotation DEF SelectForQuery

LEMMA InitTypeOK == Init => TypeOK
<1> SUFFICES ASSUME Init PROVE TypeOK
  OBVIOUS
<1>1. 0 \in 0..MaxTurns
  BY BoundsTyped
<1> QED
  BY <1>1 DEF Init, TypeOK, NoTurns

\* No step breaks a type.
LEMMA TypeStep == TypeOK /\ [Next]_vars => TypeOK'
<1> SUFFICES ASSUME TypeOK, [Next]_vars PROVE TypeOK'
  OBVIOUS
<1>1. ASSUME query_handlers' \in [QueryIds -> Seq(ClientIds)],
             TurnsAfter(query_handlers'), UNCHANGED last_selected
      PROVE  TypeOK'
  <2>1. NoTurns \in [ClientIds -> 0..MaxTurns]
    BY BoundsTyped DEF NoTurns
  <2> QED
    BY <1>1, <2>1 DEF TypeOK, TurnsAfter
<1>2. ASSUME NEW c \in ClientIds, NEW list \in Lists, AddClientQueryHandler(c, list)
      PROVE  TypeOK'
  <2>1. \A q \in QueryIds : Pushed(q, c, list) \in Seq(ClientIds)
    BY ListsTyped, VectorsHoldIds, PushedVector
  <2> QED
    BY <1>1, <1>2, <2>1 DEF AddClientQueryHandler
<1>3. ASSUME NEW c \in ClientIds, DisconnectClient(c)
      PROVE  TypeOK'
  <2>1. \A q \in QueryIds : Without(query_handlers[q], c) \in Seq(ClientIds)
    BY VectorsHoldIds, WithoutVector
  <2> QED
    BY <1>1, <1>3, <2>1 DEF DisconnectClient
<1>4. ASSUME NEW q \in QueryIds, SelectForQuery(q)
      PROVE  TypeOK'
  <2> DEFINE c == last_selected'
  <2>1. c \in ClientIds /\ CountTurn(q, c) /\ UNCHANGED query_handlers
    BY <1>4, SelectionStep
  <2> HIDE DEF c
  <2>2. turns[q][c] \in 0..MaxTurns /\ turns[q][c] < MaxTurns /\ turns[q] \in [ClientIds -> 0..MaxTurns]
    BY <2>1 DEF TypeOK, CountTurn
  <2>3. turns[q][c] + 1 \in 0..MaxTurns
    BY <2>2, BoundsTyped
  <2>4. [turns[q] EXCEPT ![c] = @ + 1] \in [ClientIds -> 0..MaxTurns]
    BY <2>2, <2>3
  <2>5. NoTurns \in [ClientIds -> 0..MaxTurns]
    BY BoundsTyped DEF NoTurns
  <2> QED
    BY <2>1, <2>4, <2>5 DEF TypeOK, CountTurn, c
<1>5. CASE UNCHANGED vars
  BY <1>5 DEF vars, TypeOK
<1> QED
  BY <1>2, <1>3, <1>4, <1>5 DEF Next

\* Vectors hold clients, the cursor is at a client or at none, and the bound on
\* the turns is kept.
THEOREM VectorsTypeCorrect == Spec => []TypeOK
BY InitTypeOK, TypeStep, PTL DEF Spec

-----------------------------------------------------------------------------
(* The rotation.                                                           *)

\* Clients register under a new id and list a query at most once, as the clients
\* of ClientRegistry do that do not take an id in use.
ListedOnce == Fresh /\ \A list \in Lists : IsInjective(list)

NoRepeats == \A q \in QueryIds : IsInjective(query_handlers[q])

\* From a up to b in the circle of the ids.
Between(a, c, b) == IF a <= b THEN a <= c /\ c <= b ELSE a <= c \/ c <= b

\* Nobody was selected yet, or all of S were selected k times and those from a
\* first one up to the last one once more.
Rotated(count, S, last) ==
    \/ \A c \in S : count[c] = 0
    \/ /\ last \in S
       /\ \E a \in S, k \in Nat :
             \A c \in S : count[c] = IF Between(a, c, last) THEN k + 1 ELSE k

Rotation ==
    \A q \in QueryIds : Rotated(turns[q], ToSet(query_handlers[q]), last_selected)

RotationInv == TypeOK /\ NoRepeats /\ Rotation

\* The successor is a candidate; it is the first one later than the last if there
\* is such a one, and the first one of all if there is none.
LEMMA SuccessorBounds ==
  ASSUME NEW S \in SUBSET Nat, NEW last \in S, NEW n, n = NextClient(last, S)
  PROVE  /\ n \in S
         /\ \/ last < n /\ \A c \in S : last < c => n <= c
            \/ \A c \in S : n <= c /\ c <= last
<1>1. n \in S
  BY NextClientIsCandidate
<1>2. CASE Later(last, S) # {}
  <2>1. IsLeast(n, Later(last, S))
    BY <1>2, LeastExists DEF NextClient, Later
  <2> QED
    BY <1>1, <2>1 DEF IsLeast, Later
<1>3. CASE Later(last, S) = {}
  <2>1. IsLeast(n, S)
    BY <1>3, LeastExists DEF NextClient
  <2>2. \A c \in S : ~(last < c)
    BY <1>3 DEF Later
  <2>3. \A c \in S : c <= last
    BY <2>2
  <2> QED
    BY <1>1, <2>1, <2>3 DEF IsLeast
<1> QED
  BY <1>2, <1>3

\* A turn of the successor goes on with the round, or starts the next one.
LEMMA TurnRotates ==
  ASSUME NEW S \in SUBSET Nat, S # {}, NEW last,
         NEW Ids, S \subseteq Ids, NEW count \in [Ids -> Nat], Rotated(count, S, last)
  PROVE  LET n == NextClient(last, S)
         IN  Rotated([count EXCEPT ![n] = @ + 1], S, n)
<1> DEFINE n == NextClient(last, S)
           after == [count EXCEPT ![n] = @ + 1]
<1>1. n \in S
  BY NextClientIsCandidate
<1>2. \A c \in S : after[c] = (IF c = n THEN count[c] + 1 ELSE count[c]) /\ count[c] \in Nat
  OBVIOUS
<1>3. n \in Nat /\ \A c \in S : c \in Nat
  BY <1>1
<1> HIDE DEF n, after
<1>4. \A c \in S : Between(n, c, n) <=> c = n
  BY <1>3 DEF Between
<1>5. CASE \A c \in S : count[c] = 0
  <2>1. \A c \in S : after[c] = IF Between(n, c, n) THEN 0 + 1 ELSE 0
    BY <1>2, <1>4, <1>5
  <2>2. 0 \in Nat
    OBVIOUS
  <2> QED
    BY <1>1, <2>1, <2>2 DEF Rotated, n, after
<1>6. ASSUME last \in S, NEW a \in S, NEW k \in Nat,
             \A c \in S : count[c] = IF Between(a, c, last) THEN k + 1 ELSE k
      PROVE  Rotated(after, S, n)
  <2>1. \/ last < n /\ \A c \in S : last < c => n <= c
        \/ \A c \in S : n <= c /\ c <= last
    BY <1>6, SuccessorBounds DEF n
  <2>2. a \in Nat /\ last \in Nat
    BY <1>6
  <2>3. CASE n = a
    <3>1. \A c \in S : Between(a, c, last)
      BY <1>3, <1>6, <2>1, <2>2, <2>3 DEF Between
    <3>2. \A c \in S : count[c] = k + 1
      BY <1>6, <3>1
    <3>3. \A c \in S : after[c] = IF Between(n, c, n) THEN (k + 1) + 1 ELSE k + 1
      BY <1>2, <1>4, <3>2
    <3>4. k + 1 \in Nat
      OBVIOUS
    <3> QED
      BY <1>1, <3>3, <3>4 DEF Rotated
  <2>4. CASE n # a
    <3>1. ~Between(a, n, last)
      BY <1>1, <1>3, <1>6, <2>1, <2>2, <2>4 DEF Between
    <3>2. \A c \in S : Between(a, c, n) <=> Between(a, c, last) \/ c = n
      BY <1>1, <1>3, <1>6, <2>1, <2>2, <2>4 DEF Between
    <3>3. \A c \in S : after[c] = IF Between(a, c, n) THEN k + 1 ELSE k
      BY <1>1, <1>2, <1>6, <3>1, <3>2
    <3> QED
      BY <1>1, <1>6, <3>3 DEF Rotated
  <2> QED
    BY <2>3, <2>4
<1> QED
  BY <1>5, <1>6 DEF Rotated, n, after

LEMMA InitRotation == Init => RotationInv
<1> SUFFICES ASSUME Init PROVE RotationInv
  OBVIOUS
<1>1. NoRepeats
  BY DEF Init, NoRepeats, IsInjective
<1>2. Rotation
  BY DEF Init, Rotation, Rotated, ToSet
<1> QED
  BY <1>1, <1>2, InitTypeOK DEF RotationInv

\* Where a vector changes the turns start again, and nothing else changes where
\* it stays.
LEMMA ChangedStartsAgain ==
  ASSUME RotationInv, query_handlers' \in [QueryIds -> Seq(ClientIds)],
         TurnsAfter(query_handlers'), UNCHANGED last_selected
  PROVE  Rotation'
<1> SUFFICES ASSUME NEW q \in QueryIds
             PROVE  Rotated(turns'[q], ToSet(query_handlers'[q]), last_selected')
  BY DEF Rotation
<1>1. turns'[q] = IF query_handlers'[q] # query_handlers[q] THEN NoTurns ELSE turns[q]
  BY DEF TurnsAfter
<1>2. CASE query_handlers'[q] # query_handlers[q]
  <2>1. ToSet(query_handlers'[q]) \subseteq ClientIds
    BY DEF ToSet
  <2> QED
    BY <1>1, <1>2, <2>1 DEF Rotated, NoTurns
<1>3. CASE query_handlers'[q] = query_handlers[q]
  BY <1>1, <1>3 DEF RotationInv, Rotation
<1> QED
  BY <1>2, <1>3

\* A selection moves the rotation on, a change of the vector begins a new one.
LEMMA RotationStep ==
  ASSUME ListedOnce
  PROVE  RotationInv /\ [Next]_vars => RotationInv'
<1> SUFFICES ASSUME RotationInv, [Next]_vars PROVE NoRepeats' /\ Rotation'
  BY TypeStep DEF RotationInv
<1>1. TypeOK /\ TypeOK' /\ query_handlers' \in [QueryIds -> Seq(ClientIds)]
  BY TypeStep DEF RotationInv, TypeOK
<1>2. \A q \in QueryIds : query_handlers[q] \in Seq(ClientIds) /\ IsInjective(query_handlers[q])
  BY <1>1, VectorsHoldIds DEF RotationInv, NoRepeats
<1>3. ASSUME NEW c \in ClientIds, NEW list \in Lists, AddClientQueryHandler(c, list)
      PROVE  NoRepeats' /\ Rotation'
  <2>1. Rotation'
    BY <1>1, <1>3, ChangedStartsAgain DEF AddClientQueryHandler
  <2>2. ASSUME NEW q \in QueryIds PROVE IsInjective(query_handlers'[q])
    <3>1. c \notin ToSet(query_handlers[q]) /\ IsInjective(list) /\ list \in Seq(QueryIds)
      BY <1>3, ListsTyped DEF AddClientQueryHandler, ListedOnce
    <3>2. query_handlers'[q] = Pushed(q, c, list)
      BY <1>3 DEF AddClientQueryHandler
    <3> QED
      BY <1>2, <3>1, <3>2, PushedVector
  <2> QED
    BY <2>1, <2>2 DEF NoRepeats
<1>4. ASSUME NEW c \in ClientIds, DisconnectClient(c)
      PROVE  NoRepeats' /\ Rotation'
  <2>1. Rotation'
    BY <1>1, <1>4, ChangedStartsAgain DEF DisconnectClient
  <2>2. ASSUME NEW q \in QueryIds PROVE IsInjective(query_handlers'[q])
    <3>1. query_handlers'[q] = Without(query_handlers[q], c)
      BY <1>4 DEF DisconnectClient
    <3> QED
      BY <1>2, <3>1, WithoutVector
  <2> QED
    BY <2>1, <2>2 DEF NoRepeats
<1>5. ASSUME NEW q \in QueryIds, SelectForQuery(q)
      PROVE  NoRepeats' /\ Rotation'
  <2> DEFINE S == ToSet(query_handlers[q])
             n == NextClient(last_selected, S)
  <2>1. /\ last_selected' = StrategyNext(last_selected, query_handlers[q])
        /\ CountTurn(q, last_selected') /\ UNCHANGED query_handlers
    BY <1>1, <1>5, SelectionStep
  <2>2. query_handlers[q] # <<>>
    BY <1>5 DEF SelectForQuery
  <2>3. /\ query_handlers[q] \in Seq(Nat)
        /\ S \subseteq ClientIds /\ S \in SUBSET Nat /\ S # {}
    BY <1>1, <2>2, VectorsHoldIds, ClientsAreOrdered
  <2>4. last_selected' = n
    BY <1>2, <2>1, <2>2, <2>3, StrategyFollowsRotation
  <2>5. turns[q] \in [ClientIds -> Nat]
    BY <1>1, BoundsTyped DEF TypeOK
  <2>6. Rotated(turns[q], S, last_selected)
    BY DEF RotationInv, Rotation
  <2>7. Rotated([turns[q] EXCEPT ![n] = @ + 1], S, n)
    BY <2>3, <2>5, <2>6, TurnRotates
  <2>8. ASSUME NEW p \in QueryIds
        PROVE  Rotated(turns'[p], ToSet(query_handlers'[p]), last_selected')
    <3>1. CASE p = q
      <4>1. turns'[q] = [turns[q] EXCEPT ![n] = @ + 1]
        BY <2>1, <2>4 DEF CountTurn
      <4> QED
        BY <2>1, <2>4, <2>7, <3>1, <4>1
    <3>2. CASE p # q
      <4>1. turns'[p] = NoTurns
        BY <2>1, <3>2 DEF CountTurn
      <4>2. ToSet(query_handlers'[p]) \subseteq ClientIds
        BY <1>1, <2>1, VectorsHoldIds
      <4> QED
        BY <4>1, <4>2 DEF Rotated, NoTurns
    <3> QED
      BY <3>1, <3>2
  <2>9. NoRepeats'
    BY <1>2, <2>1 DEF NoRepeats
  <2> QED
    BY <2>8, <2>9 DEF Rotation
<1>6. CASE UNCHANGED vars
  BY <1>6 DEF vars, RotationInv, NoRepeats, Rotation
<1> QED
  BY <1>3, <1>4, <1>5, <1>6 DEF Next

\* So the rotation always is where the cursor says.
LEMMA RotationAlways ==
  ASSUME ListedOnce
  PROVE  Spec => []RotationInv
BY InitRotation, RotationStep, PTL DEF Spec

\* Whatever the vectors were before and wherever the cursor stood, the clients
\* that handle a query are selected equally often, give or take one.
THEOREM LoadIsShared == ListedOnce => (Spec => []FairShare)
<1> SUFFICES ASSUME ListedOnce PROVE Spec => []FairShare
  OBVIOUS
<1>1. RotationInv => FairShare
  <2> SUFFICES ASSUME RotationInv, NEW q \in QueryIds,
                      NEW a \in ToSet(query_handlers[q]), NEW b \in ToSet(query_handlers[q])
               PROVE  turns[q][a] <= turns[q][b] + 1
    BY DEF FairShare
  <2>1. Rotated(turns[q], ToSet(query_handlers[q]), last_selected)
    BY DEF RotationInv, Rotation
  <2>2. CASE turns[q][a] = 0 /\ turns[q][b] = 0
    BY <2>2
  <2>3. ASSUME NEW k \in Nat, turns[q][a] \in {k, k + 1}, turns[q][b] \in {k, k + 1}
        PROVE  turns[q][a] <= turns[q][b] + 1
    BY <2>3
  <2> QED
    BY <2>1, <2>2, <2>3 DEF Rotated
<1> QED
  BY <1>1, RotationAlways, PTL

-----------------------------------------------------------------------------
(* The vectors and the sets.                                               *)

\* Registration is an offer, disconnection a withdrawal, a selection a selection.
LEMMA StepKeepsPromise ==
  ASSUME RotationInv, [Next]_vars
  PROVE  [Promise!Next]_<<[q \in QueryIds |-> ToSet(query_handlers[q])], last_selected>>
<1> DEFINE sets == [q \in QueryIds |-> ToSet(query_handlers[q])]
<1>1. TypeOK
  BY DEF RotationInv
<1>2. ASSUME NEW c \in ClientIds, NEW list \in Lists, AddClientQueryHandler(c, list)
      PROVE  Promise!Next
  <2> DEFINE queries == {q \in QueryIds : q \in ToSet(list)}
  <2>1. ASSUME NEW q \in QueryIds
        PROVE  ToSet(query_handlers'[q]) = IF q \in queries THEN sets[q] \cup {c} ELSE sets[q]
    <3>1. query_handlers'[q] = Pushed(q, c, list)
      BY <1>2 DEF AddClientQueryHandler
    <3>2. query_handlers[q] \in Seq(ClientIds) /\ list \in Seq(QueryIds)
      BY <1>1, ListsTyped, VectorsHoldIds
    <3>3. ToSet(query_handlers'[q]) =
            ToSet(query_handlers[q]) \cup (IF q \in ToSet(list) THEN {c} ELSE {})
      BY <3>1, <3>2, PushedVector
    <3>4. q \in queries <=> q \in ToSet(list)
      OBVIOUS
    <3> HIDE DEF queries
    <3>5. sets[q] = ToSet(query_handlers[q])
      OBVIOUS
    <3> QED
      BY <3>3, <3>4, <3>5
  <2>2. Promise!Offer(c, queries)
    BY <1>2, <2>1 DEF Promise!Offer, AddClientQueryHandler
  <2> QED
    BY <2>2 DEF Promise!Next
<1>3. ASSUME NEW c \in ClientIds, DisconnectClient(c)
      PROVE  Promise!Next
  <2>1. ASSUME NEW q \in QueryIds
        PROVE  ToSet(query_handlers'[q]) = sets[q] \ {c}
    <3>1. query_handlers'[q] = Without(query_handlers[q], c)
      BY <1>3 DEF DisconnectClient
    <3> QED
      BY <1>1, <3>1, VectorsHoldIds, WithoutVector
  <2>2. Promise!Withdraw(c)
    BY <1>3, <2>1 DEF Promise!Withdraw, DisconnectClient
  <2> QED
    BY <2>2 DEF Promise!Next
<1>4. ASSUME NEW q \in QueryIds, SelectForQuery(q)
      PROVE  Promise!Next
  <2>1. query_handlers[q] # <<>> /\ IsInjective(query_handlers[q])
    BY <1>4 DEF SelectForQuery, RotationInv, NoRepeats
  <2>2. query_handlers[q] \in Seq(Nat) /\ sets[q] # {}
    BY <1>1, <2>1, VectorsHoldIds
  <2>3. last_selected' = NextClient(last_selected, sets[q]) /\ UNCHANGED query_handlers
    BY <1>1, <1>4, <2>1, <2>2, SelectionStep, StrategyFollowsRotation
  <2>4. last_selected' = Promise!NextClient(last_selected, sets[q])
    BY <2>3 DEF NextClient, Later, Least, IsLeast, Promise!NextClient, Promise!Later, Promise!Least, Promise!IsLeast
  <2>5. Promise!Select(q)
    BY <2>2, <2>3, <2>4 DEF Promise!Select
  <2> QED
    BY <2>5 DEF Promise!Next
<1>5. CASE UNCHANGED vars
  BY <1>5 DEF vars
<1> QED
  BY <1>2, <1>3, <1>4, <1>5 DEF Next

\* The pushes, the removals and the sorted copies amount to offers, withdrawals
\* and round-robin successors of sets.
THEOREM VectorsKeepPromise == ListedOnce => (Spec => KeepsPromise)
<1> SUFFICES ASSUME ListedOnce PROVE Spec => KeepsPromise
  OBVIOUS
<1>1. Init => Promise!Init
  BY DEF Init, Promise!Init, ToSet
<1>2. RotationInv /\ [Next]_vars
      => [Promise!Next]_<<[q \in QueryIds |-> ToSet(query_handlers[q])], last_selected>>
  BY StepKeepsPromise
<1> QED
  BY <1>1, <1>2, RotationAlways, PTL DEF Spec, KeepsPromise, Promise!Spec
=============================================================================
