-------------------------- MODULE RoundRobinProofs --------------------------
(***************************************************************************)
(* Facts about the round-robin successor, for any finite or infinite set   *)
(* of candidates.                                                          *)
(***************************************************************************)
EXTENDS RoundRobin, WellFoundedInduction, TLAPS

\* A set of ids that is not empty has a first one.
LEMMA LeastExists ==
  ASSUME NEW S \in SUBSET Nat, S # {}
  PROVE  IsLeast(Least(S), S)
<1>1. \E m \in S : \A n \in S : ~(<<n, m>> \in OpToRel(<, Nat))
  BY NatLessThanWellFounded, WFMin
<1>2. PICK m \in S : \A n \in S : ~(<<n, m>> \in OpToRel(<, Nat))
  BY <1>1
<1>3. ASSUME NEW n \in S
      PROVE  m <= n
  <2>1. ~(<<n, m>> \in OpToRel(<, Nat))
    BY <1>2
  <2>2. ~(n < m)
    BY <2>1, Zenon DEF OpToRel
  <2> QED
    BY <2>2
<1>4. \E k \in S : IsLeast(k, S)
  BY <1>3 DEF IsLeast
<1> QED
  BY <1>4, Zenon DEF Least

\* RoundRobinStrategy::next returns one of its candidates, whatever it selected
\* last: get_client_id_for_query_id never yields ResponderNotFound.
THEOREM NextClientIsCandidate ==
  ASSUME NEW S \in SUBSET Nat, S # {}, NEW last
  PROVE  NextClient(last, S) \in S
<1>1. CASE Later(last, S) # {}
  <2>1. Later(last, S) \in SUBSET Nat /\ Later(last, S) \subseteq S
    BY DEF Later
  <2>2. Least(Later(last, S)) \in Later(last, S)
    BY <1>1, <2>1, LeastExists DEF IsLeast
  <2> QED
    BY <1>1, <2>1, <2>2 DEF NextClient
<1>2. CASE Later(last, S) = {}
  BY <1>2, LeastExists DEF NextClient, IsLeast
<1> QED
  BY <1>1, <1>2

\* No two candidates have the same successor: a rotation leaves nobody out.
THEOREM SuccessorIsInjective ==
  ASSUME NEW S \in SUBSET Nat, NEW a \in S, NEW b \in S,
         NextClient(a, S) = NextClient(b, S)
  PROVE  a = b
<1>1. ASSUME NEW x \in S, NEW y \in S, x < y
      PROVE  NextClient(x, S) # NextClient(y, S)
  <2>1. y \in Later(x, S) /\ Later(x, S) \in SUBSET Nat
    BY <1>1 DEF Later
  <2>2. IsLeast(NextClient(x, S), Later(x, S))
    BY <2>1, LeastExists DEF NextClient
  <2>3. x < NextClient(x, S) /\ NextClient(x, S) <= y
    BY <2>1, <2>2 DEF IsLeast, Later
  <2>4. CASE Later(y, S) # {}
    <3>1. IsLeast(NextClient(y, S), Later(y, S)) /\ Later(y, S) \in SUBSET Nat
      BY <2>4, LeastExists DEF NextClient, Later
    <3>2. y < NextClient(y, S)
      BY <3>1 DEF IsLeast, Later
    <3>3. NextClient(x, S) \in Nat /\ NextClient(y, S) \in Nat
      BY <2>2, <3>1 DEF IsLeast, Later
    <3> QED
      BY <2>3, <3>2, <3>3
  <2>5. CASE Later(y, S) = {}
    <3>1. IsLeast(NextClient(y, S), S)
      BY <2>5, LeastExists DEF NextClient
    <3>2. NextClient(y, S) <= x
      BY <3>1 DEF IsLeast
    <3>3. NextClient(x, S) \in Nat /\ NextClient(y, S) \in Nat
      BY <2>2, <3>1 DEF IsLeast, Later
    <3> QED
      BY <2>3, <3>2, <3>3
  <2> QED
    BY <2>4, <2>5
<1>2. a < b \/ b < a \/ a = b
  OBVIOUS
<1> QED
  BY <1>1, <1>2
=============================================================================
