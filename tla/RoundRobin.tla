----------------------------- MODULE RoundRobin -----------------------------
(***************************************************************************)
(* RoundRobinStrategy::next (domain/mod.rs) for candidates without         *)
(* repetition: the successor, in the order of the ids, of the client       *)
(* selected last, or the first candidate when that one is not among them   *)
(* or is the last of them.  Ids are naturals, which gives them their       *)
(* order.  HandlerVectors has the same function on the vectors the code    *)
(* keeps, where an id may occur more than once.                            *)
(***************************************************************************)
EXTENDS Naturals

IsLeast(m, S) == m \in S /\ \A n \in S : m <= n
Least(S) == CHOOSE m \in S : IsLeast(m, S)

Later(last, candidates) == {c \in candidates : last \in candidates /\ last < c}

NextClient(last, candidates) ==
    IF Later(last, candidates) # {} THEN Least(Later(last, candidates))
                                    ELSE Least(candidates)
=============================================================================
