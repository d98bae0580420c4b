------------------------- MODULE MCHandlerVectors -------------------------
(* Instances of HandlerVectors for TLC. *)
EXTENDS HandlerVectors

CONSTANTS q1, q2

\* Registrations that list a query at most once.
ListsOnce == {l \in BoundedSeq(QueryIds, Cardinality(QueryIds)) : IsInjective(l)}
=============================================================================
