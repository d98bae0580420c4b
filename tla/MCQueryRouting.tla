-------------------------- MODULE MCQueryRouting --------------------------
(* Instances of QueryRouting for TLC.                                      *)
EXTENDS QueryRouting

CONSTANTS q1, r1

\* Client 1 asks only.
Servers == [c \in Clients |-> IF c = 1 THEN {} ELSE QueryIds]

\* Clients 1 and 2 use the same id ...
SameId == [c \in Clients |-> IF c \in {1, 2} THEN {r1} ELSE {}]

\* ... or client 1 alone uses it, over and over.
OneAsker == [c \in Clients |-> IF c = 1 THEN {r1} ELSE {}]
=============================================================================
