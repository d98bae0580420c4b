-------------------------- MODULE MCSourceEvents --------------------------
(* Instances of SourceEvents for TLC. *)
EXTENDS SourceEvents

CONSTANTS s1, s2, c1, c2, e1

\* Every stream may register both names, one after the other.
SharedNames == [s \in Sessions |-> {c1, c2}]

\* One client and one stream.
OneStream == [s \in Sessions |-> {c1}]
=============================================================================
