------------------------- MODULE MCClientRegistry -------------------------
(* Instances of ClientRegistry for TLC. *)
EXTENDS ClientRegistry, TLC

CONSTANTS s1, s2, c1, c2, q1

\* Two streams that compete for a name.
OneName == [s \in Sessions |-> {c1}]

\* A client that reconnects, and may use a second name on its first stream.
TwoNames == (s1 :> {c1, c2}) @@ (s2 :> {c1})
=============================================================================
