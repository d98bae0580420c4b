---------------------------- MODULE HandlerSets ----------------------------
(***************************************************************************)
(* What the table of query handlers promises: every query has a set of     *)
(* clients that offer it, a client offers several at once and withdraws    *)
(* from all of them, and a selection takes the round-robin successor among *)
(* those who offer the query now.                                          *)
(***************************************************************************)
EXTENDS RoundRobin

CONSTANTS ClientIds, QueryIds, None

VARIABLES
    handlers,       \* the clients that offer each query
    last_selected   \* the client the last selection took

Init ==
    /\ handlers = [q \in QueryIds |-> {}]
    /\ last_selected = None

Offer(c, queries) ==
    /\ handlers' = [q \in QueryIds |->
                       IF q \in queries THEN handlers[q] \cup {c} ELSE handlers[q]]
    /\ UNCHANGED last_selected

Withdraw(c) ==
    /\ handlers' = [q \in QueryIds |-> handlers[q] \ {c}]
    /\ UNCHANGED last_selected

Select(q) ==
    /\ handlers[q] # {}
    /\ last_selected' = NextClient(last_selected, handlers[q])
    /\ UNCHANGED handlers

Next ==
    \/ \E c \in ClientIds, queries \in SUBSET QueryIds : Offer(c, queries)
    \/ \E c \in ClientIds : Withdraw(c)
    \/ \E q \in QueryIds : Select(q)

Spec == Init /\ [][Next]_<<handlers, last_selected>>
=============================================================================
