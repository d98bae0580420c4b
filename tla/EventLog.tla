------------------------------- MODULE EventLog -------------------------------
(***************************************************************************)
(* What the broker promises about source events: a log that only grows,    *)
(* whose n-th entry carries clock n, and deliveries of logged events, each *)
(* at most once to a stream under any of the names it is registered with.  *)
(***************************************************************************)
EXTENDS Naturals, Sequences

CONSTANTS ClientIds, EventIds, Sessions, Clocks

VARIABLES
    log,        \* the events stored
    delivered   \* how often the event of a clock was sent to a stream, by name

Stored == [source: ClientIds, event: EventIds, clock: Clocks]

Init ==
    /\ log = <<>>
    /\ delivered = [x \in Sessions \X ClientIds \X Clocks |-> 0]

Store(e) ==
    /\ e.clock = Len(log) + 1
    /\ log' = Append(log, e)
    /\ UNCHANGED delivered

Deliver(s, c, k) ==
    /\ k \in 1..Len(log)
    /\ delivered[<<s, c, k>>] = 0
    /\ delivered' = [delivered EXCEPT ![<<s, c, k>>] = 1]
    /\ UNCHANGED log

Next ==
    \/ \E e \in Stored : Store(e)
    \/ \E s \in Sessions, c \in ClientIds, k \in Clocks : Deliver(s, c, k)

Spec == Init /\ [][Next]_<<log, delivered>>
=============================================================================
