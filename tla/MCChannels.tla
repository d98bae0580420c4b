----------------------------- MODULE MCChannels -----------------------------
(* Instances of Channels for TLC. *)
EXTENDS Channels, TLC

CONSTANTS a, b, x, y

Msg(kind, to) == [kind |-> kind, to |-> to]
Each(of_a, of_b) == (a :> of_a) @@ (b :> of_b)

\* b asks a, which answers, while a client expires and the request gets too
\* old, ...
AskAndReply ==
    [connected |-> {a, b}, upsets |-> {"expire", "lapse"},
     sends |-> Each({Msg("reply", b)}, {Msg("ask", a)})]

\* ... or the server is to stop.
AskAndStop == [AskAndReply EXCEPT !.upsets = {"signal"}]

\* a has an event broadcast while b registers and a client expires ...
EventAndRegister ==
    [connected |-> {a}, upsets |-> {"expire"},
     sends |-> Each({Msg("event", None)}, {Msg("register", None)})]

\* ... or the server is to stop, ...
EventAndStop == [EventAndRegister EXCEPT !.upsets = {"signal"}]

\* ... and while b asks a.
EventAndAsk ==
    [connected |-> {a, b}, upsets |-> {},
     sends |-> Each({Msg("event", None)}, {Msg("ask", a)})]

\* Two broadcasts at a time.
TwoEvents ==
    [connected |-> {a, b}, upsets |-> {},
     sends |-> Each({Msg("event", None)}, {Msg("event", None)})]

SixPlans ==
    {AskAndReply, AskAndStop, EventAndRegister, EventAndStop, EventAndAsk, TwoEvents}

\* a does not read any more; it expires, and so does the request of b.
AskWithoutReply == {AskAndReply}
=============================================================================
