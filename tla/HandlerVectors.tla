--------------------------- MODULE HandlerVectors ---------------------------
(***************************************************************************)
(* The vectors of QueryHandler (query_handlers.rs) and the strategy that   *)
(* picks from them (RoundRobinStrategy in domain/mod.rs).  Registration    *)
(* appends, disconnection removes every occurrence, and a selection sorts  *)
(* a copy of the vector and takes what follows the first occurrence of the *)
(* client selected last.  One cursor serves all the queries.               *)
(*                                                                         *)
(* HandlerSets is what this implements as long as no vector repeats an id. *)
(***************************************************************************)
EXTENDS Naturals, SequencesExt

CONSTANTS
    ClientIds,      \* naturals, for their order
    QueryIds,
    None,
    Lists,          \* the sequences of queries a registration may declare
    Fresh,          \* a client that registers is in no vector: so it is unless
                    \* it left handlers behind, is still being retracted or
                    \* shares its name, none of which the code prevents
    MaxLength,      \* bound: entries of a vector
    MaxTurns        \* bound: selections of a client counted below

ASSUME ClientsAreOrdered == ClientIds \subseteq Nat /\ None \notin ClientIds
ASSUME ListsTyped == Lists \subseteq Seq(QueryIds)
ASSUME BoundsTyped == Fresh \in BOOLEAN /\ MaxLength \in Nat /\ MaxTurns \in Nat

VARIABLES
    query_handlers, \* [QueryIds -> Seq(ClientIds)]; no entry is <<>>
    last_selected,  \* RoundRobinStrategy.last_selected
    turns           \* history: selections for a query, one after the other, since
                    \* its vector changed or another query was selected for

vars == <<query_handlers, last_selected, turns>>

TypeOK ==
    /\ query_handlers \in [QueryIds -> Seq(ClientIds)]
    /\ last_selected \in ClientIds \cup {None}
    /\ turns \in [QueryIds -> [ClientIds -> 0..MaxTurns]]

NoTurns == [c \in ClientIds |-> 0]

Init ==
    /\ query_handlers = [q \in QueryIds |-> <<>>]
    /\ last_selected = None
    /\ turns = [q \in QueryIds |-> NoTurns]

-----------------------------------------------------------------------------
\* The entries of a vector at the given places, one after the other in an order
\* of these places.
Listing(vector, places, order) ==
    LET Nth(k) == CHOOSE i \in places : Cardinality({j \in places : <<j, i>> \in order}) = k
    IN  [k \in 1..Cardinality(places) |-> vector[Nth(k)]]

\* Vec::sort, which is stable.
ByIdThenPlace(vector) ==
    {p \in (DOMAIN vector) \X (DOMAIN vector) :
        vector[p[1]] < vector[p[2]] \/ (vector[p[1]] = vector[p[2]] /\ p[1] <= p[2])}

Sorted(vector) == Listing(vector, DOMAIN vector, ByIdThenPlace(vector))

\* Vec::retain of everything but c.
ByPlace(vector) == {p \in (DOMAIN vector) \X (DOMAIN vector) : p[1] <= p[2]}

Without(vector, c) ==
    Listing(vector, {i \in DOMAIN vector : vector[i] # c}, ByPlace(vector))

\* Iterator::position, one based and 0 for None.
PositionOf(c, vector) == SelectInSeq(vector, LAMBDA d : d = c)

\* Mutants: the candidate selected last once more, ...
StrategyStays(last, candidates) ==
    LET sorted == Sorted(candidates)
        first == PositionOf(last, sorted)
    IN  IF first = 0 THEN sorted[1] ELSE sorted[((first - 1) % Len(sorted)) + 1]

\* ... and the candidates in the order of their registration.
StrategyUnsorted(last, candidates) ==
    LET first == PositionOf(last, candidates)
    IN  IF first = 0 THEN candidates[1] ELSE candidates[(first % Len(candidates)) + 1]

\* RoundRobinStrategy::next for candidates that are not empty.
StrategyNext(last, candidates) ==
    LET sorted == Sorted(candidates)
        first == PositionOf(last, sorted)
    IN  IF first = 0 THEN sorted[1] ELSE sorted[(first % Len(sorted)) + 1]

Occurrences(list, q) == Cardinality({i \in DOMAIN list : list[i] = q})

\* The vector of q after the client is pushed once for each time q is listed.
Pushed(q, c, list) == query_handlers[q] \o [i \in 1..Occurrences(list, q) |-> c]

TurnsAfter(changed) ==
    turns' = [q \in QueryIds |-> IF changed[q] # query_handlers[q] THEN NoTurns ELSE turns[q]]

CountTurn(q, c) ==
    /\ turns[q][c] < MaxTurns
    /\ turns' = [p \in QueryIds |-> IF p = q THEN [turns[q] EXCEPT ![c] = @ + 1] ELSE NoTurns]

AddClientQueryHandler(c, list) ==
    /\ Fresh => \A q \in QueryIds : c \notin ToSet(query_handlers[q])
    /\ \A q \in QueryIds : Len(Pushed(q, c, list)) <= MaxLength
    /\ query_handlers' = [q \in QueryIds |-> Pushed(q, c, list)]
    /\ TurnsAfter(query_handlers')
    /\ UNCHANGED last_selected

DisconnectClient(c) ==
    /\ query_handlers' = [q \in QueryIds |-> Without(query_handlers[q], c)]
    /\ TurnsAfter(query_handlers')
    /\ UNCHANGED last_selected

\* Mutant: the cursor keeps the index of the client instead of its id.
SelectForQueryByIndex(q) ==
    /\ query_handlers[q] # <<>>
    /\ LET selected == StrategyNext(last_selected, query_handlers[q]) IN
        /\ last_selected' = PositionOf(selected, query_handlers[q]) - 1
        /\ CountTurn(q, selected)
    /\ UNCHANGED query_handlers

\* get_client_id_for_query_id; QueryHandlerNotFound changes nothing.
SelectForQuery(q) ==
    /\ query_handlers[q] # <<>>
    /\ LET selected == StrategyNext(last_selected, query_handlers[q]) IN
        /\ last_selected' = selected
        /\ CountTurn(q, selected)
    /\ UNCHANGED query_handlers

Next ==
    \/ \E c \in ClientIds, list \in Lists : AddClientQueryHandler(c, list)
    \/ \E c \in ClientIds : DisconnectClient(c)
    \/ \E q \in QueryIds : SelectForQuery(q)

Spec == Init /\ [][Next]_vars

-----------------------------------------------------------------------------
\* The load is shared: while the handlers of a query do not change and no other
\* query moves the cursor, each of them is selected as often as any other, give
\* or take one, wherever the cursor stood before (RoundRobinStrategy::next).
FairShare ==
    \A q \in QueryIds : \A a, b \in ToSet(query_handlers[q]) : turns[q][a] <= turns[q][b] + 1

\* The vectors, the pushes and the sorted copies amount to sets, offers and
\* round-robin successors.
Promise == INSTANCE HandlerSets WITH
    handlers <- [q \in QueryIds |-> ToSet(query_handlers[q])]

KeepsPromise == Promise!Spec
=============================================================================
