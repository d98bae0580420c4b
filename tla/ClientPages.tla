----------------------------- MODULE ClientPages -----------------------------
(***************************************************************************)
(* The list of connected clients that the REST interface serves in pages   *)
(* (clients_handler.rs, rest/mod.rs and State::get_connected_clients),     *)
(* read by somebody who follows the links of the pages, next or prev, while*)
(* clients connect and disconnect.  A page holds a slice of the sorted     *)
(* clients: it is modelled as the set of those whose position in the order *)
(* is in the slice.  Ids are naturals, which gives them their order.       *)
(***************************************************************************)
EXTENDS Integers, Sequences, FiniteSets

CONSTANTS
    ClientIds,      \* the ids of the clients, ordered
    MaxOffset,      \* MAX_OFFSET of the handler
    MaxLimit,       \* MAX_LIMIT of the handler
    Asked,          \* bound: the offsets and limits somebody starts with
    MaxChanges,     \* bound: connections and disconnections during a walk
    MaxPages,       \* bound: pages remembered, as many as a walk can have
    None            \* no link

ASSUME ClientIdsOrdered == ClientIds \subseteq Nat /\ IsFiniteSet(ClientIds)
ASSUME MaxTyped == MaxOffset \in Nat /\ MaxLimit \in Nat \ {0}
ASSUME BoundsTyped == Asked \subseteq Nat /\ MaxChanges \in Nat
ASSUME WalksAreRemembered == MaxPages \in Nat /\ MaxPages >= MaxOffset + 2
ASSUME NoneIsNoOffset == None \notin Nat

VARIABLES
    connected_clients,  \* the clients in the registry
    page,               \* what the reader got last
    walk,               \* the link the reader follows
    listed,             \* history: the content of the pages of the walk
    start,              \* history: the clients connected when the walk began
    arrived, left       \* history: who connected and disconnected meanwhile

history == <<start, arrived, left>>
vars == <<connected_clients, page, walk, listed, start, arrived, left>>

Links == Nat \cup {None}

Page == [status: {"ok", "refused"}, offset: Nat, limit: Nat, content: SUBSET ClientIds,
         total_elements: Nat, total_pages: Nat, next: Links, prev: Links]

TypeOK ==
    /\ connected_clients \in SUBSET ClientIds
    /\ page \in Page
    /\ walk \in {"none", "next", "prev"}
    /\ listed \in Seq(SUBSET ClientIds)
    /\ start \in SUBSET ClientIds
    /\ arrived \in SUBSET ClientIds
    /\ left \in SUBSET ClientIds

Refusal(offset, limit) ==
    [status |-> "refused", offset |-> offset, limit |-> limit, content |-> {},
     total_elements |-> 0, total_pages |-> 0, next |-> None, prev |-> None]

Init ==
    /\ connected_clients = {}
    /\ page = Refusal(0, 0)
    /\ walk = "none"
    /\ listed = <<>>
    /\ start = {}
    /\ arrived = {}
    /\ left = {}

-----------------------------------------------------------------------------
(* One page.                                                               *)

\* How many clients come before c in the order.
Position(c, clients) == Cardinality({d \in clients : d < c})

\* Mutants: the slice ends one too early or one too late.
PageContentShort(clients, offset, limit) ==
    {c \in clients : Position(c, clients) >= offset /\ Position(c, clients) < offset + limit - 1}
PageContentLong(clients, offset, limit) ==
    {c \in clients : Position(c, clients) >= offset /\ Position(c, clients) <= offset + limit}

\* The slice start..min(start + limit, total): empty beyond the last client.
PageContent(clients, offset, limit) ==
    {c \in clients : Position(c, clients) >= offset /\ Position(c, clients) < offset + limit}

TotalPages(total, limit) == (total + limit - 1) \div limit

\* Mutant: there is always another page when the last one is full.
NextOffsetOfFullPage(offset, limit, total) ==
    IF offset + limit <= total THEN offset + limit ELSE None

NextOffset(offset, limit, total) ==
    IF offset + limit < total THEN offset + limit ELSE None

\* Mutants: a first page that is not full has no prev link, ...
PrevOffsetOfFullPage(offset, limit) ==
    IF offset >= limit /\ offset > 0 THEN offset - limit ELSE None
\* ... the first page links to itself.
PrevOffsetAlways(offset, limit) ==
    IF offset < limit THEN 0 ELSE offset - limit

\* saturating_sub: the first page may overlap the one it is linked from.
PrevOffset(offset, limit) ==
    IF offset = 0 THEN None
    ELSE IF offset < limit THEN 0 ELSE offset - limit

\* get_clients_page: the clients are read once, under the read lock.
ClientsPage(offset, limit) ==
    LET total == Cardinality(connected_clients)
    IN  IF offset > MaxOffset \/ limit = 0 \/ limit > MaxLimit
        THEN Refusal(offset, limit)
        ELSE [status |-> "ok", offset |-> offset, limit |-> limit,
              content |-> PageContent(connected_clients, offset, limit),
              total_elements |-> total, total_pages |-> TotalPages(total, limit),
              next |-> NextOffset(offset, limit, total), prev |-> PrevOffset(offset, limit)]

-----------------------------------------------------------------------------
(* The reader and the registry.                                            *)

\* A reader asks for any page and decides which links to follow from there.
StartWalk(offset, limit, direction) ==
    /\ walk = "none"
    /\ walk' = direction
    /\ page' = ClientsPage(offset, limit)
    /\ listed' = <<page'.content>>
    /\ start' = connected_clients
    /\ arrived' = {}
    /\ left' = {}
    /\ UNCHANGED connected_clients

Link == IF walk = "next" THEN page.next ELSE page.prev

Follow(link) ==
    /\ page' = ClientsPage(link, page.limit)
    /\ listed' = IF Len(listed) = MaxPages THEN listed ELSE Append(listed, page'.content)
    /\ UNCHANGED <<connected_clients, walk, history>>

FollowNext == walk = "next" /\ page.next # None /\ Follow(page.next)
FollowPrev == walk = "prev" /\ page.prev # None /\ Follow(page.prev)

Walking == walk # "none" /\ Link # None
Ended == walk # "none" /\ Link = None

EndWalk ==
    /\ Ended
    /\ walk' = "none"
    /\ UNCHANGED <<connected_clients, page, listed, history>>

Changes == Cardinality(arrived) + Cardinality(left)

ConnectClient(c) ==
    /\ c \notin connected_clients
    /\ Changes < MaxChanges \/ walk = "none"
    /\ connected_clients' = connected_clients \cup {c}
    /\ arrived' = IF walk = "none" THEN arrived ELSE arrived \cup {c}
    /\ UNCHANGED <<page, walk, listed, start, left>>

DisconnectClient(c) ==
    /\ c \in connected_clients
    /\ Changes < MaxChanges \/ walk = "none"
    /\ connected_clients' = connected_clients \ {c}
    /\ left' = IF walk = "none" THEN left ELSE left \cup {c}
    /\ UNCHANGED <<page, walk, listed, start, arrived>>

Next ==
    \/ \E offset, limit \in Asked, direction \in {"next", "prev"} :
          StartWalk(offset, limit, direction)
    \/ FollowNext
    \/ FollowPrev
    \/ EndWalk
    \/ \E c \in ClientIds : ConnectClient(c) \/ DisconnectClient(c)

Spec == Init /\ [][Next]_vars

-----------------------------------------------------------------------------
(* What a walk along the links shows of the registry.                      *)

Seen == UNION {listed[i] : i \in DOMAIN listed}
Stayed == start \ left

\* The walk is over, and no link led beyond the offsets that are served.
Complete == Ended /\ page.status = "ok"

\* The offset of the first page of the walk, for a walk along next.
FirstOffset == page.offset - (Len(listed) - 1) * page.limit

Before(c, clients) == \E d \in clients : d < c

\* Whoever follows next to its end has seen every client that was not before
\* the first page, unless that client left or one before it did: then a page
\* boundary moves past the client.  Arrivals hide nobody.
NextMissesNobody ==
    Complete /\ walk = "next" =>
        \A c \in Stayed :
            Position(c, start) >= FirstOffset /\ ~Before(c, left) => c \in Seen

\* Along next a client is listed again only if one before it arrived.
NextRepeatsNobody ==
    walk = "next" =>
        \A i, j \in DOMAIN listed : \A c \in listed[i] \cap listed[j] :
            i # j => Before(c, arrived)

\* Along prev it is the arrivals that hide a client: every client before one
\* that was seen is seen too, unless it left or one before it arrived.  The
\* first page may overlap the one after it, but leaves no gap.
PrevMissesNobody ==
    Complete /\ walk = "prev" =>
        \A c \in Stayed :
            (\E d \in Seen \cap Stayed : c < d) /\ ~Before(c, arrived) => c \in Seen

\* While nobody comes or goes, a walk from the first page takes as many pages
\* as total_pages says, and one for an empty registry, and lists everybody in
\* the order of the ids.
TotalPagesIsTrue ==
    Complete /\ walk = "next" /\ FirstOffset = 0 /\ arrived = {} /\ left = {} =>
        /\ page.total_elements = Cardinality(Seen)
        /\ Len(listed) = IF Seen = {} THEN 1 ELSE page.total_pages
        /\ \A i, j \in DOMAIN listed : i < j =>
              \A c \in listed[i], d \in listed[j] : c < d

-----------------------------------------------------------------------------
(* Progress.                                                               *)

\* The reader goes on following the links.
FairSpec == Spec /\ WF_vars(FollowNext) /\ WF_vars(FollowPrev)

\* The links lead to an end, in both directions, whoever comes and goes.
WalkEnds == Walking ~> Ended
=============================================================================
