-------------------------- MODULE ClientPagesProofs --------------------------
(* Proofs about ClientPages, for any ids, limits and bounds. *)
EXTENDS ClientPages, FiniteSetTheorems, TLAPS

\* Every page that is served has links and counts that are naturals: no offset
\* goes below zero and no division is by zero.
LEMMA PageTyped ==
    ASSUME connected_clients \in SUBSET ClientIds,
           NEW offset \in Nat, NEW limit \in Nat
    PROVE  ClientsPage(offset, limit) \in Page
<1> DEFINE total == Cardinality(connected_clients)
<1>1. total \in Nat
    BY ClientIdsOrdered, FS_Subset, FS_CardinalityType
<1>2. CASE offset > MaxOffset \/ limit = 0 \/ limit > MaxLimit
    BY <1>2 DEF ClientsPage, Refusal, Page, Links
<1>3. CASE ~(offset > MaxOffset \/ limit = 0 \/ limit > MaxLimit)
    <2>1. PageContent(connected_clients, offset, limit) \in SUBSET ClientIds
        BY DEF PageContent
    <2>2. TotalPages(total, limit) \in Nat
        <3>1. total + limit - 1 \in Nat /\ limit \in Nat \ {0}
            BY <1>1, <1>3
        <3>2. \A n \in Nat, d \in Nat \ {0} : n \div d \in Nat
            OBVIOUS
        <3> QED
            BY <3>1, <3>2 DEF TotalPages
    <2>3. NextOffset(offset, limit, total) \in Links
        BY <1>1 DEF NextOffset, Links
    <2>4. PrevOffset(offset, limit) \in Links
        BY DEF PrevOffset, Links
    <2> QED
        BY <1>1, <1>3, <2>1, <2>2, <2>3, <2>4 DEF ClientsPage, Page
<1> QED
    BY <1>2, <1>3

\* Nothing is asked yet.
LEMMA InitTypeOK == Init => TypeOK
<1>1. Refusal(0, 0) \in Page
    BY DEF Refusal, Page, Links
<1> QED
    BY <1>1 DEF Init, TypeOK

\* A page that a link leads to is a page.
LEMMA FollowTyped ==
    ASSUME TypeOK, NEW link \in Nat, Follow(link)
    PROVE  TypeOK'
<1>1. page.limit \in Nat
    BY DEF TypeOK, Page
<1>2. page' \in Page
    BY <1>1, PageTyped DEF TypeOK, Follow
<1>3. page'.content \in SUBSET ClientIds
    BY <1>2 DEF Page
<1>4. listed' \in Seq(SUBSET ClientIds)
    BY <1>3 DEF Follow, TypeOK
<1> QED
    BY <1>2, <1>4 DEF Follow, TypeOK, history

\* Types are kept.
LEMMA TypeStep == TypeOK /\ [Next]_vars => TypeOK'
<1> SUFFICES ASSUME TypeOK, [Next]_vars
             PROVE  TypeOK'
    OBVIOUS
<1>1. ASSUME NEW offset \in Asked, NEW limit \in Asked, NEW direction \in {"next", "prev"},
             StartWalk(offset, limit, direction)
      PROVE  TypeOK'
    <2>1. page' \in Page
        BY <1>1, BoundsTyped, PageTyped DEF StartWalk, TypeOK
    <2>2. listed' \in Seq(SUBSET ClientIds)
        BY <1>1, <2>1 DEF StartWalk, Page
    <2> QED
        BY <1>1, <2>1, <2>2 DEF StartWalk, TypeOK
<1>2. CASE FollowNext
    <2>1. page.next \in Nat
        BY <1>2 DEF FollowNext, TypeOK, Page, Links
    <2> QED
        BY <1>2, <2>1, FollowTyped DEF FollowNext
<1>3. CASE FollowPrev
    <2>1. page.prev \in Nat
        BY <1>3 DEF FollowPrev, TypeOK, Page, Links
    <2> QED
        BY <1>3, <2>1, FollowTyped DEF FollowPrev
<1>4. CASE EndWalk
    BY <1>4 DEF EndWalk, TypeOK, history
<1>5. ASSUME NEW c \in ClientIds, ConnectClient(c) \/ DisconnectClient(c)
      PROVE  TypeOK'
    BY <1>5 DEF ConnectClient, DisconnectClient, TypeOK
<1>6. CASE UNCHANGED vars
    BY <1>6 DEF vars, TypeOK
<1> QED
    BY <1>1, <1>2, <1>3, <1>4, <1>5, <1>6 DEF Next

\* For any ids, limits and links, what the endpoint serves is a page: links and
\* counts are naturals, whoever comes and goes between two requests.
THEOREM PagesTypeCorrect == Spec => []TypeOK
BY InitTypeOK, TypeStep, PTL DEF Spec

-----------------------------------------------------------------------------
(* Positions in the order of the clients.                                  *)

\* A position is a natural that falls when clients go, and it is only clients
\* that come before that count.
LEMMA PositionIsMonotone ==
    ASSUME NEW S \in SUBSET ClientIds, NEW T \in SUBSET ClientIds, NEW c,
           \A d \in S : d < c => d \in T
    PROVE  /\ Position(c, S) \in Nat /\ Position(c, T) \in Nat
           /\ Position(c, S) <= Position(c, T)
<1> DEFINE before == {d \in S : d < c}
           within == {d \in T : d < c}
<1>1. IsFiniteSet(within) /\ IsFiniteSet(before)
    BY ClientIdsOrdered, FS_Subset
<1>2. before \subseteq within
    OBVIOUS
<1> QED
    BY <1>1, <1>2, FS_Subset, FS_CardinalityType DEF Position

\* The earlier of two clients has the lower position.
LEMMA PositionIsOrdered ==
    ASSUME NEW S \in SUBSET ClientIds, NEW c \in S, NEW d \in ClientIds, c < d
    PROVE  Position(c, S) < Position(d, S)
<1> DEFINE before == {x \in S : x < c}
           within == {x \in S : x < d}
<1>1. IsFiniteSet(within) /\ IsFiniteSet(within \ {c})
    BY ClientIdsOrdered, FS_Subset
<1>2. c \in within /\ before \subseteq within \ {c}
    <2>1. c \in Nat /\ d \in Nat /\ \A x \in S : x \in Nat
        BY ClientIdsOrdered
    <2>2. \A x \in S : x < c => x < d /\ x # c
        BY <2>1
    <2> QED
        BY <2>2
<1>3. Cardinality(within \ {c}) = Cardinality(within) - 1
    BY <1>1, <1>2, FS_RemoveElement
<1>4. Cardinality(before) <= Cardinality(within \ {c})
    BY <1>1, <1>2, FS_Subset
<1>5. Cardinality(before) \in Nat /\ Cardinality(within) \in Nat
    BY <1>1, <1>2, FS_Subset, FS_CardinalityType
<1> QED
    BY <1>3, <1>4, <1>5 DEF Position

\* A client's position is below the number of clients.
LEMMA PositionIsBelowTotal ==
    ASSUME NEW S \in SUBSET ClientIds, NEW c \in S
    PROVE  Position(c, S) < Cardinality(S)
<1> DEFINE before == {x \in S : x < c}
<1>1. IsFiniteSet(S) /\ IsFiniteSet(S \ {c})
    BY ClientIdsOrdered, FS_Subset
<1>2. before \subseteq S \ {c}
    BY ClientIdsOrdered
<1>3. Cardinality(S \ {c}) = Cardinality(S) - 1
    BY <1>1, FS_RemoveElement
<1>4. Cardinality(before) <= Cardinality(S \ {c})
    BY <1>1, <1>2, FS_Subset
<1>5. Cardinality(before) \in Nat /\ Cardinality(S) \in Nat
    BY <1>1, <1>2, FS_Subset, FS_CardinalityType
<1> QED
    BY <1>3, <1>4, <1>5 DEF Position

\* What get_clients_page says of the clients it read.
LEMMA PageSays ==
    ASSUME connected_clients \in SUBSET ClientIds,
           NEW offset \in Nat, NEW limit \in Nat, NEW p, p = ClientsPage(offset, limit)
    PROVE  /\ p.offset = offset /\ p.limit = limit
           /\ \A c \in p.content : /\ c \in connected_clients
                                   /\ Position(c, connected_clients) >= offset
                                   /\ Position(c, connected_clients) < offset + limit
           /\ p.status # "ok" => p.next = None /\ p.prev = None
           /\ p.status = "ok" =>
                /\ limit > 0 /\ offset <= MaxOffset
                /\ \A c \in connected_clients :
                      /\ Position(c, connected_clients) >= offset
                      /\ Position(c, connected_clients) < offset + limit
                      => c \in p.content
                /\ \/ p.next = offset + limit
                   \/ p.next = None /\ \A c \in connected_clients :
                                          Position(c, connected_clients) < offset + limit
                /\ p.prev = PrevOffset(offset, limit)
<1> DEFINE total == Cardinality(connected_clients)
<1>1. CASE offset > MaxOffset \/ limit = 0 \/ limit > MaxLimit
    BY <1>1 DEF ClientsPage, Refusal
<1>2. CASE ~(offset > MaxOffset \/ limit = 0 \/ limit > MaxLimit)
    <2>1. /\ p.offset = offset /\ p.limit = limit /\ p.status = "ok"
          /\ p.content = PageContent(connected_clients, offset, limit)
          /\ p.next = NextOffset(offset, limit, total)
          /\ p.prev = PrevOffset(offset, limit)
        BY <1>2 DEF ClientsPage
    <2>2. limit > 0 /\ offset <= MaxOffset
        BY <1>2, MaxTyped
    <2>3. \/ p.next = offset + limit
          \/ p.next = None /\ total <= offset + limit
        <3>1. total \in Nat
            BY ClientIdsOrdered, FS_Subset, FS_CardinalityType
        <3>2. p.next = IF offset + limit < total THEN offset + limit ELSE None
            BY <2>1 DEF NextOffset
        <3> HIDE DEF total
        <3>3. CASE offset + limit < total
            BY <3>2, <3>3
        <3>4. CASE ~(offset + limit < total)
            <4>1. p.next = None
                BY <3>2, <3>4
            <4>2. total <= offset + limit
                BY <3>1, <3>4
            <4> QED
                BY <4>1, <4>2
        <3> QED
            BY <3>3, <3>4
    <2>4. \A c \in connected_clients : /\ Position(c, connected_clients) < total
                                       /\ Position(c, connected_clients) \in Nat
                                       /\ total \in Nat
        BY PositionIsBelowTotal, PositionIsMonotone, ClientIdsOrdered, FS_Subset,
           FS_CardinalityType
    <2> HIDE DEF total
    <2> QED
        BY <2>1, <2>2, <2>3, <2>4 DEF PageContent
<1> QED
    BY <1>1, <1>2

-----------------------------------------------------------------------------
(* What holds on the way of a walk.                                        *)

Served == page.status = "ok"
At(c) == Position(c, connected_clients)

\* The page at hand has the links of its offset, and the list room for another.
PageInHand ==
    /\ Served => page.limit > 0 /\ page.offset <= MaxOffset
    /\ Served => page.next \in {None, page.offset + page.limit}
    /\ Served => page.prev = PrevOffset(page.offset, page.limit)
    /\ ~Served => page.next = None /\ page.prev = None
    /\ walk # "none" => Len(listed) >= 1
    /\ walk = "next" /\ Served => Len(listed) <= page.offset + 1
    /\ walk = "prev" /\ Served => Len(listed) + page.offset <= MaxOffset + 1

StayedIsConnected == walk # "none" => Stayed \subseteq connected_clients

\* What was seen along next is behind the walk, unless it was pushed forward.
SeenIsBehind ==
    walk = "next" => \A c \in Seen : \/ Before(c, arrived)
                                     \/ At(c) < page.offset + page.limit

\* What was not seen along next is ahead of it, unless it was pulled back.
UnseenIsAhead ==
    walk = "next" /\ Served =>
        \A c \in Stayed :
            Position(c, start) >= FirstOffset /\ ~Before(c, left) =>
                c \in Seen \/ (page.next # None /\ At(c) >= page.offset + page.limit)

\* And along prev, what was not seen before something seen.
UnseenIsBefore ==
    walk = "prev" /\ Served =>
        \A c \in Stayed :
            (\E d \in Seen \cap Stayed : c < d) /\ ~Before(c, arrived) =>
                c \in Seen \/ (page.prev # None /\ At(c) < page.offset)

WalkInv ==
    /\ TypeOK
    /\ PageInHand
    /\ StayedIsConnected
    /\ SeenIsBehind
    /\ UnseenIsAhead
    /\ UnseenIsBefore
    /\ NextRepeatsNobody

\* Before the first walk there is nothing to say.
LEMMA InitWalk == Init => WalkInv
BY InitTypeOK DEF Init, WalkInv, PageInHand, Served, Refusal, StayedIsConnected, SeenIsBehind,
                  UnseenIsAhead, UnseenIsBefore, NextRepeatsNobody

\* Clients that connect push those after them forward, and no others.
LEMMA ConnectMoves ==
    ASSUME TypeOK, NEW x \in ClientIds, ConnectClient(x), NEW c \in ClientIds
    PROVE  At(c) \in Nat /\ At(c)' \in Nat /\ At(c) <= At(c)' /\ (~(x < c) => At(c)' = At(c))
<1>1. connected_clients \in SUBSET ClientIds /\ connected_clients' \in SUBSET ClientIds
    BY DEF TypeOK, ConnectClient
<1>2. connected_clients' = connected_clients \cup {x}
    BY DEF ConnectClient
<1>3. /\ At(c) \in Nat /\ At(c)' \in Nat /\ At(c) <= At(c)'
    BY <1>1, <1>2, PositionIsMonotone DEF At
<1>4. ~(x < c) => At(c)' <= At(c)
    BY <1>1, <1>2, PositionIsMonotone DEF At
<1> QED
    BY <1>3, <1>4

\* Clients that disconnect pull those after them back, and no others.
LEMMA DisconnectMoves ==
    ASSUME TypeOK, NEW x \in ClientIds, DisconnectClient(x), NEW c \in ClientIds
    PROVE  At(c) \in Nat /\ At(c)' \in Nat /\ At(c)' <= At(c) /\ (~(x < c) => At(c)' = At(c))
<1>1. connected_clients \in SUBSET ClientIds /\ connected_clients' \in SUBSET ClientIds
    BY DEF TypeOK, DisconnectClient
<1>2. connected_clients' = connected_clients \ {x}
    BY DEF DisconnectClient
<1>3. /\ At(c) \in Nat /\ At(c)' \in Nat /\ At(c)' <= At(c)
    BY <1>1, <1>2, PositionIsMonotone DEF At
<1>4. ~(x < c) => At(c) <= At(c)'
    BY <1>1, <1>2, PositionIsMonotone DEF At
<1> QED
    BY <1>3, <1>4

\* Only clients are seen.
LEMMA SeenTyped == TypeOK => Seen \subseteq ClientIds
BY DEF TypeOK, Seen

\* Between two pages the registry changes under the reader.
LEMMA ConnectWalk ==
    ASSUME WalkInv, NEW x \in ClientIds, ConnectClient(x)
    PROVE  WalkInv'
<1>1. TypeOK /\ TypeOK'
    BY TypeStep DEF WalkInv, Next
<1>2. UNCHANGED <<page, walk, listed, start, left>>
    BY DEF ConnectClient
<1>3. /\ connected_clients' = connected_clients \cup {x}
      /\ walk # "none" => arrived' = arrived \cup {x}
    BY DEF ConnectClient
<1>4. Seen \subseteq ClientIds /\ Stayed \subseteq ClientIds
    BY <1>1, SeenTyped DEF Stayed, TypeOK
<1>5. UNCHANGED <<Seen, Stayed, FirstOffset, Served>>
    BY <1>2 DEF Seen, Stayed, FirstOffset, Served
<1>6. PageInHand'
    BY <1>2 DEF WalkInv, PageInHand, Served
<1>7. StayedIsConnected'
    BY <1>2, <1>3, <1>5 DEF WalkInv, StayedIsConnected
<1>8. \A c \in ClientIds : At(c) \in Nat /\ At(c)' \in Nat /\ At(c) <= At(c)'
                           /\ (~(x < c) => At(c)' = At(c))
    BY <1>1, ConnectMoves
<1>9. walk # "none" => \A c \in ClientIds : ~Before(c, arrived') => ~Before(c, arrived) /\ ~(x < c)
    BY <1>3 DEF Before
<1>10. page.offset \in Nat /\ page.limit \in Nat
    BY <1>1 DEF TypeOK, Page
<1>11. SeenIsBehind'
    BY <1>2, <1>4, <1>5, <1>8, <1>9 DEF WalkInv, SeenIsBehind, Before
<1>12. UnseenIsAhead'
    BY <1>2, <1>4, <1>5, <1>8, <1>10 DEF WalkInv, UnseenIsAhead
<1>13. UnseenIsBefore'
    BY <1>2, <1>4, <1>5, <1>8, <1>9 DEF WalkInv, UnseenIsBefore, Before
<1>14. NextRepeatsNobody'
    BY <1>2, <1>3 DEF WalkInv, NextRepeatsNobody, Before
<1> QED
    BY <1>1, <1>6, <1>7, <1>11, <1>12, <1>13, <1>14 DEF WalkInv

\* Who leaves makes a gap for those after it only.
LEMMA DisconnectWalk ==
    ASSUME WalkInv, NEW x \in ClientIds, DisconnectClient(x)
    PROVE  WalkInv'
<1>1. TypeOK /\ TypeOK'
    BY TypeStep DEF WalkInv, Next
<1>2. UNCHANGED <<page, walk, listed, start, arrived>>
    BY DEF DisconnectClient
<1>3. /\ connected_clients' = connected_clients \ {x}
      /\ walk # "none" => left' = left \cup {x}
    BY DEF DisconnectClient
<1>4. Seen \subseteq ClientIds /\ Stayed \subseteq ClientIds
    BY <1>1, SeenTyped DEF Stayed, TypeOK
<1>5. UNCHANGED <<Seen, FirstOffset, Served>>
    BY <1>2 DEF Seen, FirstOffset, Served
<1>6. walk # "none" => Stayed' = Stayed \ {x}
    BY <1>2, <1>3 DEF Stayed
<1>7. PageInHand'
    BY <1>2 DEF WalkInv, PageInHand, Served
<1>8. StayedIsConnected'
    BY <1>2, <1>3, <1>6 DEF WalkInv, StayedIsConnected
<1>9. \A c \in ClientIds : At(c) \in Nat /\ At(c)' \in Nat /\ At(c)' <= At(c)
                           /\ (~(x < c) => At(c)' = At(c))
    BY <1>1, DisconnectMoves
<1>10. walk # "none" => \A c \in ClientIds : ~Before(c, left') => ~Before(c, left) /\ ~(x < c)
    BY <1>3 DEF Before
<1>11. page.offset \in Nat /\ page.limit \in Nat
    BY <1>1 DEF TypeOK, Page
<1>12. SeenIsBehind'
    BY <1>2, <1>4, <1>5, <1>9, <1>11 DEF WalkInv, SeenIsBehind, Before
<1>13. UnseenIsAhead'
    BY <1>2, <1>4, <1>5, <1>6, <1>9, <1>10 DEF WalkInv, UnseenIsAhead
<1>14. UnseenIsBefore'
    BY <1>2, <1>4, <1>5, <1>6, <1>9, <1>11 DEF WalkInv, UnseenIsBefore, Before
<1>15. NextRepeatsNobody'
    BY <1>2 DEF WalkInv, NextRepeatsNobody, Before
<1> QED
    BY <1>1, <1>7, <1>8, <1>12, <1>13, <1>14, <1>15 DEF WalkInv

\* The first page of a walk: every client is before it, on it or after it.
LEMMA StartWalkKeeps ==
    ASSUME WalkInv, NEW offset \in Asked, NEW limit \in Asked, NEW direction \in {"next", "prev"},
           StartWalk(offset, limit, direction)
    PROVE  WalkInv'
<1>1. TypeOK /\ TypeOK'
    BY TypeStep DEF WalkInv, Next
<1>2. /\ walk' = direction /\ page' = ClientsPage(offset, limit) /\ listed' = <<page'.content>>
      /\ start' = connected_clients /\ arrived' = {} /\ left' = {}
      /\ UNCHANGED connected_clients
    BY DEF StartWalk
<1>3. offset \in Nat /\ limit \in Nat /\ connected_clients \in SUBSET ClientIds
    BY <1>1, BoundsTyped DEF TypeOK
<1>4. /\ page'.offset = offset /\ page'.limit = limit
      /\ \A c \in page'.content : c \in connected_clients /\ At(c) >= offset /\ At(c) < offset + limit
      /\ ~Served' => page'.next = None /\ page'.prev = None
      /\ Served' => /\ limit > 0 /\ offset <= MaxOffset
                    /\ \A c \in connected_clients :
                          At(c) >= offset /\ At(c) < offset + limit => c \in page'.content
                    /\ \/ page'.next = offset + limit
                       \/ page'.next = None /\ \A c \in connected_clients : At(c) < offset + limit
                    /\ page'.prev = PrevOffset(offset, limit)
    BY <1>2, <1>3, PageSays DEF Served, At
<1>5. /\ Len(listed') = 1 /\ DOMAIN listed' = {1} /\ listed'[1] = page'.content
      /\ Seen' = page'.content /\ Stayed' = connected_clients /\ FirstOffset' = offset
    <2>1. Len(listed') = 1 /\ DOMAIN listed' = {1} /\ listed'[1] = page'.content
        BY <1>2
    <2>2. Seen' = page'.content
        BY <2>1 DEF Seen
    <2>3. FirstOffset' = page'.offset - (Len(listed') - 1) * page'.limit
        BY DEF FirstOffset
    <2>4. (1 - 1) * limit = 0
        BY <1>3
    <2>5. FirstOffset' = offset
        BY <1>3, <1>4, <2>1, <2>3, <2>4
    <2> QED
        BY <1>2, <2>1, <2>2, <2>5 DEF Stayed
<1>6. PageInHand'
    BY <1>3, <1>4, <1>5, MaxTyped DEF PageInHand
<1>7. \A c \in ClientIds : At(c)' = At(c) /\ At(c) \in Nat
    BY <1>2, <1>3, PositionIsMonotone DEF At
<1>8. StayedIsConnected' /\ NextRepeatsNobody'
    BY <1>2, <1>5 DEF StayedIsConnected, NextRepeatsNobody
<1>9. SeenIsBehind'
    BY <1>3, <1>4, <1>5, <1>7 DEF SeenIsBehind
<1>10. UnseenIsAhead'
    <2>1. ASSUME NEW c \in connected_clients, Served', Position(c, start') >= offset
          PROVE  c \in page'.content \/ (page'.next # None /\ At(c)' >= offset + limit)
        <3>1. At(c) >= offset /\ At(c) \in Nat /\ At(c)' = At(c)
            BY <1>2, <1>3, <1>7, <2>1 DEF At
        <3>2. CASE At(c) < offset + limit
            BY <1>4, <2>1, <3>1, <3>2
        <3>3. CASE At(c) >= offset + limit
            BY <1>3, <1>4, <2>1, <3>1, <3>3, NoneIsNoOffset
        <3> QED
            BY <1>3, <3>1, <3>2, <3>3
    <2> QED
        BY <1>4, <1>5, <2>1 DEF UnseenIsAhead
<1>11. UnseenIsBefore'
    <2>1. ASSUME NEW c \in connected_clients, NEW d \in page'.content, c < d, Served'
          PROVE  c \in page'.content \/ (page'.prev # None /\ At(c)' < offset)
        <3>1. At(c) < At(d) /\ At(d) < offset + limit /\ At(c) \in Nat /\ At(d) \in Nat
              /\ At(c)' = At(c)
            BY <1>3, <1>4, <1>7, <2>1, PositionIsOrdered DEF At
        <3>2. CASE At(c) >= offset
            BY <1>3, <1>4, <2>1, <3>1, <3>2
        <3>3. CASE At(c) < offset
            <4>1. offset # 0 /\ page'.prev \in Nat
                BY <1>3, <1>4, <2>1, <3>1, <3>3 DEF PrevOffset
            <4> QED
                BY <3>1, <3>3, <4>1, NoneIsNoOffset
        <3> QED
            BY <1>3, <3>1, <3>2, <3>3
    <2> QED
        BY <1>4, <1>5, <2>1 DEF UnseenIsBefore
<1> QED
    BY <1>1, <1>6, <1>8, <1>9, <1>10, <1>11 DEF WalkInv

\* A page more at the end of the list: what has been seen, and the pages so far.
LEMMA PageIsAdded ==
    ASSUME TypeOK, NEW link \in Nat, Follow(link), Len(listed) < MaxPages
    PROVE  /\ Len(listed') = Len(listed) + 1
           /\ Seen' = Seen \cup page'.content
           /\ DOMAIN listed' = DOMAIN listed \cup {Len(listed')}
           /\ \A i \in DOMAIN listed : listed'[i] = listed[i]
           /\ listed'[Len(listed')] = page'.content
<1>1. /\ listed \in Seq(SUBSET ClientIds) /\ page.limit \in Nat
      /\ connected_clients \in SUBSET ClientIds
    BY DEF TypeOK, Page
<1>2. page'.content \in SUBSET ClientIds
    BY <1>1, PageTyped DEF Follow, Page
<1>3. listed' = Append(listed, page'.content)
    BY WalksAreRemembered DEF Follow
<1> DEFINE content == page'.content
<1>4. /\ Len(listed') = Len(listed) + 1
      /\ \A i \in 1..Len(listed) : listed'[i] = listed[i]
      /\ listed'[Len(listed) + 1] = content
      /\ DOMAIN listed' = 1..(Len(listed) + 1) /\ DOMAIN listed = 1..Len(listed)
      /\ Len(listed) \in Nat
    BY <1>1, <1>2, <1>3
<1>5. DOMAIN listed' = DOMAIN listed \cup {Len(listed')}
    BY <1>4
<1>6. Seen' = Seen \cup content
    BY <1>4, <1>5 DEF Seen
<1> QED
    BY <1>4, <1>5, <1>6

\* Along next a page begins where the one before it ended.
LEMMA FollowNextKeeps ==
    ASSUME WalkInv, FollowNext
    PROVE  WalkInv'
<1>1. TypeOK /\ TypeOK'
    BY TypeStep DEF WalkInv, Next
<1> DEFINE offset == page.offset
           limit == page.limit
           link == page.offset + page.limit
<1>2. /\ walk = "next" /\ Served /\ page.next = link /\ limit > 0 /\ offset <= MaxOffset
      /\ Len(listed) >= 1 /\ Len(listed) <= offset + 1
    BY DEF FollowNext, WalkInv, PageInHand
<1>3. offset \in Nat /\ limit \in Nat /\ link \in Nat /\ Len(listed) \in Nat
      /\ connected_clients \in SUBSET ClientIds
    BY <1>1 DEF TypeOK, Page
<1>4. Follow(link) /\ Len(listed) < MaxPages
    BY <1>2, <1>3, MaxTyped, WalksAreRemembered DEF FollowNext
<1>5. page' = ClientsPage(link, limit) /\ UNCHANGED <<connected_clients, walk, start, arrived, left>>
    BY <1>4 DEF Follow, history
<1>6. /\ page'.offset = link /\ page'.limit = limit
      /\ \A c \in page'.content : c \in connected_clients /\ At(c) >= link /\ At(c) < link + limit
      /\ ~Served' => page'.next = None /\ page'.prev = None
      /\ Served' => /\ link <= MaxOffset
                    /\ \A c \in connected_clients :
                          At(c) >= link /\ At(c) < link + limit => c \in page'.content
                    /\ \/ page'.next = link + limit
                       \/ page'.next = None /\ \A c \in connected_clients : At(c) < link + limit
                    /\ page'.prev = PrevOffset(link, limit)
    BY <1>3, <1>5, PageSays DEF Served, At
<1>7. /\ Len(listed') = Len(listed) + 1
      /\ Seen' = Seen \cup page'.content
      /\ DOMAIN listed' = DOMAIN listed \cup {Len(listed')}
      /\ \A i \in DOMAIN listed : listed'[i] = listed[i]
      /\ listed'[Len(listed')] = page'.content
    BY <1>1, <1>3, <1>4, PageIsAdded
<1>8. FirstOffset' = FirstOffset
    <2>1. FirstOffset' = link - (Len(listed) + 1 - 1) * limit
        BY <1>6, <1>7 DEF FirstOffset
    <2>2. \A n \in Nat, l \in Nat, o \in Nat : (o + l) - (n + 1 - 1) * l = o - (n - 1) * l
        OBVIOUS
    <2> QED
        BY <1>3, <2>1, <2>2 DEF FirstOffset
<1>9. PageInHand'
    BY <1>2, <1>3, <1>5, <1>6, <1>7 DEF PageInHand
<1>10. \A c \in ClientIds : At(c)' = At(c) /\ At(c) \in Nat
    BY <1>3, <1>5, PositionIsMonotone DEF At
<1>11. Stayed' = Stayed /\ Stayed \subseteq connected_clients
    BY <1>2, <1>5 DEF WalkInv, StayedIsConnected, Stayed
<1>12. StayedIsConnected' /\ UnseenIsBefore'
    BY <1>2, <1>5, <1>11 DEF StayedIsConnected, UnseenIsBefore
<1>13. Seen \subseteq ClientIds
    BY <1>1, SeenTyped
<1>14. \A c \in Seen : Before(c, arrived) \/ At(c) < link
    BY <1>2 DEF WalkInv, SeenIsBehind
<1>15. SeenIsBehind'
    <2>1. \A c \in Seen \cup page'.content : Before(c, arrived) \/ At(c)' < link + limit
        BY <1>2, <1>3, <1>6, <1>10, <1>13, <1>14
    <2> QED
        BY <1>5, <1>6, <1>7, <2>1 DEF SeenIsBehind
<1>16. UnseenIsAhead'
    <2>1. ASSUME NEW c \in Stayed, Served', Position(c, start) >= FirstOffset, ~Before(c, left)
          PROVE  \/ c \in Seen \cup page'.content
                 \/ page'.next # None /\ At(c)' >= link + limit
        <3>1. c \in Seen \/ At(c) >= link
            BY <1>2, <2>1 DEF WalkInv, UnseenIsAhead
        <3>2. c \in connected_clients /\ At(c) \in Nat /\ At(c)' = At(c)
            BY <1>3, <1>10, <1>11
        <3>3. CASE At(c) >= link /\ At(c) < link + limit
            BY <1>6, <2>1, <3>2, <3>3
        <3>4. CASE At(c) >= link + limit
            BY <1>3, <1>6, <2>1, <3>2, <3>4, NoneIsNoOffset
        <3> QED
            BY <1>3, <3>1, <3>2, <3>3, <3>4
    <2> QED
        BY <1>5, <1>6, <1>7, <1>8, <1>11, <2>1 DEF UnseenIsAhead
<1>17. NextRepeatsNobody'
    <2>1. \A c \in Seen \cap page'.content : Before(c, arrived)
        BY <1>3, <1>6, <1>10, <1>13, <1>14
    <2>2. \A i \in DOMAIN listed : listed[i] \subseteq Seen
        BY DEF Seen
    <2> QED
        BY <1>2, <1>5, <1>7, <2>1, <2>2 DEF WalkInv, NextRepeatsNobody
<1> QED
    BY <1>1, <1>9, <1>12, <1>15, <1>16, <1>17 DEF WalkInv

\* Along prev a page reaches the one after it.
LEMMA FollowPrevKeeps ==
    ASSUME WalkInv, FollowPrev
    PROVE  WalkInv'
<1>1. TypeOK /\ TypeOK'
    BY TypeStep DEF WalkInv, Next
<1> DEFINE offset == page.offset
           limit == page.limit
<1>2. /\ walk = "prev" /\ Served /\ page.prev # None /\ page.prev = PrevOffset(offset, limit)
      /\ limit > 0 /\ offset <= MaxOffset
      /\ Len(listed) >= 1 /\ Len(listed) + offset <= MaxOffset + 1
    BY DEF FollowPrev, WalkInv, PageInHand
<1>3. offset \in Nat /\ limit \in Nat /\ Len(listed) \in Nat
      /\ connected_clients \in SUBSET ClientIds
    BY <1>1 DEF TypeOK, Page
<1>4. PICK link \in Nat : page.prev = link /\ link < offset /\ offset <= link + limit
    BY <1>2, <1>3 DEF PrevOffset
<1>5. Follow(link) /\ Len(listed) < MaxPages
    BY <1>2, <1>3, <1>4, MaxTyped, WalksAreRemembered DEF FollowPrev
<1>6. page' = ClientsPage(link, limit) /\ UNCHANGED <<connected_clients, walk, start, arrived, left>>
    BY <1>5 DEF Follow, history
<1>7. /\ page'.offset = link /\ page'.limit = limit
      /\ \A c \in page'.content : c \in connected_clients /\ At(c) >= link /\ At(c) < link + limit
      /\ ~Served' => page'.next = None /\ page'.prev = None
      /\ Served' => /\ link <= MaxOffset
                    /\ \A c \in connected_clients :
                          At(c) >= link /\ At(c) < link + limit => c \in page'.content
                    /\ page'.next \in {None, link + limit}
                    /\ page'.prev = PrevOffset(link, limit)
    BY <1>3, <1>6, PageSays DEF Served, At
<1>8. /\ Len(listed') = Len(listed) + 1
      /\ Seen' = Seen \cup page'.content
    BY <1>1, <1>5, PageIsAdded
<1>9. PageInHand'
    <2>1. Len(listed') >= 1 /\ Len(listed') + link <= MaxOffset + 1
        BY <1>2, <1>3, <1>4, <1>8, MaxTyped
    <2> QED
        BY <1>2, <1>6, <1>7, <2>1 DEF PageInHand
<1>10. \A c \in ClientIds : At(c)' = At(c) /\ At(c) \in Nat
    BY <1>3, <1>6, PositionIsMonotone DEF At
<1>11. Stayed' = Stayed /\ Stayed \subseteq connected_clients
    BY <1>2, <1>6 DEF WalkInv, StayedIsConnected, Stayed
<1>12. StayedIsConnected' /\ UnseenIsAhead' /\ SeenIsBehind' /\ NextRepeatsNobody'
    BY <1>2, <1>6, <1>11 DEF StayedIsConnected, UnseenIsAhead, SeenIsBehind, NextRepeatsNobody
<1>13. UnseenIsBefore'
    <2>1. ASSUME NEW c \in Stayed, NEW d \in (Seen \cup page'.content) \cap Stayed, c < d, Served',
                 ~Before(c, arrived)
          PROVE  \/ c \in Seen \cup page'.content
                 \/ page'.prev # None /\ At(c)' < link
        <3>1. c \in connected_clients /\ d \in ClientIds /\ At(c) \in Nat /\ At(d) \in Nat
              /\ At(c)' = At(c)
            BY <1>3, <1>10, <1>11, <2>1
        <3>2. c \in Seen \/ At(c) < link + limit
            <4>1. CASE d \in Seen
                BY <1>2, <1>3, <1>4, <2>1, <3>1, <4>1 DEF WalkInv, UnseenIsBefore
            <4>2. CASE d \in page'.content
                <5>1. At(c) < At(d)
                    BY <1>3, <2>1, <3>1, PositionIsOrdered DEF At
                <5> QED
                    BY <1>3, <1>7, <3>1, <4>2, <5>1
            <4> QED
                BY <2>1, <4>1, <4>2
        <3>3. CASE At(c) >= link /\ At(c) < link + limit
            BY <1>7, <2>1, <3>1, <3>3
        <3>4. CASE At(c) < link
            <4>1. link # 0 /\ page'.prev \in Nat
                BY <1>3, <1>7, <2>1, <3>1, <3>4 DEF PrevOffset
            <4> QED
                BY <3>1, <3>4, <4>1, NoneIsNoOffset
        <3> QED
            BY <1>3, <3>1, <3>2, <3>3, <3>4
    <2> QED
        BY <1>6, <1>7, <1>8, <1>11, <2>1 DEF UnseenIsBefore
<1> QED
    BY <1>1, <1>9, <1>12, <1>13 DEF WalkInv

\* The invariant is inductive.
LEMMA WalkStep == WalkInv /\ [Next]_vars => WalkInv'
<1> SUFFICES ASSUME WalkInv, [Next]_vars
             PROVE  WalkInv'
    OBVIOUS
<1>1. CASE EndWalk
    <2>1. TypeOK' /\ walk' = "none" /\ UNCHANGED <<page, listed>>
        BY <1>1, TypeStep DEF WalkInv, EndWalk, Next
    <2> QED
        BY <2>1 DEF WalkInv, PageInHand, Served, StayedIsConnected, SeenIsBehind, UnseenIsAhead,
                    UnseenIsBefore, NextRepeatsNobody
<1>2. CASE UNCHANGED vars
    <2>1. UNCHANGED <<connected_clients, page, walk, listed, start, arrived, left>>
        BY <1>2 DEF vars
    <2>2. TypeOK' /\ PageInHand' /\ StayedIsConnected' /\ NextRepeatsNobody'
        BY <2>1 DEF WalkInv, TypeOK, PageInHand, Served, StayedIsConnected, Stayed, NextRepeatsNobody
    <2>3. SeenIsBehind' /\ UnseenIsAhead' /\ UnseenIsBefore'
        BY <2>1 DEF WalkInv, SeenIsBehind, UnseenIsAhead, UnseenIsBefore, Seen, Stayed, At, Served,
                    FirstOffset
    <2> QED
        BY <2>2, <2>3 DEF WalkInv
<1> QED
    BY <1>1, <1>2, StartWalkKeeps, FollowNextKeeps, FollowPrevKeeps, ConnectWalk, DisconnectWalk
    DEF Next

\* Every reachable state satisfies it.
LEMMA WalkAlways == Spec => []WalkInv
BY InitWalk, WalkStep, PTL DEF Spec

\* For any ids, limits and links: who follows the next links of get_clients_page
\* to their end has seen every client from the first page on that stayed, unless
\* one before it left.
THEOREM NextLinksMissNobody == Spec => []NextMissesNobody
<1>1. WalkInv => NextMissesNobody
    BY DEF WalkInv, UnseenIsAhead, NextMissesNobody, Complete, Ended, Link, Served
<1> QED
    BY <1>1, WalkAlways, PTL

\* No two pages along the next links list one client, unless one before it arrived.
THEOREM NextLinksRepeatNobody == Spec => []NextRepeatsNobody
<1>1. WalkInv => NextRepeatsNobody
    BY DEF WalkInv
<1> QED
    BY <1>1, WalkAlways, PTL

\* Though saturating_sub shifts the first page, the prev links skip no client
\* that stayed, unless one before it arrived.
THEOREM PrevLinksMissNobody == Spec => []PrevMissesNobody
<1>1. WalkInv => PrevMissesNobody
    BY DEF WalkInv, UnseenIsBefore, PrevMissesNobody, Complete, Ended, Link, Served
<1> QED
    BY <1>1, WalkAlways, PTL

-----------------------------------------------------------------------------
(* A walk while nobody comes or goes.                                      *)

Total == Cardinality(connected_clients)

\* Every page before the last one has been followed by another.
QuietWalk ==
    walk = "next" /\ arrived = {} /\ left = {} =>
        /\ start = connected_clients
        /\ Seen \subseteq connected_clients
        /\ Served => /\ page.total_elements = Total
                     /\ page.total_pages = TotalPages(Total, page.limit)
                     /\ page.next = NextOffset(page.offset, page.limit, Total)
                     /\ Len(listed) = 1 \/ page.offset < Total
        /\ \A i, j \in DOMAIN listed : i < j =>
              \A c \in listed[i], d \in listed[j] : c < d

\* The counts and the link of a page are those of the clients it was read from.
LEMMA PageCounts ==
    ASSUME NEW offset \in Nat, NEW limit \in Nat, NEW p, p = ClientsPage(offset, limit),
           p.status = "ok"
    PROVE  /\ p.total_elements = Total
           /\ p.total_pages = TotalPages(Total, limit)
           /\ p.next = NextOffset(offset, limit, Total)
<1>1. ~(offset > MaxOffset \/ limit = 0 \/ limit > MaxLimit)
    BY DEF ClientsPage, Refusal
<1> QED
    BY <1>1 DEF ClientsPage, Total

\* The client with the lower position comes first.
LEMMA LowerIsFirst ==
    ASSUME TypeOK, NEW c \in ClientIds, NEW d \in ClientIds, At(c) < At(d)
    PROVE  c < d
<1>1. c \in Nat /\ d \in Nat
    BY ClientIdsOrdered
<1>2. ASSUME d <= c PROVE FALSE
    <2>1. \A x \in ClientIds : x < d => x < c
        BY <1>1, <1>2, ClientIdsOrdered
    <2>2. At(d) <= At(c) /\ At(c) \in Nat /\ At(d) \in Nat
        <3>1. connected_clients \in SUBSET ClientIds
            BY DEF TypeOK
        <3> DEFINE before == {x \in connected_clients : x < d}
                   within == {x \in connected_clients : x < c}
        <3>2. before \subseteq within /\ IsFiniteSet(within) /\ IsFiniteSet(before)
            BY <2>1, <3>1, ClientIdsOrdered, FS_Subset
        <3> QED
            BY <3>2, FS_Subset, FS_CardinalityType DEF At, Position
    <2> QED
        BY <2>2
<1> QED
    BY <1>1, <1>2

\* The first page lists some of the clients there are.
LEMMA QuietStart ==
    ASSUME WalkInv, NEW offset \in Asked, NEW limit \in Asked, NEW direction \in {"next", "prev"},
           StartWalk(offset, limit, direction)
    PROVE  QuietWalk'
<1>1. /\ page' = ClientsPage(offset, limit) /\ listed' = <<page'.content>>
      /\ start' = connected_clients /\ UNCHANGED connected_clients
    BY DEF StartWalk
<1>2. offset \in Nat /\ limit \in Nat /\ connected_clients \in SUBSET ClientIds
    BY BoundsTyped DEF WalkInv, TypeOK
<1>3. page'.content \subseteq connected_clients /\ page'.offset = offset /\ page'.limit = limit
    BY <1>1, <1>2, PageSays
<1>4. Len(listed') = 1 /\ DOMAIN listed' = {1} /\ Seen' = page'.content
    BY <1>1 DEF Seen
<1>5. Total' = Total
    BY <1>1 DEF Total
<1>6. Served' => /\ page'.total_elements = Total
                 /\ page'.total_pages = TotalPages(Total, limit)
                 /\ page'.next = NextOffset(offset, limit, Total)
    BY <1>1, <1>2, PageCounts DEF Served
<1> QED
    BY <1>1, <1>3, <1>4, <1>5, <1>6 DEF QuietWalk

\* The next page adds clients that come after all those seen.
LEMMA QuietFollow ==
    ASSUME WalkInv, QuietWalk, FollowNext
    PROVE  QuietWalk'
<1> DEFINE limit == page.limit
           link == page.offset + page.limit
<1>1. TypeOK /\ walk = "next" /\ Served /\ page.next = link /\ page.next # None
      /\ limit > 0 /\ page.offset <= MaxOffset /\ Len(listed) <= page.offset + 1
    BY DEF FollowNext, WalkInv, PageInHand
<1>2. page.offset \in Nat /\ limit \in Nat /\ link \in Nat /\ Len(listed) \in Nat
      /\ connected_clients \in SUBSET ClientIds
    BY <1>1 DEF TypeOK, Page
<1>3. Follow(link) /\ Len(listed) < MaxPages
    BY <1>1, <1>2, MaxTyped, WalksAreRemembered DEF FollowNext
<1>4. page' = ClientsPage(link, limit) /\ UNCHANGED <<connected_clients, walk, start, arrived, left>>
    BY <1>3 DEF Follow, history
<1>5. /\ Seen' = Seen \cup page'.content
      /\ DOMAIN listed' = DOMAIN listed \cup {Len(listed')}
      /\ \A i \in DOMAIN listed : listed'[i] = listed[i]
      /\ listed'[Len(listed')] = page'.content
      /\ \A i \in DOMAIN listed : i < Len(listed')
    <2>1. \A i \in DOMAIN listed : i \in Nat /\ i <= Len(listed)
        BY <1>1 DEF TypeOK
    <2>2. /\ Len(listed') = Len(listed) + 1
          /\ Seen' = Seen \cup page'.content
          /\ DOMAIN listed' = DOMAIN listed \cup {Len(listed')}
          /\ \A i \in DOMAIN listed : listed'[i] = listed[i]
          /\ listed'[Len(listed')] = page'.content
        BY <1>1, <1>2, <1>3, PageIsAdded
    <2>3. \A i \in DOMAIN listed : i < Len(listed')
        BY <1>2, <2>1, <2>2
    <2> QED
        BY <2>2, <2>3
<1>6. /\ page'.offset = link /\ page'.limit = limit
      /\ \A c \in page'.content : c \in connected_clients /\ At(c) >= link
    BY <1>2, <1>4, PageSays DEF At
<1> SUFFICES ASSUME arrived = {}, left = {}
             PROVE  /\ start = connected_clients
                    /\ Seen' \subseteq connected_clients
                    /\ Served' => /\ page'.total_elements = Total
                                  /\ page'.total_pages = TotalPages(Total, limit)
                                  /\ page'.next = NextOffset(link, limit, Total)
                                  /\ Len(listed') = 1 \/ link < Total
                    /\ \A i, j \in DOMAIN listed' : i < j =>
                          \A c \in listed'[i], d \in listed'[j] : c < d
    BY <1>4, <1>6 DEF QuietWalk, Total
<1>7. start = connected_clients /\ Seen \subseteq connected_clients
    BY <1>1 DEF QuietWalk
<1>8. Served' => /\ page'.total_elements = Total
                 /\ page'.total_pages = TotalPages(Total, limit)
                 /\ page'.next = NextOffset(link, limit, Total)
    BY <1>2, <1>4, PageCounts DEF Served
<1>9. link < Total
    BY <1>1 DEF QuietWalk, NextOffset
<1>10. \A c \in Seen, d \in page'.content : c < d
    <2>1. ASSUME NEW c \in Seen, NEW d \in page'.content PROVE c < d
        <3>1. At(c) < link /\ At(d) >= link /\ c \in ClientIds /\ d \in ClientIds
            BY <1>1, <1>2, <1>6, <1>7 DEF WalkInv, SeenIsBehind, Before
        <3>2. At(c) \in Nat /\ At(d) \in Nat
            BY <1>2, PositionIsMonotone DEF At
        <3> QED
            BY <1>1, <1>2, <3>1, <3>2, LowerIsFirst
    <2> QED
        BY <2>1
<1>11. \A i, j \in DOMAIN listed' : i < j => \A c \in listed'[i], d \in listed'[j] : c < d
    <2>1. \A i \in DOMAIN listed : listed[i] \subseteq Seen
        BY DEF Seen
    <2>2. \A i, j \in DOMAIN listed : i < j => \A c \in listed[i], d \in listed[j] : c < d
        BY <1>1 DEF QuietWalk
    <2>3. \A i \in DOMAIN listed : i \in Nat
        BY <1>1 DEF TypeOK
    <2>4. Len(listed') \in Nat
        BY <1>1, <1>2, <1>3, PageIsAdded
    <2>5. ASSUME NEW i \in DOMAIN listed', NEW j \in DOMAIN listed', i < j,
                 NEW c \in listed'[i], NEW d \in listed'[j]
          PROVE  c < d
        <3>1. i \in DOMAIN listed
            <4>1. i \in DOMAIN listed \/ i = Len(listed')
                BY <1>5
            <4>2. j \in DOMAIN listed \/ j = Len(listed')
                BY <1>5
            <4>3. ASSUME i = Len(listed') PROVE FALSE
                <5>1. CASE j = Len(listed')
                    BY <2>4, <2>5, <4>3, <5>1
                <5>2. CASE j \in DOMAIN listed
                    <6>1. j < Len(listed') /\ j \in Nat
                        BY <1>5, <2>3, <5>2
                    <6> QED
                        BY <2>4, <2>5, <4>3, <6>1
                <5> QED
                    BY <4>2, <5>1, <5>2
            <4> QED
                BY <4>1, <4>3
        <3>2. CASE j \in DOMAIN listed
            BY <1>5, <2>2, <2>5, <3>1, <3>2
        <3>3. CASE j = Len(listed')
            BY <1>5, <1>10, <2>1, <2>5, <3>1, <3>3
        <3> QED
            BY <1>5, <3>2, <3>3
    <2> QED
        BY <2>5
<1>12. Seen' \subseteq connected_clients
    BY <1>5, <1>6, <1>7
<1> QED
    BY <1>7, <1>8, <1>9, <1>11, <1>12

\* The invariant of a quiet walk is inductive.
LEMMA QuietStep == WalkInv /\ QuietWalk /\ [Next]_vars => QuietWalk'
<1> SUFFICES ASSUME WalkInv, QuietWalk, [Next]_vars
             PROVE  QuietWalk'
    OBVIOUS
<1>1. ASSUME NEW c \in ClientIds, ConnectClient(c) \/ DisconnectClient(c)
      PROVE  QuietWalk'
    <2>1. walk' = walk /\ (walk = "next" => arrived' # {} \/ left' # {})
        BY <1>1 DEF ConnectClient, DisconnectClient
    <2> QED
        BY <2>1 DEF QuietWalk
<1>2. CASE FollowPrev \/ EndWalk
    BY <1>2 DEF FollowPrev, Follow, EndWalk, QuietWalk
<1>3. CASE UNCHANGED vars
    BY <1>3 DEF vars, QuietWalk, Seen, Served, Total
<1> QED
    BY <1>1, <1>2, <1>3, QuietStart, QuietFollow DEF Next

\* How often a limit fits into a total, rounded up.
LEMMA CeilingIsUnique ==
    ASSUME NEW total \in Nat, NEW limit \in Nat, limit > 0, NEW pages \in Nat,
           (pages - 1) * limit < total, total <= pages * limit
    PROVE  TotalPages(total, limit) = pages
<1> DEFINE q == (total + limit - 1) \div limit
<1>1. /\ q \in Int /\ q * limit <= total + limit - 1 /\ total + limit - 1 < q * limit + limit
    OBVIOUS
<1>2. (pages - 1) * limit = pages * limit - limit
    OBVIOUS
<1> HIDE DEF q
<1>3. CASE q > pages
    <2>1. (pages + 1) * limit <= q * limit
        BY <1>1, <1>3
    <2>2. (pages + 1) * limit = pages * limit + limit
        OBVIOUS
    <2> QED
        BY <1>1, <2>1, <2>2
<1>4. CASE q < pages
    <2>1. (q + 1) * limit <= pages * limit
        BY <1>1, <1>4
    <2>2. (q + 1) * limit = q * limit + limit
        BY <1>1
    <2> QED
        BY <1>1, <1>2, <2>1, <2>2
<1> QED
    BY <1>1, <1>3, <1>4 DEF TotalPages, q

\* While nobody comes or goes, total_pages is the number of pages that the next
\* links of get_clients_page lead through, and they list everybody in order.
THEOREM TotalPagesAreWalked == Spec => []TotalPagesIsTrue
<1>1. ASSUME WalkInv, QuietWalk, Complete, walk = "next", FirstOffset = 0, arrived = {}, left = {}
      PROVE  /\ page.total_elements = Cardinality(Seen)
             /\ Len(listed) = IF Seen = {} THEN 1 ELSE page.total_pages
             /\ \A i, j \in DOMAIN listed : i < j => \A c \in listed[i], d \in listed[j] : c < d
    <2> DEFINE n == Len(listed)
               offset == page.offset
               limit == page.limit
    <2>1. /\ TypeOK /\ Served /\ page.next = None /\ limit > 0 /\ n >= 1
          /\ connected_clients \in SUBSET ClientIds
          /\ offset \in Nat /\ limit \in Nat /\ n \in Nat
        BY <1>1 DEF WalkInv, PageInHand, Complete, Ended, Link, Served, TypeOK, Page
    <2>2. /\ start = connected_clients /\ Seen \subseteq connected_clients
          /\ page.total_elements = Total /\ page.total_pages = TotalPages(Total, limit)
          /\ page.next = NextOffset(offset, limit, Total)
          /\ n = 1 \/ offset < Total
          /\ \A i, j \in DOMAIN listed : i < j => \A c \in listed[i], d \in listed[j] : c < d
        BY <1>1, <2>1 DEF QuietWalk
    <2>3. Seen = connected_clients
        <3>1. Stayed = connected_clients
            BY <1>1, <2>2 DEF Stayed
        <3>2. \A c \in connected_clients : Position(c, start) >= FirstOffset
            BY <1>1, <2>1, <2>2, PositionIsMonotone
        <3>3. \A c \in connected_clients : c \in Seen
            BY <1>1, <2>1, <3>1, <3>2 DEF WalkInv, UnseenIsAhead, Before
        <3> QED
            BY <2>2, <3>3
    <2>4. Total \in Nat /\ (Total = 0 <=> Seen = {})
        BY <2>1, <2>3, ClientIdsOrdered, FS_Subset, FS_CardinalityType, FS_EmptySet DEF Total
    <2>5. Total <= offset + limit
        BY <2>1, <2>2, <2>4, NoneIsNoOffset DEF NextOffset
    <2>6. offset = (n - 1) * limit /\ offset + limit = n * limit
        <3>1. offset - (n - 1) * limit = 0
            BY <1>1 DEF FirstOffset
        <3>2. (n - 1) * limit \in Int /\ n * limit = (n - 1) * limit + limit
            BY <2>1
        <3> QED
            BY <2>1, <3>1, <3>2
    <2>7. CASE Seen # {}
        <3>1. (n - 1) * limit < Total
            <4>1. CASE n = 1
                BY <2>1, <2>4, <2>7, <4>1
            <4>2. CASE offset < Total
                BY <2>6, <4>2
            <4> QED
                BY <2>2, <4>1, <4>2
        <3>2. TotalPages(Total, limit) = n
            BY <2>1, <2>4, <2>5, <2>6, <3>1, CeilingIsUnique
        <3> QED
            BY <2>2, <2>3, <2>7, <3>2 DEF Total
    <2>8. CASE Seen = {}
        <3>1. n = 1
            BY <2>1, <2>2, <2>4, <2>8
        <3> QED
            BY <2>2, <2>3, <2>8, <3>1 DEF Total
    <2> QED
        BY <2>7, <2>8
<1>2. WalkInv /\ QuietWalk => TotalPagesIsTrue
    BY <1>1 DEF TotalPagesIsTrue
<1>3. Init => QuietWalk
    BY DEF Init, QuietWalk
<1> QED
    BY <1>2, <1>3, QuietStep, WalkAlways, PTL DEF Spec
=============================================================================
