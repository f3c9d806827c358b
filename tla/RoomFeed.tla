------------------------------ MODULE RoomFeed ------------------------------
(***************************************************************************)
(* What one browser shows of the auctions of a match: the auction gateway  *)
(* and its Socket.IO rooms, the queries of the room, and the page of       *)
(* apps/web/src/components/auctions/auction-room-view.tsx.                 *)
(*                                                                         *)
(* An auction is committed first and broadcast later, by whoever committed *)
(* it: handlers after their own await, the scheduler after its whole pass. *)
(* outbox holds what is committed and not yet broadcast, in no order.  A   *)
(* socket delivers in order and loses what is on it when it drops; answers *)
(* of HTTP requests come in any order.                                     *)
(*                                                                         *)
(* Money, users and assets are left out: a snapshot of an auction is its   *)
(* version and whether it is still open.  AuctionRoom shows that one       *)
(* auction is open at a time and that a finished one does not change.      *)
(***************************************************************************)
EXTENDS Integers, FiniteSets, Sequences

CONSTANTS
    MaxAuctions,
    MaxVersion,     \* bound on the changes of an auction
    MaxUnderWay,    \* bound on results and messages not delivered, for a commit
    MatchPage,      \* auctions in the answer of match:join
    Slots,          \* requests for a history that may be under way
    IsHost,         \* the page is the host's
    NoAuction

ASSUME RoomFeedAssumption ==
    /\ MaxAuctions \in Nat \ {0}
    /\ MaxVersion \in Nat \ {0}
    /\ MaxUnderWay \in Nat \ {0}
    /\ MatchPage \in Nat \ {0}
    /\ IsHost \in BOOLEAN

Id == 1 .. MaxAuctions
Version == 0 .. MaxVersion
NoId == 0

\* Auctions are numbered in the order of their creation.
Snapshot == [id : Id, version : Version, open : BOOLEAN]

ASSUME NoAuctionAssumption == NoAuction \notin Snapshot

VARIABLES
    row,        \* Auction rows
    outbox,     \* results committed and not yet broadcast
    socket,     \* the page's socket, with both its ends
    load,       \* how far the page's first load got
    shown,      \* auction: the one on display
    list,       \* auctions
    history,    \* the history on display: of which auction, up to which version
    submitting, \* bidSubmitting
    fetch,      \* requests for a history
    call        \* the page's request to nominate, start or cancel

server == <<row, outbox>>
page == <<load, shown, list, history, submitting>>
vars == <<row, outbox, socket, page, fetch, call>>

-----------------------------------------------------------------------------
Join == {"match", "auction"}
Message ==
    [type : Join \cup {"updated", "bid", "exception"},
     auction : Snapshot \cup {NoAuction}, list : SUBSET Snapshot]
Of(type, s) == [type |-> type, auction |-> s, list |-> {}]
ListOf(l) == [type |-> "match", auction |-> NoAuction, list |-> l]
Exception == Of("exception", NoAuction)

\* auction: the one the effect was run for.  asked, read: joins the server has
\* not looked at, and its answers to those whose room is not entered yet.
\* bid: the auction bid for; result: what that bid made of it.
Socket ==
    [auction : Id \cup {NoId}, stage : {"off", "connecting", "live"},
     rooms : SUBSET Join, asked : SUBSET Join, read : SUBSET Message,
     wire : Seq(Message), bid : Id \cup {NoId}, result : Snapshot \cup {NoAuction},
     joinFailed : BOOLEAN]
Connecting(i) ==
    [auction |-> i, stage |-> "connecting", rooms |-> {}, asked |-> {}, read |-> {},
     wire |-> <<>>, bid |-> NoId, result |-> NoAuction, joinFailed |-> FALSE]

\* Every version has an event; a request without events is not answered yet.
Events == 0 .. MaxVersion + 1
History == [id : Id \cup {NoId}, events : Events]
NoHistory == [id |-> NoId, events |-> 0]
HistoryOf(i) == [id |-> i, events |-> row[i].version + 1]

\* tied: asked for by a handler of the socket.
Fetch == [id : Id \cup {NoId}, events : Events, tied : BOOLEAN]
Free == [id |-> NoId, events |-> 0, tied |-> FALSE]
Call == [stage : {"none", "asked", "committed", "answered"}, id : Id \cup {NoId},
         result : Snapshot \cup {NoAuction}]
NoCall == [stage |-> "none", id |-> NoId, result |-> NoAuction]

Rows == {row[i] : i \in Id} \ {NoAuction}
OpenOf(l) == {s \in l : s.open}
Newest(l, n) == {s \in l : Cardinality({x \in l : x.id > s.id}) < n}

\* preferredAuction of a list that has the newest first.
Preferred(l) ==
    LET pool == IF OpenOf(l) # {} THEN OpenOf(l) ELSE l
    IN  IF l = {} THEN NoAuction
        ELSE CHOOSE s \in pool : \A x \in pool : x.id <= s.id

\* upsertAuction.
Upsert(l, s) == {x \in l : x.id # s.id} \cup {s}

ShownId == IF shown = NoAuction THEN NoId ELSE shown.id

-----------------------------------------------------------------------------
(* The server's auctions.                                                  *)

Creations ==
    {[id |-> i, version |-> 0, open |-> TRUE] : i \in
        {j \in Id : /\ OpenOf(Rows) = {}
                    /\ row[j] = NoAuction
                    /\ \A k \in 1 .. j - 1 : row[k] # NoAuction}}

Changes(i) ==
    {s \in Snapshot : /\ row[i] # NoAuction /\ row[i].open
                      /\ s.id = i /\ s.version = row[i].version + 1}

Commit(s) ==
    /\ Cardinality(outbox) + Len(socket.wire) < MaxUnderWay
    /\ row' = [row EXCEPT ![s.id] = s]
    /\ outbox' = outbox \cup {s}

\* Another participant, another page of this one, or the scheduler.
OtherCommit ==
    /\ \E s \in Creations \cup UNION {Changes(i) : i \in Id} : Commit(s)
    /\ UNCHANGED <<socket, page, fetch, call>>

\* The retry of a bid taken before changes nothing, but it is broadcast again.
\* While nothing else is on its way, which bounds the wire.
Replay ==
    /\ outbox = {} /\ socket.wire = <<>>
    /\ \E s \in Rows : s.version > 0 /\ outbox' = {s}
    /\ UNCHANGED <<row, socket, page, fetch, call>>

Sent(s, m) == [s EXCEPT !.wire = Append(@, m)]

\* In either room of the auction a socket gets the broadcast, and gets it once.
Hears(s) ==
    \/ "match" \in socket.rooms
    \/ "auction" \in socket.rooms /\ s.id = socket.auction

Told(s) == IF Hears(s) THEN Sent(socket, Of("updated", s)) ELSE socket

\* Mutant: the handler of a bid returns nothing.
AnsweredNothing(skt, s) ==
    IF skt.result = s THEN [skt EXCEPT !.bid = NoId, !.result = NoAuction] ELSE skt

\* The handler that placed the bid returns its result after broadcasting it.
Answered(skt, s) ==
    IF skt.result = s
      THEN [Sent(skt, Of("bid", s)) EXCEPT !.bid = NoId, !.result = NoAuction]
      ELSE skt

Broadcast(s) ==
    /\ s \in outbox
    /\ outbox' = outbox \ {s}
    /\ socket' = Answered(Told(s), s)
    /\ call' = IF call.stage = "committed" /\ call.result = s
                 THEN [call EXCEPT !.stage = "answered"] ELSE call
    /\ UNCHANGED <<row, page, fetch>>

-----------------------------------------------------------------------------
(* The gateway.                                                            *)

\* A socket is authenticated, and the page asks to join on auction:ready.
Connect ==
    /\ socket.stage = "connecting"
    /\ socket' = [socket EXCEPT !.stage = "live",
                     !.asked = IF socket.auction = NoId THEN {"match"} ELSE Join]
    /\ UNCHANGED <<server, page, fetch, call>>

\* joinMatch and joinAuction read first.
LookUp(type) ==
    /\ type \in socket.asked
    /\ socket' = [socket EXCEPT
           !.asked = @ \ {type},
           !.read = @ \cup {IF type = "match" THEN ListOf(Newest(Rows, MatchPage))
                            ELSE Of("auction", row[socket.auction])}]
    /\ UNCHANGED <<server, page, fetch, call>>

\* Then they enter the room and acknowledge with what they read.
EnterRoom(m) ==
    /\ m \in socket.read
    /\ socket' = [Sent(socket, m) EXCEPT !.read = @ \ {m}, !.rooms = @ \cup {m.type}]
    /\ UNCHANGED <<server, page, fetch, call>>

\* A query of a join fails.
FailJoin(type) ==
    /\ type \in socket.asked
    /\ socket' = [Sent(socket, Exception) EXCEPT !.asked = @ \ {type},
                                                 !.joinFailed = TRUE]
    /\ UNCHANGED <<server, page, fetch, call>>

BidWaits == socket.bid # NoId /\ socket.result = NoAuction

AcceptBid ==
    /\ BidWaits
    /\ \E s \in Changes(socket.bid) :
           /\ s.open
           /\ Commit(s)
           /\ socket' = [socket EXCEPT !.result = s]
    /\ UNCHANGED <<page, fetch, call>>

\* By the rate limiter, by placeBid, or by a failure.
RefuseBid ==
    /\ BidWaits
    /\ socket' = [Sent(socket, Exception) EXCEPT !.bid = NoId]
    /\ UNCHANGED <<server, page, fetch, call>>

\* The connection drops.  Socket.IO connects again and calls back neither for
\* a join nor for a bid.
Disconnect ==
    /\ socket.stage = "live"
    /\ socket' = Connecting(socket.auction)
    /\ UNCHANGED <<server, page, fetch, call>>

-----------------------------------------------------------------------------
(* Requests over HTTP.                                                     *)

\* startAuction, cancelAuction and the nominations.
CommitCall ==
    /\ call.stage = "asked"
    /\ \E s \in IF call.id = NoId THEN Creations ELSE Changes(call.id) :
           /\ Commit(s)
           /\ call' = [call EXCEPT !.stage = "committed", !.result = s]
    /\ UNCHANGED <<socket, page, fetch>>

\* It is refused or lost, or its answer is.
FailCall ==
    /\ call.stage \in {"asked", "answered"}
    /\ call' = NoCall
    /\ UNCHANGED <<server, socket, page, fetch>>

\* listAuctionHistoryForUser.
ServeFetch(k) ==
    /\ fetch[k].id # NoId
    /\ fetch[k].events = 0
    /\ fetch' = [fetch EXCEPT ![k].events = HistoryOf(fetch[k].id).events]
    /\ UNCHANGED <<server, socket, page, call>>

-----------------------------------------------------------------------------
(* The page.                                                               *)

\* loadAuctionRoom asks for the wallet and the list,
LoadList ==
    /\ load = "asking"
    /\ load' = "listed"
    /\ list' = Rows
    /\ UNCHANGED <<server, socket, shown, history, submitting, fetch, call>>

\* then for a history, and shows them all together.
ShowRoom ==
    LET s == Preferred(list)
    IN  /\ load = "listed"
        /\ load' = "shown"
        /\ shown' = s
        /\ history' = IF s = NoAuction THEN NoHistory ELSE HistoryOf(s.id)
        /\ UNCHANGED <<server, socket, list, submitting, fetch, call>>

\* The effect of [auctionId, matchId] runs after a rendering: it drops the
\* socket of the effect before, and what that one fetched is ignored.
RunEffect ==
    /\ load = "shown"
    /\ socket.stage = "off" \/ socket.auction # ShownId
    /\ socket' = Connecting(ShownId)
    /\ fetch' = [k \in Slots |-> IF fetch[k].tied THEN Free ELSE fetch[k]]
    /\ UNCHANGED <<server, page, call>>

\* A request that finds no free slot fails at once.
AskHistory(i, tied) ==
    \/ \E k \in Slots :
           /\ fetch[k] = Free
           /\ fetch' = [fetch EXCEPT ![k] = [id |-> i, events |-> 0, tied |-> tied]]
    \/ /\ \A k \in Slots : fetch[k] # Free
       /\ UNCHANGED fetch

\* The next message the socket delivers.
Arrives(type) ==
    /\ socket.wire # <<>>
    /\ Head(socket.wire).type = type
    /\ socket' = [socket EXCEPT !.wire = Tail(@)]
Arrived == Head(socket.wire)

ReceiveMatch ==
    /\ Arrives("match")
    /\ list' = Arrived.list
    /\ shown' = IF shown = NoAuction THEN Preferred(Arrived.list) ELSE shown
    /\ UNCHANGED <<server, load, history, submitting, fetch, call>>

ReceiveAuction ==
    /\ Arrives("auction")
    /\ shown' = Arrived.auction
    /\ UNCHANGED <<server, load, list, history, submitting, fetch, call>>

\* Mutant: a broadcast of the auction bid for is taken for the answer.
ReceiveUpdatedAsAnswer ==
    LET s == Arrived.auction
    IN  /\ Arrives("updated")
        /\ list' = Upsert(list, s)
        /\ shown' = IF \/ shown = NoAuction
                       \/ shown # NoAuction /\ shown.id = s.id
                       \/ shown # NoAuction /\ ~shown.open /\ s.open
                      THEN s ELSE shown
        /\ submitting' = (submitting /\ s.id # ShownId)
        /\ AskHistory(s.id, TRUE)
        /\ UNCHANGED <<server, load, history, call>>

\* Mutant: the broadcast is merged into the auction on display, whichever it is.
ReceiveUpdatedMerged ==
    LET s == Arrived.auction
    IN  /\ Arrives("updated")
        /\ list' = Upsert(list, s)
        /\ shown' = IF shown = NoAuction THEN s
                      ELSE [shown EXCEPT !.version = s.version, !.open = s.open]
        /\ AskHistory(s.id, TRUE)
        /\ UNCHANGED <<server, load, history, submitting, call>>

ReceiveUpdated ==
    LET s == Arrived.auction
    IN  /\ Arrives("updated")
        /\ list' = Upsert(list, s)
        /\ shown' = IF \/ shown = NoAuction
                       \/ shown # NoAuction /\ shown.id = s.id
                       \/ shown # NoAuction /\ ~shown.open /\ s.open
                      THEN s ELSE shown
        /\ AskHistory(s.id, TRUE)
        /\ UNCHANGED <<server, load, history, submitting, call>>

\* applyMutation shows the result whatever is on display.
ApplyMutation(s) ==
    /\ shown' = s
    /\ list' = Upsert(list, s)
    /\ AskHistory(s.id, FALSE)

ReceiveBid ==
    /\ Arrives("bid")
    /\ submitting' = FALSE
    /\ ApplyMutation(Arrived.auction)
    /\ UNCHANGED <<server, load, history, call>>

\* handleSocketError, whatever the error was about.
ReceiveException ==
    /\ Arrives("exception")
    /\ submitting' = FALSE
    /\ UNCHANGED <<server, load, shown, list, history, fetch, call>>

ReceiveCall ==
    /\ call.stage = "answered"
    /\ ApplyMutation(call.result)
    /\ call' = NoCall
    /\ UNCHANGED <<server, socket, load, history, submitting>>

ReceiveFetch(k) ==
    /\ fetch[k].events # 0
    /\ history' = [id |-> fetch[k].id, events |-> fetch[k].events]
    /\ fetch' = [fetch EXCEPT ![k] = Free]
    /\ UNCHANGED <<server, socket, load, shown, list, submitting, call>>

LoseFetch(k) ==
    /\ fetch[k] # Free
    /\ fetch' = [fetch EXCEPT ![k] = Free]
    /\ UNCHANGED <<server, socket, page, call>>

ShowsOpen == shown # NoAuction /\ shown.open

\* With one bid at the server at a time: only a failed join lets the page
\* place another.
PlaceBid ==
    /\ ShowsOpen
    /\ socket.stage = "live"
    /\ ~submitting
    /\ socket.bid = NoId
    /\ submitting' = TRUE
    /\ socket' = [socket EXCEPT !.bid = shown.id]
    /\ UNCHANGED <<server, load, shown, list, history, fetch, call>>

\* startCurrentAuction and cancelCurrentAuction, and the nomination form, which
\* is offered while the list has no open auction.
AskCall ==
    /\ IsHost
    /\ load = "shown"
    /\ call = NoCall
    /\ \E i \in {ShownId, NoId} :
           /\ IF i = NoId THEN OpenOf(list) = {} ELSE ShowsOpen
           /\ call' = [NoCall EXCEPT !.stage = "asked", !.id = i]
    /\ UNCHANGED <<server, socket, page, fetch>>

\* "Match auctions", with a button for each, is there if there is a choice.
ListsAuctions == load = "shown" /\ shown # NoAuction /\ Cardinality(list) > 1

SelectAuction(s) ==
    /\ ListsAuctions
    /\ s \in list
    /\ shown' = s
    /\ history' = NoHistory
    /\ AskHistory(s.id, FALSE)
    /\ UNCHANGED <<server, socket, load, list, submitting, call>>

-----------------------------------------------------------------------------
Init ==
    /\ row = [i \in Id |-> NoAuction]
    /\ outbox = {}
    /\ socket = [Connecting(NoId) EXCEPT !.stage = "off"]
    /\ load = "asking"
    /\ shown = NoAuction
    /\ list = {}
    /\ history = NoHistory
    /\ submitting = FALSE
    /\ fetch = [k \in Slots |-> Free]
    /\ call = NoCall

Next ==
    \/ OtherCommit \/ Replay \/ \E s \in outbox : Broadcast(s)
    \/ Connect \/ Disconnect \/ AcceptBid \/ RefuseBid
    \/ \E type \in Join : LookUp(type) \/ FailJoin(type)
    \/ \E m \in socket.read : EnterRoom(m)
    \/ AskCall \/ CommitCall \/ FailCall \/ ReceiveCall
    \/ LoadList \/ ShowRoom \/ RunEffect
    \/ ReceiveMatch \/ ReceiveAuction \/ ReceiveUpdated
    \/ ReceiveBid \/ ReceiveException
    \/ \E k \in Slots : ServeFetch(k) \/ ReceiveFetch(k) \/ LoseFetch(k)
    \/ PlaceBid \/ \E s \in list : SelectAuction(s)

Spec == Init /\ [][Next]_vars

Delivery ==
    \/ ReceiveMatch \/ ReceiveAuction \/ ReceiveUpdated
    \/ ReceiveBid \/ ReceiveException

\* What the handler of the page's bid does after its await.
BroadcastBid == socket.result # NoAuction /\ Broadcast(socket.result)

\* Handlers of bids go on after their awaits, and a connected socket delivers.
FairSpec ==
    /\ Spec
    /\ WF_vars(AcceptBid \/ RefuseBid)
    /\ WF_vars(BroadcastBid)
    /\ WF_vars(Delivery)

-----------------------------------------------------------------------------
TypeOK ==
    /\ row \in [Id -> Snapshot \cup {NoAuction}]
    /\ outbox \subseteq Snapshot
    /\ socket \in Socket
    /\ load \in {"asking", "listed", "shown"}
    /\ shown \in Snapshot \cup {NoAuction}
    /\ list \subseteq Snapshot
    /\ history \in History
    /\ submitting \in BOOLEAN
    /\ fetch \in [Slots -> Fetch]
    /\ call \in Call

\* Of a snapshot of an auction, wherever it got to: it is what the auction is
\* or was, and what it says is finished stays as it says.
TrueOf(s) ==
    /\ row[s.id] # NoAuction
    /\ s.version <= row[s.id].version
    /\ s.version = row[s.id].version \/ ~s.open => s = row[s.id]

\* "immutable auction results": a page may be late, but a result it shows is
\* the result, and a version it shows is that version.
ShownIsTrue == \A s \in (list \cup {shown}) \ {NoAuction} : TrueOf(s)

BidUnderWay ==
    \/ socket.bid # NoId
    \/ \E n \in DOMAIN socket.wire : socket.wire[n].type = "bid"

\* While a bid of the page is under way it lets the user place no other,
\* unless a join of its socket failed: the error is taken for the bid's.
OneBidAtATime == BidUnderWay => submitting \/ socket.joinFailed

\* The page is told what became of its bid unless its connection drops, or it
\* drops it to follow another auction.
BidIsAnswered == [](BidUnderWay => <>(~submitting \/ socket.stage # "live"))

\* "immutable auction results" (auction-room-view.tsx): a finished auction on
\* display does not come back to life.
ResultStaysShown ==
    [][shown # NoAuction /\ ~shown.open /\ ShownId' = ShownId => shown' = shown]_vars

=============================================================================
