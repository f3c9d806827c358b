--------------------------- MODULE RoomFeedProofs ---------------------------
(***************************************************************************)
(* Theorems about RoomFeed, for any number of auctions, versions and       *)
(* requests and any size of a page.                                        *)
(*                                                                         *)
(* A snapshot is true if it is what its auction is or was.  The invariant  *)
(* types every variable over the true snapshots and the known auctions.    *)
(* Both sets only grow, so what a step leaves alone keeps its type, and    *)
(* what it moves (from the server to an outbox, over the wire, onto the    *)
(* page) moves from one such type to another.                              *)
(***************************************************************************)
EXTENDS RoomFeed, SequenceTheorems, WellFoundedInduction, TLAPS

RowType ==
    /\ row \in [Id -> Snapshot \cup {NoAuction}]
    /\ \A i \in Id : row[i] # NoAuction => row[i].id = i

Truth == {s \in Snapshot : TrueOf(s)}
Known == {i \in Id : row[i] # NoAuction}

MessageOf(T) ==
    {m \in [type : Join \cup {"updated", "bid", "exception"},
            auction : T \cup {NoAuction}, list : SUBSET T] :
        m.type \in {"auction", "updated", "bid"} => m.auction \in T}

JoinAnswerOf(T) == {m \in MessageOf(T) : m.type \in Join}

SocketOf(T, K) ==
    {s \in [auction : K \cup {NoId}, stage : {"off", "connecting", "live"},
            rooms : SUBSET Join, asked : SUBSET Join, read : SUBSET JoinAnswerOf(T),
            wire : Seq(MessageOf(T)), bid : Id \cup {NoId},
            result : T \cup {NoAuction}, joinFailed : BOOLEAN] :
        "auction" \in s.asked => s.auction # NoId}

FetchOf(K) == [id : K \cup {NoId}, events : Events, tied : BOOLEAN]
CallOf(T) ==
    {c \in [stage : {"none", "asked", "committed", "answered"}, id : Id \cup {NoId},
            result : T \cup {NoAuction}] :
        c.stage \in {"committed", "answered"} => c.result \in T}

PageOf(T) ==
    /\ load \in {"asking", "listed", "shown"}
    /\ shown \in T \cup {NoAuction}
    /\ list \subseteq T
    /\ history \in History
    /\ submitting \in BOOLEAN

TrueState ==
    /\ RowType
    /\ outbox \subseteq Truth
    /\ socket \in SocketOf(Truth, Known)
    /\ PageOf(Truth)
    /\ fetch \in [Slots -> FetchOf(Known)]
    /\ call \in CallOf(Truth)

-----------------------------------------------------------------------------
(* The types grow with the server.                                         *)

LEMMA NoIdIsNone == NoId \notin Id /\ NoId \in Int /\ \A i \in Id : i \in Int
  BY RoomFeedAssumption DEF NoId, Id

LEMMA MessagesGrow ==
    ASSUME NEW T, NEW U, T \subseteq U
    PROVE  /\ MessageOf(T) \subseteq MessageOf(U)
           /\ JoinAnswerOf(T) \subseteq JoinAnswerOf(U)
  BY DEF MessageOf, JoinAnswerOf

LEMMA SocketsGrow ==
    ASSUME NEW T, NEW U, NEW K, NEW L, T \subseteq U, K \subseteq L
    PROVE  SocketOf(T, K) \subseteq SocketOf(U, L)
<1> SUFFICES ASSUME NEW s \in SocketOf(T, K)
             PROVE  s \in SocketOf(U, L)
  OBVIOUS
<1>1. s.wire \in Seq(MessageOf(U))
  BY MessagesGrow, SeqMonotonic DEF SocketOf
<1>2. s.read \subseteq JoinAnswerOf(U)
  BY MessagesGrow DEF SocketOf
<1> QED  BY <1>1, <1>2 DEF SocketOf

LEMMA FetchesGrow ==
    ASSUME NEW K, NEW L, K \subseteq L
    PROVE  [Slots -> FetchOf(K)] \subseteq [Slots -> FetchOf(L)]
<1>1. FetchOf(K) \subseteq FetchOf(L)
  BY DEF FetchOf
<1> QED  BY <1>1

LEMMA CallsGrow ==
    ASSUME NEW T, NEW U, T \subseteq U
    PROVE  CallOf(T) \subseteq CallOf(U)
  BY DEF CallOf

\* A commit takes an auction one version on, or creates it; no finished
\* auction is changed.  What was true stays true.
Advances(s) ==
    /\ s \in Snapshot
    /\ row[s.id] # NoAuction => row[s.id].open /\ s.version = row[s.id].version + 1
    /\ Commit(s)

LEMMA CreationAdvances ==
    ASSUME RowType, NEW s \in Creations, Commit(s)
    PROVE  Advances(s)
<1>1. PICK i \in Id : row[i] = NoAuction /\ s = [id |-> i, version |-> 0, open |-> TRUE]
  BY DEF Creations
<1>2. s \in Snapshot
  BY <1>1, RoomFeedAssumption DEF Snapshot, Version
<1> QED  BY <1>1, <1>2 DEF Advances

LEMMA ChangeAdvances ==
    ASSUME RowType, NEW i \in Id, NEW s \in Changes(i), Commit(s)
    PROVE  Advances(s)
  BY DEF Changes, Advances

LEMMA AdvanceGrows ==
    ASSUME RowType, NEW s, Advances(s)
    PROVE  /\ RowType'
           /\ Truth \subseteq Truth'
           /\ Known \subseteq Known'
           /\ s \in Truth'
<1>1. s \in Snapshot /\ s.id \in Id /\ s.version \in Int /\ s # NoAuction
  BY NoAuctionAssumption, RoomFeedAssumption DEF Advances, Snapshot, Version
<1>2. row' = [row EXCEPT ![s.id] = s]
  BY DEF Advances, Commit
<1>3. RowType'
  BY <1>1, <1>2 DEF RowType
<1>4. Known \subseteq Known'
  BY <1>1, <1>2 DEF RowType, Known
<1>5. row'[s.id] = s /\ \A i \in Id \ {s.id} : row'[i] = row[i]
  BY <1>1, <1>2 DEF RowType
<1>6. s \in Truth'
  BY <1>1, <1>5 DEF Truth, TrueOf
<1>7. ASSUME NEW x \in Truth
      PROVE  x \in Truth'
  <2>1. x \in Snapshot /\ x.id \in Id /\ x.version \in Int /\ TrueOf(x)
    BY <1>7, RoomFeedAssumption DEF Truth, Snapshot, Version
  <2>2. CASE x.id # s.id
    BY <2>1, <2>2, <1>5 DEF Truth, TrueOf
  <2>3. CASE x.id = s.id
    <3>1. row[s.id] # NoAuction /\ row[s.id].open /\ s.version = row[s.id].version + 1
      BY <2>1, <2>3 DEF TrueOf, Advances
    <3>2. row[s.id] \in Snapshot /\ row[s.id].version \in Int
      BY <3>1, <1>1, RoomFeedAssumption DEF RowType, Snapshot, Version
    <3>3. x.open /\ x.version < s.version
      BY <3>1, <3>2, <2>1, <2>3 DEF TrueOf
    <3> QED  BY <3>1, <3>3, <2>1, <2>3, <1>1, <1>5 DEF Truth, TrueOf
  <2> QED  BY <2>2, <2>3
<1> QED  BY <1>3, <1>4, <1>6, <1>7

LEMMA SameRowsSameTruth ==
    ASSUME UNCHANGED row
    PROVE  Truth' = Truth /\ Known' = Known /\ (RowType => RowType')
  BY DEF Truth, TrueOf, Known, RowType

-----------------------------------------------------------------------------
(* What the helpers return.                                                *)

LEMMA RowsTrue ==
    ASSUME RowType
    PROVE  Rows \subseteq Truth /\ \A i \in Known : row[i] \in Truth /\ row[i].id = i
<1>1. ASSUME NEW i \in Id, row[i] # NoAuction
      PROVE  row[i] \in Truth
  <2>1. row[i] \in Snapshot /\ row[i].id = i
    BY <1>1 DEF RowType
  <2>2. row[i].version \in Int
    BY <2>1, RoomFeedAssumption DEF Snapshot, Version
  <2> QED  BY <1>1, <2>1, <2>2 DEF Truth, TrueOf
<1> QED  BY <1>1 DEF Rows, Known, RowType

LEMMA IdsKnown ==
    ASSUME NEW s \in Truth
    PROVE  s.id \in Known /\ s \in Snapshot /\ s # NoAuction
  BY NoAuctionAssumption DEF Truth, TrueOf, Known, Snapshot

\* A list has a newest auction.
LEMMA NewestExists ==
    ASSUME NEW l \in SUBSET Snapshot, l # {}
    PROVE  \E s \in l : \A x \in l : x.id <= s.id
<1> DEFINE less == {pair \in Nat \X Nat : pair[1] < pair[2]}
           ages == {MaxAuctions - s.id : s \in l}
<1>1. \A s \in l : s.id \in Nat /\ MaxAuctions - s.id \in Nat
  BY RoomFeedAssumption DEF Snapshot, Id
<1>2. IsWellFoundedOn(less, Nat)
  BY NatLessThanWellFounded DEF OpToRel
<1>3. ages \subseteq Nat /\ ages # {}
  BY <1>1
<1>4. PICK t \in ages : \A u \in ages : <<u, t>> \notin less
  <2> HIDE DEF less, ages
  <2> QED  BY <1>2, <1>3, WFMin
<1>5. PICK s \in l : t = MaxAuctions - s.id
  BY <1>4
<1>6. ASSUME NEW x \in l
      PROVE  x.id <= s.id
  <2>1. <<MaxAuctions - x.id, t>> \notin less
    BY <1>4, <1>6
  <2>2. ~(MaxAuctions - x.id < MaxAuctions - s.id)
    BY <2>1, <1>1, <1>5, <1>6
  <2> QED  BY <2>2, <1>1, RoomFeedAssumption
<1> QED  BY <1>6

LEMMA PreferredOfList ==
    ASSUME NEW l \in SUBSET Snapshot
    PROVE  Preferred(l) \in l \cup {NoAuction}
<1> DEFINE pool == IF OpenOf(l) # {} THEN OpenOf(l) ELSE l
<1>1. CASE l = {}
  BY <1>1 DEF Preferred
<1>2. CASE l # {}
  <2>1. pool \subseteq l /\ pool # {}
    BY <1>2 DEF OpenOf
  <2>2. Preferred(l) = CHOOSE s \in pool : \A x \in pool : x.id <= s.id
    BY <1>2 DEF Preferred
  <2> HIDE DEF pool
  <2>3. \E s \in pool : \A x \in pool : x.id <= s.id
    BY <2>1, NewestExists
  <2>4. Preferred(l) \in pool
    BY <2>2, <2>3
  <2> QED  BY <2>1, <2>4
<1> QED  BY <1>1, <1>2

LEMMA HistoriesTyped ==
    ASSUME RowType, NEW i \in Known
    PROVE  HistoryOf(i) \in History /\ HistoryOf(i).events \in Events \ {0}
<1>1. i \in Id /\ row[i] \in Snapshot
  BY DEF Known, RowType
<1>2. row[i].version \in 0 .. MaxVersion
  BY <1>1 DEF Snapshot, Version
<1>3. row[i].version + 1 \in Events \ {0}
  BY <1>2, RoomFeedAssumption DEF Events
<1> QED  BY <1>1, <1>3 DEF HistoryOf, History

LEMMA OfTyped ==
    ASSUME NEW T, NEW s \in T
    PROVE  /\ Of("updated", s) \in MessageOf(T)
           /\ Of("bid", s) \in MessageOf(T)
           /\ Of("auction", s) \in JoinAnswerOf(T)
  BY DEF Of, MessageOf, JoinAnswerOf, Join

LEMMA ExceptionTyped ==
    ASSUME NEW T
    PROVE  Exception \in MessageOf(T)
  BY DEF Exception, Of, MessageOf

LEMMA ListTyped ==
    ASSUME NEW T, NEW l \in SUBSET T
    PROVE  ListOf(l) \in JoinAnswerOf(T)
  BY DEF ListOf, MessageOf, JoinAnswerOf, Join

LEMMA ConnectingTyped ==
    ASSUME NEW T, NEW K, NEW i \in K \cup {NoId}
    PROVE  Connecting(i) \in SocketOf(T, K)
<1>1. <<>> \in Seq(MessageOf(T))
  BY EmptySeq
<1> QED  BY <1>1 DEF Connecting, SocketOf

LEMMA SentTyped ==
    ASSUME NEW T, NEW K, NEW s \in SocketOf(T, K), NEW m \in MessageOf(T)
    PROVE  Sent(s, m) \in SocketOf(T, K)
<1>1. Append(s.wire, m) \in Seq(MessageOf(T))
  BY AppendProperties DEF SocketOf
<1> QED  BY <1>1 DEF Sent, SocketOf

LEMMA AnsweredTyped ==
    ASSUME NEW T, NEW K, NEW skt \in SocketOf(T, K), NEW s \in T
    PROVE  Answered(skt, s) \in SocketOf(T, K)
<1>1. Sent(skt, Of("bid", s)) \in SocketOf(T, K)
  BY SentTyped, OfTyped
<1>2. [Sent(skt, Of("bid", s)) EXCEPT !.bid = NoId, !.result = NoAuction] \in SocketOf(T, K)
  BY <1>1 DEF SocketOf
<1> QED  BY <1>2 DEF Answered

-----------------------------------------------------------------------------
(* Every step keeps the invariant.                                         *)

\* A step that commits nothing: it has to put in place what is true already.
LEMMA QuietStep ==
    ASSUME TrueState, UNCHANGED row,
           outbox' \subseteq Truth,
           socket' \in SocketOf(Truth, Known),
           /\ load' \in {"asking", "listed", "shown"}
           /\ shown' \in Truth \cup {NoAuction}
           /\ list' \subseteq Truth
           /\ history' \in History
           /\ submitting' \in BOOLEAN,
           fetch' \in [Slots -> FetchOf(Known)],
           call' \in CallOf(Truth)
    PROVE  TrueState'
<1>1. Truth' = Truth /\ Known' = Known /\ RowType'
  BY SameRowsSameTruth DEF TrueState
<1> QED  BY <1>1 DEF TrueState, PageOf

\* A commit, and what its handler keeps of it.
LEMMA CommitStep ==
    ASSUME TrueState, NEW s, Advances(s),
           \/ UNCHANGED <<socket, call>>
           \/ socket' = [socket EXCEPT !.result = s] /\ UNCHANGED call
           \/ call' = [call EXCEPT !.stage = "committed", !.result = s] /\ UNCHANGED socket,
           UNCHANGED <<page, fetch>>
    PROVE  TrueState'
<1>1. RowType' /\ Truth \subseteq Truth' /\ Known \subseteq Known' /\ s \in Truth'
  BY AdvanceGrows DEF TrueState
<1>2. outbox' \subseteq Truth'
  BY <1>1 DEF TrueState, Advances, Commit
<1>3. socket \in SocketOf(Truth', Known') /\ call \in CallOf(Truth')
  BY <1>1, SocketsGrow, CallsGrow DEF TrueState
<1>4. socket' \in SocketOf(Truth', Known')
  <2>1. [socket EXCEPT !.result = s] \in SocketOf(Truth', Known')
    BY <1>1, <1>3 DEF SocketOf
  <2> QED  BY <2>1, <1>3
<1>5. call' \in CallOf(Truth')
  <2>1. [call EXCEPT !.stage = "committed", !.result = s] \in CallOf(Truth')
    BY <1>1, <1>3 DEF CallOf
  <2> QED  BY <2>1, <1>3
<1>6. fetch' \in [Slots -> FetchOf(Known')]
  BY <1>1, FetchesGrow DEF TrueState
<1> QED  BY <1>1, <1>2, <1>4, <1>5, <1>6 DEF TrueState, PageOf, page

LEMMA ServerStep ==
    ASSUME TrueState,
           \/ OtherCommit \/ Replay \/ AcceptBid \/ CommitCall \/ FailCall
           \/ \E s \in outbox : Broadcast(s)
           \/ \E k \in Slots : ServeFetch(k)
    PROVE  TrueState'
<1> USE DEF TrueState, PageOf
<1>1. CASE OtherCommit
  <2>1. PICK s \in Creations \cup UNION {Changes(i) : i \in Id} : Commit(s)
    BY <1>1 DEF OtherCommit
  <2>2. Advances(s)
    BY <2>1, CreationAdvances, ChangeAdvances
  <2> QED  BY <1>1, <2>2, CommitStep DEF OtherCommit
<1>2. CASE Replay
  BY <1>2, RowsTrue, QuietStep DEF Replay, page
<1>3. CASE AcceptBid
  <2>1. socket.bid \in Id
    BY <1>3 DEF AcceptBid, BidWaits, SocketOf
  <2>2. PICK s \in Changes(socket.bid) :
           Commit(s) /\ socket' = [socket EXCEPT !.result = s]
    BY <1>3 DEF AcceptBid
  <2>3. Advances(s)
    BY <2>1, <2>2, ChangeAdvances
  <2> QED  BY <1>3, <2>2, <2>3, CommitStep DEF AcceptBid
<1>4. CASE CommitCall
  <2>1. call.id \in Id \cup {NoId}
    BY DEF CallOf
  <2>2. PICK s \in IF call.id = NoId THEN Creations ELSE Changes(call.id) :
           Commit(s) /\ call' = [call EXCEPT !.stage = "committed", !.result = s]
    BY <1>4 DEF CommitCall
  <2>3. Advances(s)
    BY <2>1, <2>2, CreationAdvances, ChangeAdvances
  <2> QED  BY <1>4, <2>2, <2>3, CommitStep DEF CommitCall
<1>5. CASE FailCall
  <2>1. NoCall \in CallOf(Truth)
    BY DEF NoCall, CallOf
  <2> QED  BY <1>5, <2>1, QuietStep DEF FailCall, server, page
<1>6. ASSUME NEW s \in outbox, Broadcast(s)
      PROVE  TrueState'
  <2>1. s \in Truth
    BY <1>6
  <2>2. Told(s) \in SocketOf(Truth, Known)
    BY <2>1, SentTyped, OfTyped DEF Told
  <2>3. Answered(Told(s), s) \in SocketOf(Truth, Known)
    BY <2>1, <2>2, AnsweredTyped
  <2>4. call' \in CallOf(Truth)
    <3>1. CASE call.stage = "committed" /\ call.result = s
      <4>1. [call EXCEPT !.stage = "answered"] \in CallOf(Truth)
        BY <3>1 DEF CallOf
      <4> QED  BY <4>1, <3>1, <1>6 DEF Broadcast
    <3>2. CASE ~(call.stage = "committed" /\ call.result = s)
      BY <3>2, <1>6 DEF Broadcast
    <3> QED  BY <3>1, <3>2
  <2> QED  BY <1>6, <2>3, <2>4, QuietStep DEF Broadcast, page
<1>7. ASSUME NEW k \in Slots, ServeFetch(k)
      PROVE  TrueState'
  <2>1. fetch[k] \in FetchOf(Known) /\ fetch[k].id \in Known
    BY <1>7 DEF ServeFetch, FetchOf
  <2>2. HistoryOf(fetch[k].id).events \in Events
    BY <2>1, HistoriesTyped
  <2>3. [fetch[k] EXCEPT !.events = HistoryOf(fetch[k].id).events] \in FetchOf(Known)
    BY <2>1, <2>2 DEF FetchOf
  <2>4. fetch' \in [Slots -> FetchOf(Known)]
    BY <1>7, <2>3 DEF ServeFetch
  <2> QED  BY <1>7, <2>4, QuietStep DEF ServeFetch, server, page
<1> QED  BY <1>1, <1>2, <1>3, <1>4, <1>5, <1>6, <1>7

LEMMA GatewayStep ==
    ASSUME TrueState,
           \/ Connect \/ Disconnect \/ RefuseBid
           \/ \E type \in Join : LookUp(type) \/ FailJoin(type)
           \/ \E m \in socket.read : EnterRoom(m)
    PROVE  TrueState'
<1> USE DEF TrueState, PageOf
<1> SUFFICES /\ UNCHANGED <<server, page, fetch, call>>
             /\ socket' \in SocketOf(Truth, Known)
  BY QuietStep DEF server, page
<1>1. CASE Connect
  <2>1. socket' \in SocketOf(Truth, Known)
    BY <1>1 DEF Connect, SocketOf, Join
  <2> QED  BY <1>1, <2>1 DEF Connect
<1>2. CASE Disconnect
  <2>1. socket.auction \in Known \cup {NoId}
    BY DEF SocketOf
  <2> QED  BY <1>2, <2>1, ConnectingTyped DEF Disconnect
<1>3. CASE RefuseBid
  <2>1. Sent(socket, Exception) \in SocketOf(Truth, Known)
    BY SentTyped, ExceptionTyped
  <2>2. [Sent(socket, Exception) EXCEPT !.bid = NoId] \in SocketOf(Truth, Known)
    BY <2>1 DEF SocketOf
  <2> QED  BY <1>3, <2>2 DEF RefuseBid
<1>4. ASSUME NEW type \in Join, LookUp(type)
      PROVE  UNCHANGED <<server, page, fetch, call>> /\ socket' \in SocketOf(Truth, Known)
  <2> DEFINE m == IF type = "match" THEN ListOf(Newest(Rows, MatchPage))
                  ELSE Of("auction", row[socket.auction])
  <2>1. m \in JoinAnswerOf(Truth)
    <3>1. CASE type = "match"
      <4>1. Newest(Rows, MatchPage) \subseteq Truth
        BY RowsTrue DEF Newest
      <4> QED  BY <3>1, <4>1, ListTyped
    <3>2. CASE type = "auction"
      <4>1. socket.auction \in Known
        BY <1>4, <3>2 DEF LookUp, SocketOf
      <4> QED  BY <3>2, <4>1, RowsTrue, OfTyped
    <3> QED  BY <3>1, <3>2 DEF Join
  <2> HIDE DEF m
  <2>2. [socket EXCEPT !.asked = @ \ {type}, !.read = @ \cup {m}] \in SocketOf(Truth, Known)
    BY <2>1 DEF SocketOf
  <2> QED  BY <1>4, <2>2 DEF LookUp, m
<1>5. ASSUME NEW type \in Join, FailJoin(type)
      PROVE  UNCHANGED <<server, page, fetch, call>> /\ socket' \in SocketOf(Truth, Known)
  <2>1. Sent(socket, Exception) \in SocketOf(Truth, Known)
    BY SentTyped, ExceptionTyped
  <2>2. [Sent(socket, Exception) EXCEPT !.asked = @ \ {type}, !.joinFailed = TRUE]
            \in SocketOf(Truth, Known)
    BY <2>1 DEF SocketOf
  <2> QED  BY <1>5, <2>2 DEF FailJoin
<1>6. ASSUME NEW m \in socket.read, EnterRoom(m)
      PROVE  UNCHANGED <<server, page, fetch, call>> /\ socket' \in SocketOf(Truth, Known)
  <2>1. m \in MessageOf(Truth) /\ m.type \in Join
    BY DEF SocketOf, JoinAnswerOf
  <2>2. Sent(socket, m) \in SocketOf(Truth, Known)
    BY <2>1, SentTyped
  <2>3. [Sent(socket, m) EXCEPT !.read = @ \ {m}, !.rooms = @ \cup {m.type}]
            \in SocketOf(Truth, Known)
    BY <2>1, <2>2 DEF SocketOf
  <2> QED  BY <1>6, <2>3 DEF EnterRoom
<1> QED  BY <1>1, <1>2, <1>3, <1>4, <1>5, <1>6

LEMMA ArrivedTyped ==
    ASSUME TrueState, NEW type, Arrives(type)
    PROVE  /\ Arrived \in MessageOf(Truth) /\ Arrived.type = type
           /\ socket' \in SocketOf(Truth, Known)
<1>1. socket.wire \in Seq(MessageOf(Truth)) /\ socket.wire # <<>>
  BY DEF TrueState, SocketOf, Arrives
<1>2. Head(socket.wire) \in MessageOf(Truth) /\ Tail(socket.wire) \in Seq(MessageOf(Truth))
  BY <1>1, HeadTailProperties
<1>3. [socket EXCEPT !.wire = Tail(@)] \in SocketOf(Truth, Known)
  BY <1>2 DEF TrueState, SocketOf
<1> QED  BY <1>2, <1>3 DEF Arrives, Arrived

LEMMA AskedTyped ==
    ASSUME TrueState, NEW i \in Known, NEW tied \in BOOLEAN, AskHistory(i, tied)
    PROVE  fetch' \in [Slots -> FetchOf(Known)]
<1>1. [id |-> i, events |-> 0, tied |-> tied] \in FetchOf(Known)
  BY RoomFeedAssumption DEF FetchOf, Events
<1> QED  BY <1>1 DEF TrueState, AskHistory

LEMMA ShownKnown ==
    ASSUME TrueState
    PROVE  ShownId \in Known \cup {NoId}
  BY IdsKnown DEF TrueState, PageOf, ShownId

LEMMA DeliveryStep ==
    ASSUME TrueState, Delivery
    PROVE  TrueState'
<1> USE DEF TrueState, PageOf
<1>1. CASE ReceiveMatch
  <2>1. Arrived.list \subseteq Truth /\ socket' \in SocketOf(Truth, Known)
    BY <1>1, ArrivedTyped DEF ReceiveMatch, MessageOf
  <2>2. Preferred(Arrived.list) \in Truth \cup {NoAuction}
    BY <2>1, PreferredOfList DEF Truth
  <2> QED  BY <1>1, <2>1, <2>2, QuietStep DEF ReceiveMatch, server
<1>2. CASE ReceiveAuction
  <2>1. Arrived.auction \in Truth /\ socket' \in SocketOf(Truth, Known)
    BY <1>2, ArrivedTyped DEF ReceiveAuction, MessageOf
  <2> QED  BY <1>2, <2>1, QuietStep DEF ReceiveAuction, server
<1>3. CASE ReceiveUpdated
  <2>1. Arrived.auction \in Truth /\ socket' \in SocketOf(Truth, Known)
    BY <1>3, ArrivedTyped DEF ReceiveUpdated, MessageOf
  <2>2. fetch' \in [Slots -> FetchOf(Known)]
    BY <1>3, <2>1, IdsKnown, AskedTyped DEF ReceiveUpdated
  <2>3. list' \subseteq Truth /\ shown' \in Truth \cup {NoAuction}
    BY <1>3, <2>1 DEF ReceiveUpdated, Upsert
  <2> QED  BY <1>3, <2>1, <2>2, <2>3, QuietStep DEF ReceiveUpdated, server
<1>4. CASE ReceiveBid
  <2>1. Arrived.auction \in Truth /\ socket' \in SocketOf(Truth, Known)
    BY <1>4, ArrivedTyped DEF ReceiveBid, MessageOf
  <2>2. fetch' \in [Slots -> FetchOf(Known)]
    BY <1>4, <2>1, IdsKnown, AskedTyped DEF ReceiveBid, ApplyMutation
  <2>3. list' \subseteq Truth /\ shown' \in Truth \cup {NoAuction}
    BY <1>4, <2>1 DEF ReceiveBid, ApplyMutation, Upsert
  <2> QED  BY <1>4, <2>1, <2>2, <2>3, QuietStep DEF ReceiveBid, server
<1>5. CASE ReceiveException
  <2>1. socket' \in SocketOf(Truth, Known)
    BY <1>5, ArrivedTyped DEF ReceiveException
  <2> QED  BY <1>5, <2>1, QuietStep DEF ReceiveException, server
<1> QED  BY <1>1, <1>2, <1>3, <1>4, <1>5 DEF Delivery

LEMMA FreedTyped ==
    ASSUME TrueState
    PROVE  /\ Free \in FetchOf(Known)
           /\ \A k \in Slots : [fetch EXCEPT ![k] = Free] \in [Slots -> FetchOf(Known)]
<1>1. Free \in FetchOf(Known)
  BY RoomFeedAssumption DEF Free, FetchOf, Events
<1> QED  BY <1>1 DEF TrueState

LEMMA PageStep ==
    ASSUME TrueState,
           \/ AskCall \/ ReceiveCall \/ LoadList \/ ShowRoom \/ RunEffect \/ PlaceBid
           \/ \E k \in Slots : ReceiveFetch(k) \/ LoseFetch(k)
           \/ \E s \in list : SelectAuction(s)
    PROVE  TrueState'
<1> USE DEF TrueState, PageOf
<1>1. CASE AskCall
  <2>1. PICK i \in {ShownId, NoId} : call' = [NoCall EXCEPT !.stage = "asked", !.id = i]
    BY <1>1 DEF AskCall
  <2>2. i \in Id \cup {NoId}
    BY ShownKnown DEF Known
  <2>3. [NoCall EXCEPT !.stage = "asked", !.id = i] \in CallOf(Truth)
    BY <2>2 DEF NoCall, CallOf
  <2> QED  BY <1>1, <2>1, <2>3, QuietStep DEF AskCall, server, page
<1>2. CASE ReceiveCall
  <2>1. call.result \in Truth /\ NoCall \in CallOf(Truth)
    BY <1>2 DEF ReceiveCall, CallOf, NoCall
  <2>2. fetch' \in [Slots -> FetchOf(Known)]
    BY <1>2, <2>1, IdsKnown, AskedTyped DEF ReceiveCall, ApplyMutation
  <2>3. list' \subseteq Truth /\ shown' \in Truth \cup {NoAuction}
    BY <1>2, <2>1 DEF ReceiveCall, ApplyMutation, Upsert
  <2> QED  BY <1>2, <2>1, <2>2, <2>3, QuietStep DEF ReceiveCall, server
<1>3. CASE LoadList
  BY <1>3, RowsTrue, QuietStep DEF LoadList, server
<1>4. CASE ShowRoom
  <2>1. shown' \in Truth \cup {NoAuction}
    BY <1>4, PreferredOfList DEF ShowRoom, Truth
  <2>2. history' \in History
    <3>1. CASE Preferred(list) = NoAuction
      BY <3>1, <1>4, RoomFeedAssumption DEF ShowRoom, NoHistory, History, Events
    <3>2. CASE Preferred(list) # NoAuction
      <4>1. Preferred(list) \in Truth
        BY <3>2, PreferredOfList DEF Truth
      <4> QED  BY <3>2, <4>1, <1>4, IdsKnown, HistoriesTyped DEF ShowRoom
    <3> QED  BY <3>1, <3>2
  <2> QED  BY <1>4, <2>1, <2>2, QuietStep DEF ShowRoom, server
<1>5. CASE RunEffect
  <2>1. Connecting(ShownId) \in SocketOf(Truth, Known)
    BY ShownKnown, ConnectingTyped
  <2>2. [k \in Slots |-> IF fetch[k].tied THEN Free ELSE fetch[k]]
            \in [Slots -> FetchOf(Known)]
    BY FreedTyped
  <2> QED  BY <1>5, <2>1, <2>2, QuietStep DEF RunEffect, server, page
<1>6. CASE PlaceBid
  <2>1. shown.id \in Id
    BY <1>6, IdsKnown DEF PlaceBid, ShowsOpen, Known
  <2>2. [socket EXCEPT !.bid = shown.id] \in SocketOf(Truth, Known)
    BY <2>1 DEF SocketOf
  <2> QED  BY <1>6, <2>2, QuietStep DEF PlaceBid, server
<1>7. ASSUME NEW k \in Slots, ReceiveFetch(k)
      PROVE  TrueState'
  <2>1. history' \in History
    BY <1>7 DEF ReceiveFetch, FetchOf, Known, History
  <2> QED  BY <1>7, <2>1, FreedTyped, QuietStep DEF ReceiveFetch, server
<1>8. ASSUME NEW k \in Slots, LoseFetch(k)
      PROVE  TrueState'
  BY <1>8, FreedTyped, QuietStep DEF LoseFetch, server, page
<1>9. ASSUME NEW s \in list, SelectAuction(s)
      PROVE  TrueState'
  <2>1. s \in Truth
    BY <1>9
  <2>2. fetch' \in [Slots -> FetchOf(Known)]
    BY <1>9, <2>1, IdsKnown, AskedTyped DEF SelectAuction
  <2>3. NoHistory \in History
    BY RoomFeedAssumption DEF NoHistory, History, Events
  <2> QED  BY <1>9, <2>1, <2>2, <2>3, QuietStep DEF SelectAuction, server
<1> QED  BY <1>1, <1>2, <1>3, <1>4, <1>5, <1>6, <1>7, <1>8, <1>9

LEMMA TrueStateInit == Init => TrueState
<1> SUFFICES ASSUME Init PROVE TrueState
  OBVIOUS
<1>1. Connecting(NoId) \in SocketOf(Truth, Known)
  BY ConnectingTyped
<1>2. [Connecting(NoId) EXCEPT !.stage = "off"] \in SocketOf(Truth, Known)
  BY <1>1 DEF SocketOf
<1>3. NoCall \in CallOf(Truth)
  BY DEF NoCall, CallOf
<1>4. Free \in FetchOf(Known) /\ NoHistory \in History
  BY RoomFeedAssumption DEF Free, FetchOf, NoHistory, History, Events
<1> QED  BY <1>2, <1>3, <1>4 DEF Init, TrueState, RowType, PageOf

LEMMA TrueStateStep == TrueState /\ [Next]_vars => TrueState'
<1> SUFFICES ASSUME TrueState, [Next]_vars PROVE TrueState'
  OBVIOUS
<1>1. CASE Next
  BY <1>1, ServerStep, GatewayStep, DeliveryStep, PageStep DEF Next, Delivery
<1>2. CASE UNCHANGED vars
  BY <1>2, QuietStep DEF vars, page, TrueState, PageOf
<1> QED  BY <1>1, <1>2

\* TrueState holds in every reachable state.
THEOREM StaysTrue == Spec => []TrueState
<1>1. Init => TrueState
  BY TrueStateInit
<1>2. TrueState /\ [Next]_vars => TrueState'
  BY TrueStateStep
<1> QED  BY <1>1, <1>2, PTL DEF Spec

\* Every variable keeps its type: rows and pages hold snapshots, the wire messages.
THEOREM TypesStay == Spec => []TypeOK
<1>1. TrueState => TypeOK
  <2> SUFFICES ASSUME TrueState PROVE TypeOK
    OBVIOUS
  <2>1. Truth \subseteq Snapshot /\ Known \subseteq Id
    BY DEF Truth, Known
  <2>2. MessageOf(Truth) \subseteq Message
    BY <2>1 DEF MessageOf, Message
  <2>3. socket \in Socket
    <3>1. socket.wire \in Seq(Message)
      BY <2>2, SeqMonotonic DEF TrueState, SocketOf
    <3>2. socket.read \subseteq Message
      BY <2>2 DEF TrueState, SocketOf, JoinAnswerOf
    <3> QED  BY <2>1, <3>1, <3>2 DEF TrueState, SocketOf, Socket
  <2>4. FetchOf(Known) \subseteq Fetch /\ CallOf(Truth) \subseteq Call
    BY <2>1 DEF FetchOf, Fetch, CallOf, Call
  <2> QED  BY <2>1, <2>3, <2>4 DEF TrueState, RowType, PageOf, TypeOK
<1> QED  BY <1>1, StaysTrue, PTL

\* Whatever a page shows is what the auction is or was, and a result it shows
\* is the result, however late and in whatever order it was told.
THEOREM PagesShowTruth == Spec => []ShownIsTrue
<1>1. TrueState => ShownIsTrue
  BY DEF TrueState, PageOf, ShownIsTrue, Truth
<1> QED  BY <1>1, StaysTrue, PTL

-----------------------------------------------------------------------------
(* One bid at a time.                                                      *)

\* What ends a bid for the page: its answer, or an error.
Reply == {"bid", "exception"}
RepliesOn(wire) == {n \in DOMAIN wire : wire[n].type \in Reply}

\* Unless a join failed, whose error is taken for the bid's: a bid at the server
\* has no reply on the wire yet, there is one reply at most, and the page is
\* submitting as long as there is a bid or a reply.
Paired(skt, sub) ==
    /\ skt.result # NoAuction => skt.bid # NoId
    /\ \/ skt.joinFailed
       \/ /\ skt.bid # NoId => sub /\ RepliesOn(skt.wire) = {}
          /\ RepliesOn(skt.wire) # {} => sub
          /\ \A m, n \in RepliesOn(skt.wire) : m = n

BidsArePaired == Paired(socket, submitting)

LEMMA RepliesSent ==
    ASSUME NEW M, NEW wire \in Seq(M), NEW m \in M
    PROVE  /\ m.type \notin Reply => RepliesOn(Append(wire, m)) = RepliesOn(wire)
           /\ m.type \in Reply =>
                  RepliesOn(Append(wire, m)) = RepliesOn(wire) \cup {Len(wire) + 1}
<1> DEFINE longer == Append(wire, m)
<1>1. /\ DOMAIN wire = 1 .. Len(wire) /\ DOMAIN longer = 1 .. Len(wire) + 1
      /\ Len(wire) \in Nat
  <2>1. longer \in Seq(M) /\ Len(longer) = Len(wire) + 1
    BY AppendProperties
  <2> QED  BY <2>1, LenProperties
<1>2. /\ \A i \in 1 .. Len(wire) : longer[i] = wire[i]
      /\ longer[Len(wire) + 1] = m
  BY AppendProperties
<1> HIDE DEF longer
<1>3. \A i \in 1 .. Len(wire) : i \in 1 .. Len(wire) + 1 /\ i # Len(wire) + 1
  BY <1>1
<1>4. 1 .. Len(wire) + 1 = (1 .. Len(wire)) \cup {Len(wire) + 1}
  BY <1>1
<1>5. /\ m.type \notin Reply => RepliesOn(longer) = RepliesOn(wire)
      /\ m.type \in Reply => RepliesOn(longer) = RepliesOn(wire) \cup {Len(wire) + 1}
  BY <1>1, <1>2, <1>3, <1>4 DEF RepliesOn
<1> QED  BY <1>5 DEF longer

LEMMA RepliesLeft ==
    ASSUME NEW M, NEW wire \in Seq(M), wire # <<>>
    PROVE  /\ \A n \in RepliesOn(Tail(wire)) : n \in Int /\ n + 1 \in RepliesOn(wire) /\ n + 1 # 1
           /\ Head(wire).type \in Reply => 1 \in RepliesOn(wire)
<1>1. /\ DOMAIN wire = 1 .. Len(wire) /\ DOMAIN Tail(wire) = 1 .. Len(wire) - 1
      /\ Len(wire) \in Nat \ {0}
  <2>1. Tail(wire) \in Seq(M) /\ Len(Tail(wire)) = Len(wire) - 1
    BY HeadTailProperties
  <2> QED  BY <2>1, LenProperties, EmptySeq
<1>2. \A i \in 1 .. Len(wire) - 1 : Tail(wire)[i] = wire[i + 1]
  BY <1>1, HeadTailProperties
<1>3. Head(wire) = wire[1]
  OBVIOUS
<1>4. \A i \in 1 .. Len(wire) - 1 : i \in Int /\ i + 1 \in 1 .. Len(wire) /\ i + 1 # 1
  BY <1>1
<1> QED  BY <1>1, <1>2, <1>3, <1>4 DEF RepliesOn

\* A message that is no reply leaves bids paired.
LEMMA TellingKeepsPaired ==
    ASSUME NEW T, NEW K, NEW skt \in SocketOf(T, K), NEW sub,
           NEW m \in MessageOf(T), m.type \notin Reply, Paired(skt, sub)
    PROVE  Paired(Sent(skt, m), sub)
<1>1. RepliesOn(Append(skt.wire, m)) = RepliesOn(skt.wire)
  BY RepliesSent DEF SocketOf
<1>2. /\ Sent(skt, m).wire = Append(skt.wire, m)
      /\ Sent(skt, m).bid = skt.bid /\ Sent(skt, m).result = skt.result
      /\ Sent(skt, m).joinFailed = skt.joinFailed
  BY DEF Sent, SocketOf
<1> QED  BY <1>1, <1>2 DEF Paired

\* A reply takes the place of the bid.
LEMMA ReplyKeepsPaired ==
    ASSUME NEW T, NEW K, NEW skt \in SocketOf(T, K), NEW sub,
           NEW m \in MessageOf(T), m.type \in Reply,
           Paired(skt, sub), skt.bid # NoId,
           NEW new \in SocketOf(T, K),
           new.wire = Append(skt.wire, m), new.bid = NoId, new.result = NoAuction,
           new.joinFailed = skt.joinFailed
    PROVE  Paired(new, sub)
<1>1. RepliesOn(new.wire) = RepliesOn(skt.wire) \cup {Len(skt.wire) + 1}
  BY RepliesSent DEF SocketOf
<1> QED  BY <1>1 DEF Paired

LEMMA EmptyIsPaired ==
    ASSUME NEW i, NEW sub
    PROVE  Paired(Connecting(i), sub)
<1>1. RepliesOn(<<>>) = {}
  BY DEF RepliesOn
<1> QED  BY <1>1 DEF Paired, Connecting

LEMMA DeliveryKeepsPaired ==
    ASSUME TrueState, BidsArePaired, NEW type, Arrives(type),
           type \in Reply => submitting' = FALSE,
           type \notin Reply => submitting' = submitting
    PROVE  BidsArePaired'
<1>1. socket.wire \in Seq(MessageOf(Truth)) /\ socket.wire # <<>> /\ Arrived.type = type
  BY ArrivedTyped DEF TrueState, SocketOf, Arrives
<1>2. /\ \A n \in RepliesOn(Tail(socket.wire)) :
             n \in Int /\ n + 1 \in RepliesOn(socket.wire) /\ n + 1 # 1
      /\ type \in Reply => 1 \in RepliesOn(socket.wire)
  BY <1>1, RepliesLeft DEF Arrived
<1>3. /\ socket'.wire = Tail(socket.wire)
      /\ socket'.bid = socket.bid /\ socket'.result = socket.result
      /\ socket'.joinFailed = socket.joinFailed
  BY DEF Arrives, TrueState, SocketOf
<1> DEFINE before == RepliesOn(socket.wire)
           after == RepliesOn(Tail(socket.wire))
<1>4. CASE socket.joinFailed
  BY <1>3, <1>4 DEF BidsArePaired, Paired
<1>5. CASE ~socket.joinFailed
  <2>1. /\ socket.bid # NoId => submitting /\ before = {}
        /\ before # {} => submitting
        /\ \A m, n \in before : m = n
    BY <1>5 DEF BidsArePaired, Paired
  <2>2. \A n \in after : n \in Int /\ n + 1 \in before /\ n + 1 # 1
    BY <1>2
  <2>3. type \in Reply => 1 \in before
    BY <1>2
  <2> HIDE DEF before, after
  <2>4. type \in Reply => after = {} /\ socket.bid = NoId
    BY <2>1, <2>2, <2>3
  <2>5. \A m, n \in after : m = n
    BY <2>1, <2>2
  <2>6. /\ socket.bid # NoId => submitting' /\ after = {}
        /\ after # {} => submitting'
    <3>1. CASE type \in Reply
      BY <3>1, <2>4
    <3>2. CASE type \notin Reply
      BY <3>2, <2>1, <2>2
    <3> QED  BY <3>1, <3>2
  <2> USE DEF before, after
  <2> QED  BY <1>3, <2>5, <2>6 DEF BidsArePaired, Paired
<1> QED  BY <1>4, <1>5

LEMMA BroadcastKeepsPaired ==
    ASSUME TrueState, BidsArePaired, NEW s \in outbox, Broadcast(s)
    PROVE  BidsArePaired'
<1>1. s \in Truth /\ s # NoAuction /\ socket \in SocketOf(Truth, Known)
  BY IdsKnown DEF TrueState
<1>2. /\ Of("updated", s) \in MessageOf(Truth) /\ Of("updated", s).type \notin Reply
      /\ Of("bid", s) \in MessageOf(Truth) /\ Of("bid", s).type \in Reply
  BY <1>1, OfTyped DEF Of, Reply
<1> DEFINE told == Told(s)
<1>3. told \in SocketOf(Truth, Known)
  BY <1>1, <1>2, SentTyped DEF Told
<1>4. Paired(told, submitting)
  BY <1>1, <1>2, TellingKeepsPaired DEF Told, BidsArePaired
<1>5. socket' = Answered(told, s) /\ submitting' = submitting
  BY DEF Broadcast, page
<1> HIDE DEF told
<1>6. CASE told.result # s
  BY <1>4, <1>5, <1>6 DEF Answered, BidsArePaired
<1>7. CASE told.result = s
  <2> DEFINE new == [Sent(told, Of("bid", s)) EXCEPT !.bid = NoId, !.result = NoAuction]
  <2>1. Sent(told, Of("bid", s)) \in SocketOf(Truth, Known)
    BY <1>2, <1>3, SentTyped
  <2>2. /\ new \in SocketOf(Truth, Known)
        /\ new.bid = NoId /\ new.result = NoAuction
        /\ new.wire = Sent(told, Of("bid", s)).wire
        /\ new.joinFailed = Sent(told, Of("bid", s)).joinFailed
    BY <2>1 DEF SocketOf
  <2>3. /\ Sent(told, Of("bid", s)).wire = Append(told.wire, Of("bid", s))
        /\ Sent(told, Of("bid", s)).joinFailed = told.joinFailed
    BY <1>3 DEF Sent, SocketOf
  <2>4. socket' = new
    BY <1>5, <1>7 DEF Answered
  <2>5. told.bid # NoId
    BY <1>1, <1>4, <1>7 DEF Paired
  <2> HIDE DEF new
  <2>6. Paired(new, submitting)
    BY <1>2, <1>3, <1>4, <2>2, <2>3, <2>5, ReplyKeepsPaired
  <2> QED  BY <2>4, <2>6, <1>5 DEF BidsArePaired
<1> QED  BY <1>6, <1>7

LEMMA GatewayKeepsPaired ==
    ASSUME TrueState, BidsArePaired,
           \/ Connect \/ Disconnect \/ RefuseBid \/ AcceptBid
           \/ \E type \in Join : LookUp(type) \/ FailJoin(type)
           \/ \E m \in socket.read : EnterRoom(m)
    PROVE  BidsArePaired'
<1>1. socket \in SocketOf(Truth, Known)
  BY DEF TrueState
<1>2. CASE Connect
  BY <1>1, <1>2 DEF Connect, page, BidsArePaired, Paired, SocketOf
<1>3. CASE Disconnect
  BY <1>3, EmptyIsPaired DEF Disconnect, page, BidsArePaired
<1>4. CASE AcceptBid
  <2>1. PICK s \in Changes(socket.bid) : socket' = [socket EXCEPT !.result = s]
    BY <1>4 DEF AcceptBid
  <2> QED  BY <1>1, <1>4, <2>1 DEF AcceptBid, BidWaits, page, BidsArePaired, Paired, SocketOf
<1>5. CASE RefuseBid
  <2>1. Exception \in MessageOf(Truth) /\ Exception.type \in Reply
    BY ExceptionTyped DEF Exception, Of, Reply
  <2>2. Sent(socket, Exception) \in SocketOf(Truth, Known)
    BY <1>1, <2>1, SentTyped
  <2> DEFINE new == [Sent(socket, Exception) EXCEPT !.bid = NoId]
  <2>3. /\ new \in SocketOf(Truth, Known) /\ new.bid = NoId
        /\ new.result = Sent(socket, Exception).result
        /\ new.wire = Sent(socket, Exception).wire
        /\ new.joinFailed = Sent(socket, Exception).joinFailed
    BY <2>2 DEF SocketOf
  <2>4. /\ Sent(socket, Exception).wire = Append(socket.wire, Exception)
        /\ Sent(socket, Exception).result = socket.result
        /\ Sent(socket, Exception).joinFailed = socket.joinFailed
    BY <1>1 DEF Sent, SocketOf
  <2>5. socket' = new /\ socket.bid # NoId /\ socket.result = NoAuction
        /\ submitting' = submitting
    BY <1>5 DEF RefuseBid, BidWaits, page
  <2> HIDE DEF new
  <2>6. Paired(new, submitting)
    BY <1>1, <2>1, <2>3, <2>4, <2>5, ReplyKeepsPaired DEF BidsArePaired
  <2> QED  BY <2>5, <2>6 DEF BidsArePaired
<1>6. ASSUME NEW type \in Join, LookUp(type)
      PROVE  BidsArePaired'
  BY <1>1, <1>6 DEF LookUp, page, BidsArePaired, Paired, SocketOf
<1>7. ASSUME NEW type \in Join, FailJoin(type)
      PROVE  BidsArePaired'
  <2>1. Sent(socket, Exception) \in SocketOf(Truth, Known)
    BY <1>1, SentTyped, ExceptionTyped
  <2>2. socket'.joinFailed /\ socket'.result = socket.result /\ socket'.bid = socket.bid
    BY <1>1, <1>7, <2>1 DEF FailJoin, Sent, SocketOf
  <2> QED  BY <2>2 DEF BidsArePaired, Paired
<1>8. ASSUME NEW m \in socket.read, EnterRoom(m)
      PROVE  BidsArePaired'
  <2>1. m \in MessageOf(Truth) /\ m.type \notin Reply
    BY <1>1 DEF SocketOf, JoinAnswerOf, Join, Reply
  <2>2. Paired(Sent(socket, m), submitting) /\ Sent(socket, m) \in SocketOf(Truth, Known)
    BY <1>1, <2>1, SentTyped, TellingKeepsPaired DEF BidsArePaired
  <2>3. /\ socket' = [Sent(socket, m) EXCEPT !.read = @ \ {m}, !.rooms = @ \cup {m.type}]
        /\ submitting' = submitting
    BY <1>8 DEF EnterRoom, page
  <2>4. /\ socket'.wire = Sent(socket, m).wire /\ socket'.bid = Sent(socket, m).bid
        /\ socket'.result = Sent(socket, m).result
        /\ socket'.joinFailed = Sent(socket, m).joinFailed
    BY <2>2, <2>3 DEF SocketOf
  <2> QED  BY <2>2, <2>3, <2>4 DEF BidsArePaired, Paired
<1> QED  BY <1>2, <1>3, <1>4, <1>5, <1>6, <1>7, <1>8

LEMMA PairedInit == Init => BidsArePaired
<1>1. RepliesOn(<<>>) = {}
  BY DEF RepliesOn
<1> QED  BY <1>1 DEF Init, Connecting, BidsArePaired, Paired

LEMMA PairedStep == TrueState /\ BidsArePaired /\ [Next]_vars => BidsArePaired'
<1> SUFFICES ASSUME TrueState, BidsArePaired, [Next]_vars PROVE BidsArePaired'
  OBVIOUS
<1>1. CASE UNCHANGED <<socket, submitting>>
  BY <1>1 DEF BidsArePaired, Paired
<1>2. CASE RunEffect
  BY <1>2, EmptyIsPaired DEF RunEffect, page, BidsArePaired
<1>3. CASE PlaceBid
  <2>1. /\ ~submitting /\ submitting' = TRUE
        /\ socket'.wire = socket.wire /\ socket'.bid # NoId
        /\ socket'.result = socket.result /\ socket'.joinFailed = socket.joinFailed
    <3>1. shown.id # NoId
      BY <1>3, IdsKnown, NoIdIsNone DEF PlaceBid, ShowsOpen, TrueState, PageOf, Known
    <3> QED  BY <1>3, <3>1 DEF PlaceBid, TrueState, SocketOf
  <2> QED  BY <2>1 DEF BidsArePaired, Paired
<1>4. CASE Delivery
  <2>1. CASE ReceiveMatch
    BY <2>1, DeliveryKeepsPaired DEF ReceiveMatch, Reply
  <2>2. CASE ReceiveAuction
    BY <2>2, DeliveryKeepsPaired DEF ReceiveAuction, Reply
  <2>3. CASE ReceiveUpdated
    BY <2>3, DeliveryKeepsPaired DEF ReceiveUpdated, Reply
  <2>4. CASE ReceiveBid
    BY <2>4, DeliveryKeepsPaired DEF ReceiveBid, Reply
  <2>5. CASE ReceiveException
    BY <2>5, DeliveryKeepsPaired DEF ReceiveException, Reply
  <2> QED  BY <1>4, <2>1, <2>2, <2>3, <2>4, <2>5 DEF Delivery
<1>5. CASE Next
  BY <1>1, <1>2, <1>3, <1>4, <1>5, BroadcastKeepsPaired, GatewayKeepsPaired
     DEF Next, Delivery, OtherCommit, Replay, AskCall, CommitCall, FailCall, ReceiveCall,
         LoadList, ShowRoom, ServeFetch, ReceiveFetch, LoseFetch, SelectAuction, page
<1>6. CASE UNCHANGED vars
  BY <1>1, <1>6 DEF vars, page
<1> QED  BY <1>5, <1>6

\* Until a bid is answered, refused or cut off, its page does not let the user
\* place another, whatever else is delivered in between.
THEOREM OneBidOnly == Spec => []OneBidAtATime
<1>1. Init => BidsArePaired
  BY PairedInit
<1>2. TrueState /\ BidsArePaired /\ [Next]_vars => BidsArePaired'
  BY PairedStep
<1>3. BidsArePaired => OneBidAtATime
  <2> SUFFICES ASSUME BidsArePaired, BidUnderWay, ~socket.joinFailed PROVE submitting
    BY DEF OneBidAtATime
  <2>1. socket.bid # NoId \/ RepliesOn(socket.wire) # {}
    BY DEF BidUnderWay, RepliesOn, Reply
  <2> QED  BY <2>1 DEF BidsArePaired, Paired
<1> QED  BY <1>1, <1>2, <1>3, StaysTrue, PTL DEF Spec

=============================================================================
