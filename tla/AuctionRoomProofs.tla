-------------------------- MODULE AuctionRoomProofs --------------------------
(***************************************************************************)
(* The auction room for every value of its constants: any catalog, any     *)
(* budget, any prices, durations and horizon.                              *)
(***************************************************************************)
EXTENDS AuctionRoom, WalletProofs

\* Fields of the rows an action writes.
LEMMA RowTypes ==
    /\ NoRow \in AuctionRow
    /\ \A row \in AuctionRow :
           row.version \in Nat /\ row.status \in Status
  BY DEF NoRow, AuctionRow, Status, Unstarted, Live, Terminal, NoTime

\* The version every mutation writes next.
LEMMA NextVersionType ==
    ASSUME TypeOK, NEW a \in Asset
    PROVE  auction[a] \in AuctionRow /\ auction[a].version + 1 \in Nat
  BY DEF TypeOK, AuctionRow

\* Recording a typed row and event keeps the tables typed.
LEMMA RecordTypes ==
    ASSUME TypeOK, NEW a \in Asset, NEW row \in AuctionRow,
           NEW type, NEW amount \in Nat,
           type \in {"NOMINATED", "STARTED", "BID_PLACED", "LAST_CALL",
                     "CANCELLED", "SOLD", "UNSOLD"},
           Record(a, row, type, amount)
    PROVE  /\ auction' \in [Asset -> AuctionRow]
           /\ events' \in [Asset -> Seq(Event)]
<1> DEFINE event == [type |-> type, statusAfter |-> row.status,
                     version |-> row.version, amount |-> amount]
<1>1. event \in Event
  BY RowTypes DEF Event
<1>2. Append(events[a], event) \in Seq(Event)
  BY <1>1 DEF TypeOK
<1> QED
  BY <1>2 DEF Record, TypeOK

\* The four requests about an auction; the catalog decides which handler
\* nominates it.
LEMMA RequestCases ==
    ASSUME NEW a \in Asset, Request(a)
    PROVE  \/ \E price \in OpeningPrices, increment \in Increments :
                  Nominate(a, price, increment)
           \/ \E duration \in Durations, now \in Recent :
                  StartAuction(a, duration, now)
           \/ \E p \in Participant, amount \in Amounts, key \in Keys,
                 now \in Recent : PlaceBid(p, a, amount, key, now)
           \/ \E now \in Recent : CancelAuction(a, now)
  BY DEF Request, CreatePlayerAuction, CreateManagerAuction,
         CreateFormationAuction

\* The last bid of an auction that has bids is a bid.
LEMMA TopBidType ==
    ASSUME TypeOK, NEW a \in Asset, HasBid(a)
    PROVE  /\ Len(bids[a]) \in Nat \ {0}
           /\ Len(bids[a]) \in DOMAIN bids[a]
           /\ TopBid(a) \in Bid
           /\ TopBid(a).bidder \in Participant
           /\ TopBid(a).amount \in Nat \ {0}
           /\ TopBid(a).key \in Keys
<1>1. bids[a] \in Seq(Bid) /\ bids[a] # <<>>
  BY DEF TypeOK, HasBid
<1>2. Len(bids[a]) \in Nat \ {0} /\ bids[a][Len(bids[a])] \in Bid
  BY <1>1
<1> QED
  BY <1>1, <1>2 DEF TopBid, Bid

\* The operations an auction asks of the books are well formed.
LEMMA OperationTypes ==
    ASSUME TypeOK, NEW a \in Asset
    PROVE  /\ \A p \in Participant : \A amount, key :
                  /\ Reserve(p, a, amount, key).type = "RESERVE"
                  /\ Reserve(p, a, amount, key).participant = p
                  /\ Reserve(p, a, amount, key).amount = amount
                  /\ Reserve(p, a, amount, key).key = BidKey(a, key)
           /\ HasBid(a) =>
                /\ \A key :
                     /\ ReleaseTop(a, key).type = "RELEASE"
                     /\ ReleaseTop(a, key).participant = TopBid(a).bidder
                     /\ ReleaseTop(a, key).amount = TopBid(a).amount
                     /\ ReleaseTop(a, key).key = key
                /\ Purchase(a).type = "PURCHASE"
                /\ Purchase(a).participant = TopBid(a).bidder
                /\ Purchase(a).amount = TopBid(a).amount
                /\ Purchase(a).key = PurchaseKey(a)
                /\ Purchase(a).item = a
  BY DEF Reserve, ReleaseTop, Purchase, Operation

-----------------------------------------------------------------------------
(* Types and the conservation of every budget.                             *)

BalancedBooks(b) ==
    /\ b.wallet \in [Participant -> WalletType]
    /\ \A p \in Participant : Conserved(b.wallet[p])
    /\ \A e \in b.ledger : e.after \in WalletType /\ Conserved(e.after)

\* An operation the books of the room let through.
Permits(b, op) ==
    /\ op.type \in OperationType
    /\ op.participant \in Participant
    /\ Permitted(b, op)

\* What a step makes of the books: nothing, or one or two operations.
Applied(b, after) ==
    \/ after = b
    \/ \E op : Permits(b, op) /\ after = Execute(b, op)
    \/ \E first, second : /\ Permits(b, first)
                          /\ Permits(Execute(b, first), second)
                          /\ after = Execute(Execute(b, first), second)

\* A permitted operation of a participant leaves balanced books.
LEMMA ExecuteBalanced ==
    ASSUME NEW b, NEW op, BalancedBooks(b), Permits(b, op)
    PROVE  BalancedBooks(Execute(b, op))
  BY ExecuteKeepsWallets, ExecuteKeepsSnapshots DEF BalancedBooks, Permits

LEMMA AppliedBalanced ==
    ASSUME NEW b, NEW after, BalancedBooks(b), Applied(b, after)
    PROVE  BalancedBooks(after)
  BY ExecuteBalanced DEF Applied

\* A bid, which may release the former leader first.
LEMMA PlaceBidApplies ==
    ASSUME TypeOK, NEW p \in Participant,
           NEW a \in Asset, NEW amount \in Amounts, NEW key \in Keys,
           NEW now \in Recent, PlaceBid(p, a, amount, key, now)
    PROVE  Applied(books, books')
<1> DEFINE release == ReleaseTop(a, OutbidKey(a, Len(bids[a]) + 1))
           reserve == BidReservation(p, a, amount, key)
<1>1. Permits(AfterOutbid(p, a), reserve)
  <2>1. reserve.type \in OperationType /\ reserve.participant \in Participant
    BY OperationTypes DEF BidReservation, OperationType
  <2> QED
    BY <2>1 DEF PlaceBid, Permits
<1>2. books' = Execute(AfterOutbid(p, a), reserve)
  BY DEF PlaceBid
<1> HIDE DEF reserve
<1>3. CASE Outbids(p, a)
  <2>1. HasBid(a) /\ Permitted(books, release)
    BY <1>3 DEF PlaceBid, Outbids
  <2>2. release.type \in OperationType /\ release.participant \in Participant
    BY <2>1, OperationTypes, TopBidType DEF OperationType
  <2>3. Permits(books, release)
    BY <2>1, <2>2 DEF Permits
  <2>4. AfterOutbid(p, a) = Execute(books, release)
    BY <1>3 DEF AfterOutbid
  <2> HIDE DEF release
  <2> QED
    BY <1>1, <1>2, <2>3, <2>4 DEF Applied
<1>4. CASE ~Outbids(p, a)
  <2>1. AfterOutbid(p, a) = books
    BY <1>4 DEF AfterOutbid
  <2> QED
    BY <1>1, <1>2, <2>1 DEF Applied
<1> QED
  BY <1>3, <1>4

\* The release of a cancellation.
LEMMA CancelApplies ==
    ASSUME TypeOK, NEW a \in Asset, NEW now \in Recent, CancelAuction(a, now)
    PROVE  Applied(books, books')
<1>1. CASE HasBid(a)
  <2> DEFINE release == ReleaseTop(a, CancelKey(a))
  <2>1. Permitted(books, release) /\ books' = Execute(books, release)
    BY <1>1 DEF CancelAuction
  <2>2. release.type \in OperationType /\ release.participant \in Participant
    BY <1>1, OperationTypes, TopBidType DEF OperationType
  <2>3. Permits(books, release)
    BY <2>1, <2>2 DEF Permits
  <2> HIDE DEF release
  <2> QED
    BY <2>1, <2>3 DEF Applied
<1>2. CASE ~HasBid(a)
  BY <1>2 DEF CancelAuction, Applied
<1> QED
  BY <1>1, <1>2

\* The purchase of a sale.
LEMMA SettleSoldApplies ==
    ASSUME TypeOK, NEW a \in Asset, SettleSold(a)
    PROVE  Permits(books, Purchase(a)) /\ books' = Execute(books, Purchase(a))
<1>1. HasBid(a) /\ Permitted(books, Purchase(a))
      /\ books' = Execute(books, Purchase(a))
  BY DEF SettleSold, SaleAllowed
<1>2. Purchase(a).type \in OperationType /\ Purchase(a).participant \in Participant
  BY <1>1, OperationTypes, TopBidType DEF OperationType
<1> QED
  BY <1>1, <1>2 DEF Permits

\* No step of the room changes the books otherwise.
LEMMA StepApplies ==
    ASSUME TypeOK, [Next]_vars
    PROVE  Applied(books, books')
<1>1. ASSUME NEW a \in Asset, Request(a)
      PROVE  Applied(books, books')
  <2>1. CASE \E price \in OpeningPrices, increment \in Increments :
                 Nominate(a, price, increment)
    BY <2>1 DEF Nominate, Applied
  <2>2. CASE \E duration \in Durations, now \in Recent :
                 StartAuction(a, duration, now)
    BY <2>2 DEF StartAuction, Applied
  <2>3. CASE \E p \in Participant, amount \in Amounts, key \in Keys,
                now \in Recent : PlaceBid(p, a, amount, key, now)
    BY <2>3, PlaceBidApplies
  <2>4. CASE \E now \in Recent : CancelAuction(a, now)
    BY <2>4, CancelApplies
  <2> QED
    BY <1>1, <2>1, <2>2, <2>3, <2>4, RequestCases
<1>2. ASSUME NEW a \in Asset, PassStep(a)
      PROVE  Applied(books, books')
  <2>1. CASE SkipAuction(a)
    BY <2>1 DEF SkipAuction, Applied
  <2>2. CASE EnterLastCall(a)
    BY <2>2 DEF EnterLastCall, Applied
  <2>3. CASE SettleUnsold(a)
    BY <2>3 DEF SettleUnsold, Applied
  <2>4. CASE SettleSold(a)
    BY <2>4, SettleSoldApplies DEF Applied
  <2> QED
    BY <1>2, <2>1, <2>2, <2>3, <2>4 DEF PassStep, AdvanceAuction, SettleAuction
<1>3. CASE UNCHANGED books
  BY <1>3 DEF Applied
<1> QED
  BY <1>1, <1>2, <1>3
  DEF Next, vars, JoinMatch, StartSquadBuilding, StartPass, Crash, Tick

\* No step of the room unbalances the books.
LEMMA StepBalanced ==
    ASSUME TypeOK, BalancedBooks(books), [Next]_vars
    PROVE  BalancedBooks(books')
  BY StepApplies, AppliedBalanced

\* Each mutation writes a typed row and event: a nomination ...
LEMMA CreateTypes ==
    ASSUME TypeOK, NEW a \in Asset, NEW price \in OpeningPrices,
           NEW increment \in Increments, Nominate(a, price, increment)
    PROVE  auction' \in [Asset -> AuctionRow] /\ events' \in [Asset -> Seq(Event)]
<1> DEFINE row == [NoRow EXCEPT !.status = "WAITING",
                                !.openingPrice = price,
                                !.currentPrice = price,
                                !.minimumIncrement = increment]
<1>1. price \in Nat /\ increment \in Nat
  BY RoomAssumption
<1>2. row \in AuctionRow
  BY <1>1 DEF AuctionRow, NoRow, Status, Unstarted, NoTime
<1>3. Record(a, row, "NOMINATED", price)
  BY DEF Nominate
<1> QED
  BY <1>1, <1>2, <1>3, RecordTypes

\* ... a start ...
LEMMA StartTypes ==
    ASSUME TypeOK, NEW a \in Asset, NEW duration \in Durations,
           NEW now \in Recent, StartAuction(a, duration, now)
    PROVE  auction' \in [Asset -> AuctionRow] /\ events' \in [Asset -> Seq(Event)]
<1> DEFINE row == [auction[a] EXCEPT !.status = "ACTIVE",
                                     !.startsAt = now,
                                     !.endsAt = now + duration,
                                     !.version = @ + 1]
<1>1. now \in Nat /\ now + duration \in Nat
  BY RoomAssumption DEF Recent, TypeOK
<1>2. row \in AuctionRow
  BY <1>1, NextVersionType DEF AuctionRow, Status, Live
<1>3. Record(a, row, "STARTED", 0)
  BY DEF StartAuction
<1> QED
  BY <1>2, <1>3, RecordTypes

\* ... a bid, with the row of the bid itself ...
LEMMA PlaceBidTypes ==
    ASSUME TypeOK, NEW p \in Participant, NEW a \in Asset,
           NEW amount \in Amounts, NEW key \in Keys, NEW now \in Recent,
           PlaceBid(p, a, amount, key, now)
    PROVE  /\ auction' \in [Asset -> AuctionRow]
           /\ events' \in [Asset -> Seq(Event)]
           /\ bids' \in [Asset -> Seq(Bid)]
<1> DEFINE row == [auction[a] EXCEPT !.currentPrice = amount,
                                     !.version = @ + 1]
           bid == [bidder |-> p, amount |-> amount, key |-> key,
                   version |-> auction[a].version + 1]
<1>1. amount \in Nat \ {0}
  BY RoomAssumption
<1>2. row \in AuctionRow /\ bid \in Bid
  BY <1>1, NextVersionType DEF AuctionRow, Bid
<1>3. Record(a, row, "BID_PLACED", amount)
  BY DEF PlaceBid
<1>4. auction' \in [Asset -> AuctionRow] /\ events' \in [Asset -> Seq(Event)]
  BY <1>1, <1>2, <1>3, RecordTypes
<1>5. Append(bids[a], bid) \in Seq(Bid)
  BY <1>2 DEF TypeOK
<1>6. bids' = [bids EXCEPT ![a] = Append(bids[a], bid)]
  BY DEF PlaceBid
<1> QED
  BY <1>4, <1>5, <1>6 DEF TypeOK

\* ... a cancellation ...
LEMMA CancelTypes ==
    ASSUME TypeOK, NEW a \in Asset, NEW now \in Recent, CancelAuction(a, now)
    PROVE  auction' \in [Asset -> AuctionRow] /\ events' \in [Asset -> Seq(Event)]
<1> DEFINE row == [auction[a] EXCEPT !.status = "CANCELLED",
                                     !.endsAt = now,
                                     !.version = @ + 1]
<1>1. now \in Nat
  BY DEF Recent, TypeOK
<1>2. row \in AuctionRow
  BY <1>1, NextVersionType DEF AuctionRow, Status, Terminal
<1>3. Record(a, row, "CANCELLED", 0)
  BY DEF CancelAuction
<1> QED
  BY <1>2, <1>3, RecordTypes

\* ... and what the scheduler does, with the ownership row of a sale.
LEMMA AdvanceTypes ==
    ASSUME TypeOK, NEW a \in Asset, AdvanceAuction(a)
    PROVE  /\ auction' \in [Asset -> AuctionRow]
           /\ events' \in [Asset -> Seq(Event)]
           /\ ownership' \in SUBSET Owned
<1>1. CASE EnterLastCall(a)
  <2> DEFINE row == [auction[a] EXCEPT !.status = "LAST_CALL", !.version = @ + 1]
  <2>1. row \in AuctionRow
    BY NextVersionType DEF AuctionRow, Status, Live
  <2>2. Record(a, row, "LAST_CALL", 0) /\ UNCHANGED ownership
    BY <1>1 DEF EnterLastCall
  <2> QED
    BY <2>1, <2>2, RecordTypes DEF TypeOK
<1>2. CASE SettleUnsold(a)
  <2> DEFINE row == [auction[a] EXCEPT !.status = "UNSOLD", !.version = @ + 1]
  <2>1. row \in AuctionRow
    BY NextVersionType DEF AuctionRow, Status, Terminal
  <2>2. Record(a, row, "UNSOLD", 0) /\ UNCHANGED ownership
    BY <1>2 DEF SettleUnsold
  <2> QED
    BY <2>1, <2>2, RecordTypes DEF TypeOK
<1>3. CASE SettleSold(a)
  <2> DEFINE row == [auction[a] EXCEPT !.status = "SOLD",
                                       !.winner = TopBid(a).bidder,
                                       !.currentPrice = TopBid(a).amount,
                                       !.version = @ + 1]
             owned == [asset |-> a, owner |-> TopBid(a).bidder,
                       price |-> TopBid(a).amount]
  <2>1. TopBid(a).bidder \in Participant /\ TopBid(a).amount \in Nat
    BY <1>3, TopBidType DEF SettleSold
  <2>2. row \in AuctionRow
    BY <2>1, NextVersionType DEF AuctionRow, Status, Terminal
  <2>3. owned \in Owned
    BY <2>1 DEF Owned
  <2>4. /\ Record(a, row, "SOLD", TopBid(a).amount)
        /\ ownership' = ownership \cup {owned}
    BY <1>3 DEF SettleSold
  <2> QED
    BY <2>1, <2>2, <2>3, <2>4, RecordTypes DEF TypeOK
<1> QED
  BY <1>1, <1>2, <1>3 DEF AdvanceAuction, SettleAuction

\* One step keeps every table typed, given that it keeps the books balanced.
LEMMA StepTypes ==
    ASSUME TypeOK, BalancedBooks(books), [Next]_vars
    PROVE  TypeOK'
<1>1. books'.wallet \in [Participant -> WalletType]
  BY StepBalanced DEF BalancedBooks
<1>2. ASSUME NEW a \in Asset, Request(a)
      PROVE  TypeOK'
  <2>1. CASE \E price \in OpeningPrices, increment \in Increments :
                 Nominate(a, price, increment)
    BY <1>1, <2>1, CreateTypes DEF Nominate, TypeOK
  <2>2. CASE \E duration \in Durations, now \in Recent :
                 StartAuction(a, duration, now)
    BY <1>1, <2>2, StartTypes DEF StartAuction, TypeOK
  <2>3. CASE \E p \in Participant, amount \in Amounts, key \in Keys,
                now \in Recent : PlaceBid(p, a, amount, key, now)
    <3>1. /\ auction' \in [Asset -> AuctionRow]
          /\ events' \in [Asset -> Seq(Event)]
          /\ bids' \in [Asset -> Seq(Bid)]
      BY <2>3, PlaceBidTypes
    <3> QED
      BY <1>1, <2>3, <3>1 DEF PlaceBid, TypeOK
  <2>4. CASE \E now \in Recent : CancelAuction(a, now)
    BY <1>1, <2>4, CancelTypes DEF CancelAuction, TypeOK
  <2> QED
    BY <1>2, <2>1, <2>2, <2>3, <2>4, RequestCases
<1>3. ASSUME NEW a \in Asset, PassStep(a)
      PROVE  TypeOK'
  <2>1. CASE AdvanceAuction(a)
    BY <1>1, <2>1, AdvanceTypes DEF AdvanceAuction, Handled, TypeOK
  <2>2. CASE SkipAuction(a)
    BY <1>1, <2>2 DEF SkipAuction, Handled, TypeOK
  <2> QED
    BY <1>3, <2>1, <2>2 DEF PassStep
<1>4. CASE JoinMatch
  BY <1>1, <1>4 DEF JoinMatch, TypeOK, Participant
<1>5. CASE StartSquadBuilding
  BY <1>1, <1>5 DEF StartSquadBuilding, TypeOK
<1>6. CASE StartPass
  BY <1>1, <1>6 DEF StartPass, TypeOK
<1>7. CASE Crash
  BY <1>1, <1>7 DEF Crash, TypeOK
<1>8. CASE Tick
  BY <1>1, <1>8 DEF Tick, TypeOK
<1>9. CASE UNCHANGED vars
  BY <1>1, <1>9 DEF vars, TypeOK
<1> QED
  BY <1>2, <1>3, <1>4, <1>5, <1>6, <1>7, <1>8, <1>9 DEF Next

\* A new match is typed and balanced.
LEMMA InitBalanced == Init => TypeOK /\ BalancedBooks(books)
<1> SUFFICES ASSUME Init PROVE TypeOK /\ BalancedBooks(books)
  OBVIOUS
<1>1. FullWallet \in WalletType /\ Conserved(FullWallet)
  BY MatchBudgetAssumption DEF FullWallet, WalletType, Conserved
<1>2. BalancedBooks(books)
  BY <1>1 DEF Init, BalancedBooks
<1>3. TypeOK
  BY <1>2, RowTypes DEF Init, TypeOK, BalancedBooks, Participant
<1> QED
  BY <1>2, <1>3

\* Types and balance together are inductive.
LEMMA TypedAndBalanced == Spec => [](TypeOK /\ BalancedBooks(books))
<1>1. TypeOK /\ BalancedBooks(books) /\ [Next]_vars
          => (TypeOK /\ BalancedBooks(books))'
  BY StepTypes, StepBalanced
<1> QED
  BY <1>1, InitBalanced, PTL DEF Spec

\* Every table of the room holds rows of its type, with no column of a
\* wallet ever below zero.
THEOREM TypeCorrect == Spec => []TypeOK
  BY TypedAndBalanced, PTL

\* No sequence of bids, releases and purchases creates or loses budget, in
\* the wallets or in the snapshots of the ledger (executeOperation).
THEOREM BudgetStaysConserved == Spec => []BudgetConserved
<1>1. BalancedBooks(books) => BudgetConserved
  BY DEF BalancedBooks, BudgetConserved
<1> QED
  BY <1>1, TypedAndBalanced, PTL

-----------------------------------------------------------------------------
(* The keys of budget operations never collide.                            *)

\* Equal keys come from the same kind of operation on the same auction.
LEMMA KeysDiffer ==
    ASSUME NEW a, NEW b, NEW key, NEW other, NEW n, NEW m
    PROVE  /\ BidKey(a, key) = BidKey(b, other) => a = b /\ key = other
           /\ OutbidKey(a, n) = OutbidKey(b, m) => a = b /\ n = m
           /\ CancelKey(a) = CancelKey(b) => a = b
           /\ PurchaseKey(a) = PurchaseKey(b) => a = b
           /\ BidKey(a, key) # OutbidKey(b, n)
           /\ BidKey(a, key) # CancelKey(b)
           /\ BidKey(a, key) # PurchaseKey(b)
           /\ OutbidKey(a, n) # CancelKey(b)
           /\ OutbidKey(a, n) # PurchaseKey(b)
           /\ CancelKey(a) # PurchaseKey(b)
  BY DEF BidKey, OutbidKey, CancelKey, PurchaseKey

\* No bid of p carries this key yet, so its reservation is not recorded.
LEMMA BidKeyNew ==
    ASSUME TypeOK, LedgerKeysSpent, NEW a \in Asset, NEW p \in Participant,
           NEW amount, NEW key,
           \A i \in DOMAIN bids[a] : ~(bids[a][i].bidder = p /\ bids[a][i].key = key)
    PROVE  Recorded(books, Reserve(p, a, amount, key)) = {}
<1> SUFFICES ASSUME NEW e \in books.ledger, e.op.participant = p,
                    e.op.key = BidKey(a, key)
             PROVE  FALSE
  BY OperationTypes DEF Recorded
<1>1. KeySpent(e)
  BY DEF LedgerKeysSpent
<1>2. PICK b \in Asset : \E i \in DOMAIN bids[b] :
          /\ bids[b][i].bidder = e.op.participant
          /\ e.op.key = BidKey(b, bids[b][i].key)
  BY <1>1 DEF KeySpent, BidKey, OutbidKey, CancelKey, PurchaseKey
<1>3. a = b
  BY <1>2 DEF BidKey
<1>4. PICK i \in DOMAIN bids[a] :
          /\ bids[a][i].bidder = p
          /\ BidKey(a, key) = BidKey(a, bids[a][i].key)
  BY <1>2, <1>3
<1>5. bids[a][i].key = key
  BY <1>4 DEF BidKey
<1> QED
  BY <1>4, <1>5

\* The next bid's number is new, so its release of the leader is.
LEMMA OutbidKeyNew ==
    ASSUME TypeOK, LedgerKeysSpent, NEW a \in Asset, HasBid(a)
    PROVE  Recorded(books, ReleaseTop(a, OutbidKey(a, Len(bids[a]) + 1))) = {}
<1> SUFFICES ASSUME NEW e \in books.ledger,
                    e.op.key = OutbidKey(a, Len(bids[a]) + 1)
             PROVE  FALSE
  BY OperationTypes DEF Recorded
<1>1. KeySpent(e)
  BY DEF LedgerKeysSpent
<1>2. Len(bids[a]) \in Nat
  BY TopBidType
<1>3. PICK b \in Asset : \E n \in 1 .. Len(bids[b]) : e.op.key = OutbidKey(b, n)
  BY <1>1 DEF KeySpent, BidKey, OutbidKey, CancelKey, PurchaseKey
<1> QED
  BY <1>2, <1>3, KeysDiffer

\* An auction that is not cancelled has not released for a cancellation.
LEMMA CancelKeyNew ==
    ASSUME TypeOK, LedgerKeysSpent, NEW a \in Asset, HasBid(a),
           auction[a].status # "CANCELLED"
    PROVE  Recorded(books, ReleaseTop(a, CancelKey(a))) = {}
<1> SUFFICES ASSUME NEW e \in books.ledger, e.op.key = CancelKey(a)
             PROVE  FALSE
  BY OperationTypes DEF Recorded
<1>1. KeySpent(e)
  BY DEF LedgerKeysSpent
<1> QED
  BY <1>1, KeysDiffer DEF KeySpent

\* An auction that is not sold has no purchase, and its asset neither.
LEMMA PurchaseKeyNew ==
    ASSUME TypeOK, LedgerKeysSpent, NEW a \in Asset, HasBid(a),
           auction[a].status # "SOLD"
    PROVE  /\ Recorded(books, Purchase(a)) = {}
           /\ PurchasedOnce(books, Purchase(a))
<1>1. ASSUME NEW e \in books.ledger, e.op.key = PurchaseKey(a)
      PROVE  FALSE
  <2>1. KeySpent(e)
    BY DEF LedgerKeysSpent
  <2> QED
    BY <1>1, <2>1, KeysDiffer DEF KeySpent
<1>2. ASSUME NEW e \in books.ledger, e.op.type = "PURCHASE", e.op.item = a
      PROVE  FALSE
  <2>1. KeySpent(e)
    BY DEF LedgerKeysSpent
  <2> QED
    BY <1>2, <2>1 DEF KeySpent
<1> QED
  BY <1>1, <1>2, OperationTypes DEF Recorded, PurchasedOnce

-----------------------------------------------------------------------------
(* Whatever was bid, the money of the leader can move.                     *)

\* The invariant is enough for every operation that ends an auction.
LEMMA RoomInvMovesFunds == RoomInv => HeldFundsCanMove
<1> SUFFICES ASSUME RoomInv, NEW a \in Asset, Unfinished(a), HasBid(a)
             PROVE  /\ Permitted(books, ReleaseTop(a, OutbidKey(a, Len(bids[a]) + 1)))
                    /\ Permitted(books, ReleaseTop(a, CancelKey(a)))
                    /\ SaleAllowed(a)
  BY DEF HeldFundsCanMove
<1> DEFINE leader == TopBid(a).bidder
           amount == TopBid(a).amount
<1>1. TypeOK /\ LedgerKeysSpent
  BY DEF RoomInv
<1>2. leader \in Participant /\ amount \in Nat \ {0}
  BY <1>1, TopBidType
<1>3. books.wallet[leader].reserved = amount
  BY <1>2 DEF RoomInv, ReservedBacksLeader, Leads
<1>4. books.wallet[leader] \in WalletType /\ Conserved(books.wallet[leader])
  BY <1>2 DEF RoomInv, TypeOK, BudgetConserved
<1>5. amount \in 1 .. MatchBudget
  BY <1>2, <1>3, <1>4, MatchBudgetAssumption DEF WalletType, Conserved
<1>6. auction[a].status \notin {"SOLD", "CANCELLED"}
  BY DEF Unfinished, UnfinishedStatus, Live
<1>7. \A key : Recorded(books, ReleaseTop(a, key)) = {}
                   => Permitted(books, ReleaseTop(a, key))
  BY <1>1, <1>3, <1>4, <1>5, OperationTypes
  DEF Permitted, Funded, PurchasedOnce, WalletType
<1>8. Permitted(books, Purchase(a))
  BY <1>1, <1>3, <1>4, <1>5, <1>6, OperationTypes, PurchaseKeyNew
  DEF Permitted, Funded, WalletType
<1>9. \A o \in ownership : o.asset # a
  BY <1>6 DEF RoomInv, SaleIsConsistent
<1>10. MayOwn(leader, a)
  BY DEF RoomInv, LeaderMayOwn
<1> QED
  BY <1>1, <1>6, <1>7, <1>8, <1>9, <1>10, OutbidKeyNew, CancelKeyNew
  DEF SaleAllowed

-----------------------------------------------------------------------------
(* The inductive step.  RoomInv is TypeOK, BudgetConserved and the rest.   *)

RestInv ==
    /\ OneUnfinished
    /\ BidsNeedStart
    /\ DueWasStarted
    /\ LedgerKeysSpent
    /\ LeaderMayOwn
    /\ ReservedBacksLeader
    /\ SaleIsConsistent
    /\ NothingHeldInSquadPhase

\* A mutation writes its own row and leaves the others.
LEMMA RecordEffect ==
    ASSUME TypeOK, NEW a \in Asset, NEW row, NEW type, NEW amount,
           Record(a, row, type, amount)
    PROVE  auction'[a] = row /\ \A b \in Asset \ {a} : auction'[b] = auction[b]
  BY DEF Record, TypeOK

\* A step that only moves the status of one auction that is not finished and
\* touches neither bids, money nor ownership.
LEMMA StatusStep ==
    ASSUME RoomInv, NEW a \in Asset,
           UNCHANGED <<bids, books, ownership>>,
           \A b \in Asset \ {a} : auction'[b] = auction[b],
           auction[a].status \notin Terminal,
           Unfinished(a) \/ \A b \in Asset : ~Unfinished(b),
           auction'[a].status \in {"WAITING", "ACTIVE", "LAST_CALL", "UNSOLD"},
           auction'[a].status \in {"WAITING", "UNSOLD"} => ~HasBid(a),
           pass'.due \subseteq pass.due,
           auction'[a].status = "WAITING" => a \notin pass.due,
           matchStatus # "SQUAD_BUILDING", matchStatus' # "SQUAD_BUILDING"
    PROVE  RestInv'
<1> USE DEF Terminal, UnfinishedStatus, Live, Unstarted
<1>1. OneUnfinished'
  BY DEF RoomInv, OneUnfinished, Unfinished
<1>2. BidsNeedStart'
  BY DEF RoomInv, BidsNeedStart, HasBid
<1>3. DueWasStarted'
  BY DEF RoomInv, DueWasStarted, TypeOK
<1>4. LedgerKeysSpent'
  <2> SUFFICES ASSUME NEW e \in books.ledger PROVE KeySpent(e)'
    BY DEF LedgerKeysSpent
  <2>1. KeySpent(e)
    BY DEF RoomInv, LedgerKeysSpent
  <2> QED
    BY <2>1 DEF KeySpent
<1>5. ASSUME NEW b \in Asset, Unfinished(b)', HasBid(b)
      PROVE  Unfinished(b)
  BY <1>5 DEF RoomInv, BidsNeedStart, Unfinished, Status, TypeOK, AuctionRow
<1>6. LeaderMayOwn'
  BY <1>5 DEF RoomInv, LeaderMayOwn, HasBid, TopBid, MayOwn, OwnsKind
<1>7. \A b \in Asset, p \in Participant :
          (Unfinished(b) /\ Leads(p, b)) <=> (Unfinished(b) /\ Leads(p, b))'
  BY <1>5 DEF Unfinished, Leads, HasBid, TopBid
<1>8. ReservedBacksLeader'
  BY <1>7 DEF RoomInv, ReservedBacksLeader, TopBid
<1>9. SaleIsConsistent'
  <2>1. \A b \in Asset : (auction'[b].status = "SOLD" <=> auction[b].status = "SOLD")
                         /\ (auction[b].status = "SOLD" => auction'[b] = auction[b])
    OBVIOUS
  <2>2. \A o \in ownership : o.asset \in Asset
    BY DEF RoomInv, TypeOK, Owned
  <2>3. \A b \in Asset : HasBid(b)' = HasBid(b) /\ TopBid(b)' = TopBid(b)
                         /\ Purchase(b)' = Purchase(b)
    BY DEF HasBid, TopBid, Purchase
  <2> QED
    BY <2>1, <2>2, <2>3 DEF RoomInv, SaleIsConsistent
<1>10. NothingHeldInSquadPhase'
  BY DEF NothingHeldInSquadPhase
<1> QED
  BY <1>1, <1>2, <1>3, <1>4, <1>6, <1>8, <1>9, <1>10 DEF RestInv

\* What an accepted bid does to the table of bids.
LEMMA PlaceBidAppends ==
    ASSUME TypeOK, NEW p \in Participant, NEW a \in Asset,
           NEW amount \in Amounts, NEW key \in Keys, NEW now \in Recent,
           PlaceBid(p, a, amount, key, now)
    PROVE  /\ HasBid(a)' /\ TopBid(a)'.bidder = p /\ TopBid(a)'.amount = amount
           /\ Len(bids'[a]) = Len(bids[a]) + 1
           /\ Len(bids'[a]) \in DOMAIN bids'[a]
           /\ bids'[a][Len(bids'[a])].bidder = p
           /\ bids'[a][Len(bids'[a])].key = key
           /\ \A i \in DOMAIN bids[a] : i \in DOMAIN bids'[a]
                                        /\ bids'[a][i] = bids[a][i]
           /\ \A b \in Asset \ {a} : bids'[b] = bids[b]
<1> DEFINE bid == [bidder |-> p, amount |-> amount, key |-> key,
                   version |-> auction[a].version + 1]
<1>1. bids' = [bids EXCEPT ![a] = Append(bids[a], bid)]
  BY DEF PlaceBid
<1>2. bids'[a] = Append(bids[a], bid) /\ bids[a] \in Seq(Bid)
  BY <1>1 DEF TypeOK
<1>3. /\ Len(bids'[a]) = Len(bids[a]) + 1
      /\ Len(bids[a]) \in Nat
      /\ DOMAIN bids'[a] = 1 .. Len(bids[a]) + 1
      /\ DOMAIN bids[a] = 1 .. Len(bids[a])
      /\ bids'[a][Len(bids[a]) + 1] = bid
      /\ \A i \in 1 .. Len(bids[a]) : bids'[a][i] = bids[a][i]
  BY <1>2
<1>4. bids'[a] # <<>>
  BY <1>3
<1> QED
  BY <1>1, <1>3, <1>4 DEF HasBid, TopBid, TypeOK

\* The books after the former leader is released: the key of the reservation
\* is still new, and only the leader's reserve is gone.
LEMMA AfterOutbidEffect ==
    ASSUME RoomInv, NEW p \in Participant, NEW a \in Asset,
           NEW amount \in Amounts, NEW key \in Keys, NEW now \in Recent,
           PlaceBid(p, a, amount, key, now)
    PROVE  /\ Recorded(AfterOutbid(p, a), BidReservation(p, a, amount, key)) = {}
           /\ AfterOutbid(p, a).wallet \in [Participant -> WalletType]
           /\ \A q \in Participant :
                  AfterOutbid(p, a).wallet[q].reserved =
                      IF Outbids(p, a) /\ Leads(q, a)
                        THEN 0 ELSE books.wallet[q].reserved
           /\ books.ledger \subseteq AfterOutbid(p, a).ledger
           /\ \A e \in AfterOutbid(p, a).ledger :
                  \/ e \in books.ledger
                  \/ /\ e.op.type = "RELEASE"
                     /\ e.op.key = OutbidKey(a, Len(bids[a]) + 1)
<1> DEFINE before == AfterOutbid(p, a)
           reserve == BidReservation(p, a, amount, key)
           release == ReleaseTop(a, OutbidKey(a, Len(bids[a]) + 1))
           leader == TopBid(a).bidder
<1>1. TypeOK /\ LedgerKeysSpent /\ Unfinished(a) /\ BalancedBooks(books)
  BY DEF RoomInv, PlaceBid, Unfinished, UnfinishedStatus, BalancedBooks,
         BudgetConserved, TypeOK
<1>2. Recorded(books, reserve) = {}
  BY <1>1, BidKeyNew DEF PlaceBid, BidReservation
<1>3. reserve.key = BidKey(a, key) /\ reserve.participant = p
  BY <1>1, OperationTypes DEF BidReservation
<1>4. CASE ~Outbids(p, a)
  BY <1>1, <1>2, <1>4 DEF AfterOutbid, BalancedBooks
<1>5. CASE Outbids(p, a)
  <2> DEFINE after == Moved(books.wallet[leader], release)
  <2>1. HasBid(a) /\ leader \in Participant
    BY <1>1, <1>5, TopBidType DEF Outbids
  <2>2. /\ release.type = "RELEASE" /\ release.participant = leader
        /\ release.amount = TopBid(a).amount
        /\ release.key = OutbidKey(a, Len(bids[a]) + 1)
    BY <1>1, <2>1, OperationTypes
  <2>3. /\ before.wallet = [books.wallet EXCEPT ![leader] = after]
        /\ before.ledger = books.ledger \cup {[op |-> release, after |-> after]}
    BY <1>1, <1>5, <2>1, <2>2, OutbidKeyNew, ExecuteNew DEF AfterOutbid
  <2>4. books.wallet[leader].reserved = TopBid(a).amount
    BY <1>1, <2>1 DEF RoomInv, ReservedBacksLeader, Leads
  <2>5. books.wallet[leader] \in WalletType /\ TopBid(a).amount \in Nat
    BY <1>1, <2>1, TopBidType DEF TypeOK
  <2>6. after.reserved = 0 /\ after \in WalletType
    BY <2>2, <2>4, <2>5 DEF Moved, WalletType
  <2>7. before.wallet \in [Participant -> WalletType]
    BY <1>1, <2>3, <2>6 DEF BalancedBooks
  <2>8. \A q \in Participant :
            before.wallet[q].reserved =
                IF Leads(q, a) THEN 0 ELSE books.wallet[q].reserved
    BY <1>1, <2>1, <2>3, <2>6 DEF Leads, BalancedBooks
  <2>9. \A e \in before.ledger :
            e \in books.ledger \/ (e.op.type = "RELEASE" /\ e.op.key = release.key)
    BY <2>2, <2>3
  <2>10. Recorded(before, reserve) = {}
    BY <1>2, <1>3, <2>2, <2>9 DEF Recorded, BidKey, OutbidKey
  <2> QED
    BY <1>5, <2>2, <2>3, <2>7, <2>8, <2>9, <2>10
<1> QED
  BY <1>4, <1>5

\* The books after an accepted bid: the bidder has exactly its bid reserved,
\* a former leader nothing, and the ledger grew by the keys of this bid.
LEMMA PlaceBidEffect ==
    ASSUME RoomInv, NEW p \in Participant, NEW a \in Asset,
           NEW amount \in Amounts, NEW key \in Keys, NEW now \in Recent,
           PlaceBid(p, a, amount, key, now)
    PROVE  /\ books'.wallet[p].reserved = amount
           /\ \A q \in Participant \ {p} : books'.wallet[q].reserved = 0
           /\ books.ledger \subseteq books'.ledger
           /\ \A e \in books'.ledger :
                  \/ e \in books.ledger
                  \/ /\ e.op.type = "RELEASE"
                     /\ e.op.key = OutbidKey(a, Len(bids[a]) + 1)
                  \/ /\ e.op.type = "RESERVE"
                     /\ e.op.participant = p
                     /\ e.op.key = BidKey(a, key)
<1> DEFINE before == AfterOutbid(p, a)
           reserve == BidReservation(p, a, amount, key)
           after == Moved(before.wallet[p], reserve)
<1>1. TypeOK /\ Unfinished(a)
  BY DEF RoomInv, PlaceBid, Unfinished, UnfinishedStatus
<1>2. /\ reserve.type = "RESERVE" /\ reserve.participant = p
      /\ reserve.key = BidKey(a, key)
      /\ reserve.amount = IF Leads(p, a) THEN amount - TopBid(a).amount ELSE amount
  BY <1>1, OperationTypes DEF BidReservation
<1>3. /\ books'.wallet = [before.wallet EXCEPT ![p] = after]
      /\ books'.ledger = before.ledger \cup {[op |-> reserve, after |-> after]}
  <2>1. Recorded(before, reserve) = {}
    BY AfterOutbidEffect
  <2>2. books' = Execute(before, reserve)
    BY DEF PlaceBid
  <2> HIDE DEF before, reserve
  <2> QED
    BY <1>2, <2>1, <2>2, ExecuteNew
<1>4. \A q \in Participant, b \in Asset :
          Unfinished(b) /\ Leads(q, b) => b = a
  BY <1>1 DEF RoomInv, OneUnfinished
<1>5. \A q \in Participant :
          /\ Leads(q, a) => books.wallet[q].reserved = TopBid(a).amount
          /\ ~Leads(q, a) => books.wallet[q].reserved = 0
  BY <1>1, <1>4 DEF RoomInv, ReservedBacksLeader
<1>6. \A q \in Participant :
          before.wallet[q].reserved =
              IF Leads(q, a) /\ q = p THEN TopBid(a).amount ELSE 0
  <2>1. \A q \in Participant :
            before.wallet[q].reserved =
                IF Outbids(p, a) /\ Leads(q, a) THEN 0 ELSE books.wallet[q].reserved
    BY AfterOutbidEffect
  <2>2. \A q \in Participant : Leads(q, a) /\ ~Outbids(p, a) => q = p
    BY DEF Outbids, Leads
  <2>3. Leads(p, a) => ~Outbids(p, a)
    BY DEF Outbids, Leads
  <2> QED
    BY <1>5, <2>1, <2>2, <2>3
<1>7. amount \in Nat /\ (Leads(p, a) => TopBid(a).amount \in Nat)
  BY <1>1, TopBidType, RoomAssumption DEF Leads
<1>8. after.reserved = amount
  <2>1. after.reserved = before.wallet[p].reserved + reserve.amount
    BY <1>2 DEF Moved
  <2> QED
    BY <1>2, <1>6, <1>7, <2>1
<1>9. books'.wallet[p].reserved = amount
      /\ \A q \in Participant \ {p} : books'.wallet[q].reserved = 0
  <2>1. before.wallet \in [Participant -> WalletType]
    BY AfterOutbidEffect
  <2> QED
    BY <1>3, <1>6, <1>8, <2>1
<1> QED
  BY <1>2, <1>3, <1>9, AfterOutbidEffect

\* Entries of the ledger stay explained: bids are only appended and a
\* cancelled or sold auction stays so.
LEMMA SpentKeysStaySpent ==
    ASSUME RoomInv,
           \A b \in Asset : /\ \A i \in DOMAIN bids[b] :
                                   i \in DOMAIN bids'[b] /\ bids'[b][i] = bids[b][i]
                            /\ \A n \in 1 .. Len(bids[b]) : n \in 1 .. Len(bids'[b])
                            /\ auction[b].status \in {"SOLD", "CANCELLED"} =>
                                   auction'[b].status = auction[b].status
    PROVE  \A e \in books.ledger : KeySpent(e)'
<1> SUFFICES ASSUME NEW e \in books.ledger PROVE KeySpent(e)'
  OBVIOUS
<1>1. PICK b \in Asset :
        \/ /\ e.op.type = "RESERVE"
           /\ \E i \in DOMAIN bids[b] :
                 /\ bids[b][i].bidder = e.op.participant
                 /\ e.op.key = BidKey(b, bids[b][i].key)
        \/ /\ e.op.type = "RELEASE"
           /\ \E n \in 1 .. Len(bids[b]) : e.op.key = OutbidKey(b, n)
        \/ /\ e.op.type = "RELEASE"
           /\ e.op.key = CancelKey(b)
           /\ auction[b].status = "CANCELLED"
        \/ /\ e.op.type = "PURCHASE"
           /\ e.op.key = PurchaseKey(b)
           /\ e.op.item = b
           /\ auction[b].status = "SOLD"
  BY DEF RoomInv, LedgerKeysSpent, KeySpent
<1> QED
  BY <1>1 DEF KeySpent

\* A step that sells nothing and leaves the auctions that are sold alone
\* leaves the story of every sale as it was.
LEMMA SalesStayConsistent ==
    ASSUME RoomInv, NEW a \in Asset,
           auction[a].status # "SOLD", auction'[a].status # "SOLD",
           \A b \in Asset \ {a} : auction'[b] = auction[b] /\ bids'[b] = bids[b],
           UNCHANGED ownership, books.ledger \subseteq books'.ledger
    PROVE  SaleIsConsistent'
<1>1. \A o \in ownership : o.asset \in Asset
  BY DEF RoomInv, TypeOK, Owned
<1>2. \A b \in Asset \ {a} : HasBid(b)' = HasBid(b) /\ TopBid(b)' = TopBid(b)
                             /\ Purchase(b)' = Purchase(b)
  BY DEF HasBid, TopBid, Purchase
<1>3. ASSUME NEW b \in Asset, auction'[b].status = "SOLD"
      PROVE  /\ HasBid(b)'
             /\ auction'[b].winner = TopBid(b)'.bidder
             /\ auction'[b].currentPrice = TopBid(b)'.amount
             /\ [asset |-> b, owner |-> TopBid(b)'.bidder,
                 price |-> TopBid(b)'.amount] \in ownership'
             /\ \E e \in books'.ledger : e.op = Purchase(b)'
  <2>1. b \in Asset \ {a} /\ auction'[b] = auction[b]
    BY <1>3
  <2>2. /\ HasBid(b)
        /\ auction[b].winner = TopBid(b).bidder
        /\ auction[b].currentPrice = TopBid(b).amount
        /\ [asset |-> b, owner |-> TopBid(b).bidder,
            price |-> TopBid(b).amount] \in ownership
        /\ \E e \in books.ledger : e.op = Purchase(b)
    BY <1>3, <2>1 DEF RoomInv, SaleIsConsistent
  <2> QED
    BY <1>2, <2>1, <2>2
<1>4. \A o \in ownership' : auction'[o.asset].status = "SOLD"
  BY <1>1 DEF RoomInv, SaleIsConsistent
<1>5. \A o1, o2 \in ownership' :
          /\ o1.asset = o2.asset => o1 = o2
          /\ o1.owner = o2.owner /\ o1.asset \notin Players
                 /\ Kind(o1.asset) = Kind(o2.asset) => o1 = o2
  BY DEF RoomInv, SaleIsConsistent
<1> QED
  BY <1>3, <1>4, <1>5 DEF SaleIsConsistent

\* A bid preserves the invariant.
LEMMA PlaceBidStep ==
    ASSUME RoomInv, NEW p \in Participant, NEW a \in Asset,
           NEW amount \in Amounts, NEW key \in Keys, NEW now \in Recent,
           PlaceBid(p, a, amount, key, now)
    PROVE  RestInv'
<1>1. /\ TypeOK /\ auction[a].status \in Live /\ Unfinished(a)
      /\ matchStatus = "AUCTION" /\ matchStatus' = "AUCTION"
      /\ UNCHANGED <<ownership, pass>>
      /\ MayOwn(p, a)
  BY DEF RoomInv, PlaceBid, Unfinished, UnfinishedStatus
<1>2. /\ auction'[a].status = auction[a].status
      /\ \A b \in Asset \ {a} : auction'[b] = auction[b]
  <2>1. Record(a, [auction[a] EXCEPT !.currentPrice = amount,
                                     !.version = @ + 1], "BID_PLACED", amount)
    BY DEF PlaceBid
  <2>2. auction'[a] = [auction[a] EXCEPT !.currentPrice = amount,
                                         !.version = @ + 1]
        /\ \A b \in Asset \ {a} : auction'[b] = auction[b]
    BY <1>1, <2>1, RecordEffect
  <2> QED
    BY <1>1, <2>2 DEF TypeOK, AuctionRow
<1>3. \A b \in Asset : Unfinished(b)' <=> Unfinished(b)
  BY <1>2 DEF Unfinished
<1>4. \A b \in Asset : Unfinished(b) => b = a
  BY <1>1 DEF RoomInv, OneUnfinished
<1>5. OneUnfinished'
  BY <1>3, <1>4 DEF OneUnfinished
<1>6. BidsNeedStart'
  <2>1. \A b \in Asset \ {a} : auction'[b].status \in Unstarted => ~HasBid(b)'
    BY <1>1, <1>2, PlaceBidAppends DEF RoomInv, BidsNeedStart, HasBid
  <2>2. auction'[a].status \notin Unstarted
    BY <1>1, <1>2 DEF Live, Unstarted
  <2> QED
    BY <2>1, <2>2 DEF BidsNeedStart
<1>7. DueWasStarted'
  BY <1>1, <1>2 DEF RoomInv, DueWasStarted, TypeOK
<1>8. LedgerKeysSpent'
  <2>1. \A e \in books.ledger : KeySpent(e)'
    <3>1. \A b \in Asset : \A i \in DOMAIN bids[b] :
                               i \in DOMAIN bids'[b] /\ bids'[b][i] = bids[b][i]
      BY <1>1, PlaceBidAppends
    <3>2. \A b \in Asset : \A n \in 1 .. Len(bids[b]) : n \in 1 .. Len(bids'[b])
      <4>1. \A b \in Asset : Len(bids[b]) \in Nat
        BY <1>1 DEF TypeOK
      <4>2. \A b \in Asset : Len(bids'[b]) \in {Len(bids[b]), Len(bids[b]) + 1}
        BY <1>1, PlaceBidAppends
      <4> QED
        BY <4>1, <4>2
    <3>3. \A b \in Asset : auction[b].status \in {"SOLD", "CANCELLED"} =>
                               auction'[b].status = auction[b].status
      BY <1>2
    <3> QED
      BY <3>1, <3>2, <3>3, SpentKeysStaySpent
  <2>2. ASSUME NEW e \in books'.ledger, e.op.type = "RELEASE",
               e.op.key = OutbidKey(a, Len(bids[a]) + 1)
        PROVE  KeySpent(e)'
    <3>1. Len(bids[a]) + 1 \in 1 .. Len(bids'[a])
      BY <1>1, PlaceBidAppends DEF TypeOK
    <3> QED
      BY <2>2, <3>1 DEF KeySpent
  <2>3. ASSUME NEW e \in books'.ledger, e.op.type = "RESERVE",
               e.op.participant = p, e.op.key = BidKey(a, key)
        PROVE  KeySpent(e)'
    <3>1. \E i \in DOMAIN bids'[a] : bids'[a][i].bidder = p /\ bids'[a][i].key = key
      BY <1>1, PlaceBidAppends
    <3> QED
      BY <2>3, <3>1 DEF KeySpent
  <2> QED
    BY <2>1, <2>2, <2>3, PlaceBidEffect DEF LedgerKeysSpent
<1>9. LeaderMayOwn'
  <2>1. MayOwn(p, a)' /\ TopBid(a)'.bidder = p
    BY <1>1, PlaceBidAppends DEF MayOwn, OwnsKind
  <2> QED
    BY <1>3, <1>4, <2>1 DEF LeaderMayOwn
<1>10. ReservedBacksLeader'
  <2>1. /\ HasBid(a)' /\ TopBid(a)'.bidder = p /\ TopBid(a)'.amount = amount
    BY <1>1, PlaceBidAppends
  <2>2. \A q \in Participant : Leads(q, a)' <=> q = p
    BY <2>1 DEF Leads
  <2>3. /\ books'.wallet[p].reserved = amount
        /\ \A q \in Participant \ {p} : books'.wallet[q].reserved = 0
    BY PlaceBidEffect
  <2>4. Unfinished(a)' /\ \A b \in Asset : Unfinished(b)' => b = a
    BY <1>1, <1>3, <1>4
  <2> QED
    BY <2>1, <2>2, <2>3, <2>4 DEF ReservedBacksLeader
<1>11. SaleIsConsistent'
  <2>1. auction[a].status # "SOLD" /\ auction'[a].status # "SOLD"
    BY <1>1, <1>2 DEF Live
  <2>2. books.ledger \subseteq books'.ledger
    BY PlaceBidEffect
  <2>3. \A b \in Asset \ {a} : bids'[b] = bids[b]
    BY <1>1, PlaceBidAppends
  <2> QED
    BY <1>1, <1>2, <2>1, <2>2, <2>3, SalesStayConsistent
<1>12. NothingHeldInSquadPhase'
  BY <1>1 DEF NothingHeldInSquadPhase
<1> QED
  BY <1>5, <1>6, <1>7, <1>8, <1>9, <1>10, <1>11, <1>12 DEF RestInv

\* The release of the leader when the host cancels.
LEMMA CancelEffect ==
    ASSUME RoomInv, NEW a \in Asset, NEW now \in Recent,
           CancelAuction(a, now)
    PROVE  /\ \A q \in Participant : books'.wallet[q].reserved = 0
           /\ books.ledger \subseteq books'.ledger
           /\ \A e \in books'.ledger :
                  \/ e \in books.ledger
                  \/ e.op.type = "RELEASE" /\ e.op.key = CancelKey(a)
<1>1. TypeOK /\ LedgerKeysSpent /\ Unfinished(a) /\ auction[a].status # "CANCELLED"
  BY DEF RoomInv, CancelAuction, Unfinished, UnfinishedStatus, Live
<1>2. \A q \in Participant :
          /\ Leads(q, a) => books.wallet[q].reserved = TopBid(a).amount
          /\ ~Leads(q, a) => books.wallet[q].reserved = 0
  BY <1>1 DEF RoomInv, ReservedBacksLeader, OneUnfinished
<1>3. CASE ~HasBid(a)
  BY <1>2, <1>3 DEF CancelAuction, Leads
<1>4. CASE HasBid(a)
  <2> DEFINE leader == TopBid(a).bidder
             release == ReleaseTop(a, CancelKey(a))
             after == Moved(books.wallet[leader], release)
  <2>1. leader \in Participant /\ TopBid(a).amount \in Nat
    BY <1>1, <1>4, TopBidType
  <2>2. /\ release.type = "RELEASE" /\ release.participant = leader
        /\ release.amount = TopBid(a).amount /\ release.key = CancelKey(a)
    BY <1>1, <1>4, OperationTypes
  <2>3. /\ books'.wallet = [books.wallet EXCEPT ![leader] = after]
        /\ books'.ledger = books.ledger \cup {[op |-> release, after |-> after]}
    <3>1. Recorded(books, release) = {}
      BY <1>1, <1>4, CancelKeyNew
    <3>2. books' = Execute(books, release)
      BY <1>4 DEF CancelAuction
    <3>3. release.participant = leader
      BY <2>2
    <3> HIDE DEF release, leader
    <3> QED
      BY <3>1, <3>2, <3>3, ExecuteNew
  <2>4. after.reserved = 0
    BY <1>2, <1>4, <2>1, <2>2 DEF Moved, Leads
  <2>5. \A q \in Participant : q # leader => books.wallet[q].reserved = 0
    BY <1>2 DEF Leads
  <2>6. books.wallet \in [Participant -> WalletType]
    BY <1>1 DEF TypeOK
  <2>7. \A q \in Participant : books'.wallet[q].reserved = 0
    <3> HIDE DEF after, leader
    <3> QED
      BY <2>3, <2>4, <2>5, <2>6
  <2> QED
    BY <2>2, <2>3, <2>7
<1> QED
  BY <1>3, <1>4

\* A cancellation preserves the invariant.
LEMMA CancelStep ==
    ASSUME RoomInv, NEW a \in Asset, NEW now \in Recent,
           CancelAuction(a, now)
    PROVE  RestInv'
<1>1. /\ TypeOK /\ Unfinished(a) /\ auction[a].status \notin Terminal
      /\ UNCHANGED <<matchStatus, joined, bids, ownership, pass>>
  BY DEF RoomInv, CancelAuction, Unfinished, UnfinishedStatus, Live, Terminal
<1>2. /\ auction'[a].status = "CANCELLED"
      /\ \A b \in Asset \ {a} : auction'[b] = auction[b]
  <2>1. Record(a, [auction[a] EXCEPT !.status = "CANCELLED",
                                     !.endsAt = now,
                                     !.version = @ + 1], "CANCELLED", 0)
    BY DEF CancelAuction
  <2>2. auction'[a] = [auction[a] EXCEPT !.status = "CANCELLED",
                                         !.endsAt = now,
                                         !.version = @ + 1]
        /\ \A b \in Asset \ {a} : auction'[b] = auction[b]
    BY <1>1, <2>1, RecordEffect
  <2> QED
    BY <1>1, <2>2 DEF TypeOK, AuctionRow
<1>3. \A b \in Asset : ~Unfinished(b)'
  BY <1>1, <1>2 DEF RoomInv, OneUnfinished, Unfinished, UnfinishedStatus, Live
<1>4. OneUnfinished' /\ LeaderMayOwn'
  BY <1>3 DEF OneUnfinished, LeaderMayOwn
<1>5. BidsNeedStart'
  BY <1>1, <1>2 DEF RoomInv, BidsNeedStart, HasBid, Unstarted
<1>6. DueWasStarted'
  BY <1>1, <1>2 DEF RoomInv, DueWasStarted, TypeOK, Unstarted
<1>7. LedgerKeysSpent'
  <2>1. \A e \in books.ledger : KeySpent(e)'
    BY <1>1, <1>2, SpentKeysStaySpent DEF Terminal
  <2>2. ASSUME NEW e, e.op.type = "RELEASE", e.op.key = CancelKey(a)
        PROVE  KeySpent(e)'
    BY <1>2, <2>2 DEF KeySpent
  <2> QED
    BY <2>1, <2>2, CancelEffect DEF LedgerKeysSpent
<1>8. ReservedBacksLeader'
  BY <1>3, CancelEffect DEF ReservedBacksLeader
<1>9. SaleIsConsistent'
  <2>1. auction[a].status # "SOLD" /\ auction'[a].status # "SOLD"
    BY <1>1, <1>2 DEF Terminal
  <2>2. books.ledger \subseteq books'.ledger
    BY CancelEffect
  <2> QED
    BY <1>1, <1>2, <2>1, <2>2, SalesStayConsistent
<1>10. NothingHeldInSquadPhase'
  BY <1>1 DEF RoomInv, NothingHeldInSquadPhase
<1> QED
  BY <1>4, <1>5, <1>6, <1>7, <1>8, <1>9, <1>10 DEF RestInv

\* The three catalogs do not overlap.
LEMMA KindOfAsset ==
    ASSUME NEW a \in Asset
    PROVE  a \in Kind(a) /\ (a \in Players <=> Kind(a) = Players)
  BY RoomAssumption DEF Asset, Kind

\* What a sale does: the leader's reserve becomes its spending, the asset is
\* its own, and the books hold the purchase.
LEMMA SaleEffect ==
    ASSUME RoomInv, NEW a \in Asset, Unfinished(a), SettleSold(a)
    PROVE  /\ \A q \in Participant : books'.wallet[q].reserved = 0
           /\ books.ledger \subseteq books'.ledger
           /\ \E e \in books'.ledger : e.op = Purchase(a)
           /\ \A e \in books'.ledger :
                  \/ e \in books.ledger
                  \/ /\ e.op.type = "PURCHASE"
                     /\ e.op.key = PurchaseKey(a)
                     /\ e.op.item = a
<1> DEFINE leader == TopBid(a).bidder
           purchase == Purchase(a)
           after == Moved(books.wallet[leader], purchase)
<1>1. TypeOK /\ LedgerKeysSpent /\ auction[a].status # "SOLD" /\ HasBid(a)
  BY DEF RoomInv, SettleSold, Unfinished, UnfinishedStatus, Live
<1>2. \A q \in Participant :
          /\ Leads(q, a) => books.wallet[q].reserved = TopBid(a).amount
          /\ ~Leads(q, a) => books.wallet[q].reserved = 0
  BY DEF RoomInv, ReservedBacksLeader, OneUnfinished
<1>3. leader \in Participant /\ TopBid(a).amount \in Nat
  BY <1>1, TopBidType
<1>4. /\ purchase.type = "PURCHASE" /\ purchase.participant = leader
      /\ purchase.amount = TopBid(a).amount
      /\ purchase.key = PurchaseKey(a) /\ purchase.item = a
  BY <1>1, OperationTypes
<1>5. /\ books'.wallet = [books.wallet EXCEPT ![leader] = after]
      /\ books'.ledger = books.ledger \cup {[op |-> purchase, after |-> after]}
  <2>1. Recorded(books, purchase) = {}
    BY <1>1, PurchaseKeyNew
  <2>2. books' = Execute(books, purchase)
    BY DEF SettleSold
  <2>3. purchase.participant = leader
    BY <1>4
  <2> HIDE DEF purchase, leader
  <2> QED
    BY <2>1, <2>2, <2>3, ExecuteNew
<1>6. after.reserved = 0
  BY <1>1, <1>2, <1>3, <1>4 DEF Moved, Leads
<1>7. \A q \in Participant : q # leader => books.wallet[q].reserved = 0
  BY <1>2 DEF Leads
<1>8. books.wallet \in [Participant -> WalletType]
  BY <1>1 DEF TypeOK
<1>9. \A q \in Participant : books'.wallet[q].reserved = 0
  <2> HIDE DEF after, leader
  <2> QED
    BY <1>5, <1>6, <1>7, <1>8
<1>10. \E e \in books'.ledger : e.op = purchase
  <2>1. [op |-> purchase, after |-> after] \in books'.ledger
    BY <1>5
  <2> QED
    BY <2>1
<1>11. \A e \in books'.ledger : e \in books.ledger \/ e.op = purchase
  BY <1>5
<1> QED
  <2> HIDE DEF purchase, after, leader
  <2>1. purchase = Purchase(a)
    BY DEF purchase
  <2> QED
    BY <1>4, <1>5, <1>9, <1>10, <1>11, <2>1

\* A sale preserves the invariant.
LEMMA SettleSoldStep ==
    ASSUME RoomInv, NEW a \in Asset, Unfinished(a), SettleSold(a),
           matchStatus # "SQUAD_BUILDING",
           UNCHANGED <<matchStatus, bids>>, pass'.due \subseteq pass.due
    PROVE  RestInv'
<1> DEFINE owned == [asset |-> a, owner |-> TopBid(a).bidder,
                     price |-> TopBid(a).amount]
<1>1. /\ TypeOK /\ HasBid(a) /\ auction[a].status \notin Terminal
      /\ SaleAllowed(a) /\ ownership' = ownership \cup {owned}
  BY DEF RoomInv, SettleSold, Unfinished, UnfinishedStatus, Live, Terminal
<1>2. /\ auction'[a].status = "SOLD"
      /\ auction'[a].winner = TopBid(a).bidder
      /\ auction'[a].currentPrice = TopBid(a).amount
      /\ \A b \in Asset \ {a} : auction'[b] = auction[b]
  <2> DEFINE row == [auction[a] EXCEPT !.status = "SOLD",
                                       !.winner = TopBid(a).bidder,
                                       !.currentPrice = TopBid(a).amount,
                                       !.version = @ + 1]
  <2>1. Record(a, row, "SOLD", TopBid(a).amount)
    BY DEF SettleSold
  <2>2. auction'[a] = row /\ \A b \in Asset \ {a} : auction'[b] = auction[b]
    BY <1>1, <2>1, RecordEffect
  <2> QED
    BY <1>1, <2>2 DEF TypeOK, AuctionRow
<1>3. \A b \in Asset : ~Unfinished(b)'
  BY <1>1, <1>2 DEF RoomInv, OneUnfinished, Unfinished, UnfinishedStatus, Live
<1>4. OneUnfinished' /\ LeaderMayOwn'
  BY <1>3 DEF OneUnfinished, LeaderMayOwn
<1>5. BidsNeedStart'
  BY <1>1, <1>2 DEF RoomInv, BidsNeedStart, HasBid, Unstarted
<1>6. DueWasStarted'
  BY <1>1, <1>2 DEF RoomInv, DueWasStarted, TypeOK, Unstarted
<1>7. LedgerKeysSpent'
  <2>1. \A e \in books.ledger : KeySpent(e)'
    BY <1>1, <1>2, SpentKeysStaySpent DEF Terminal
  <2>2. ASSUME NEW e, e.op.type = "PURCHASE", e.op.key = PurchaseKey(a),
               e.op.item = a
        PROVE  KeySpent(e)'
    BY <1>2, <2>2 DEF KeySpent
  <2> QED
    BY <2>1, <2>2, SaleEffect DEF LedgerKeysSpent
<1>8. ReservedBacksLeader'
  BY <1>3, SaleEffect DEF ReservedBacksLeader
<1>9. SaleIsConsistent'
  <2>1. \A b \in Asset : HasBid(b)' = HasBid(b) /\ TopBid(b)' = TopBid(b)
                         /\ Purchase(b)' = Purchase(b)
    BY DEF HasBid, TopBid, Purchase
  <2>2. ASSUME NEW b \in Asset, auction'[b].status = "SOLD"
        PROVE  /\ HasBid(b)
               /\ auction'[b].winner = TopBid(b).bidder
               /\ auction'[b].currentPrice = TopBid(b).amount
               /\ [asset |-> b, owner |-> TopBid(b).bidder,
                   price |-> TopBid(b).amount] \in ownership'
               /\ \E e \in books'.ledger : e.op = Purchase(b)
    <3>1. CASE b = a
      BY <1>1, <1>2, <3>1, SaleEffect
    <3>2. CASE b # a
      <4>1. /\ HasBid(b)
            /\ auction[b].winner = TopBid(b).bidder
            /\ auction[b].currentPrice = TopBid(b).amount
            /\ [asset |-> b, owner |-> TopBid(b).bidder,
                price |-> TopBid(b).amount] \in ownership
            /\ \E e \in books.ledger : e.op = Purchase(b)
        BY <1>2, <2>2, <3>2 DEF RoomInv, SaleIsConsistent
      <4> QED
        BY <1>1, <1>2, <3>2, <4>1, SaleEffect
    <3> QED
      BY <3>1, <3>2
  <2>3. \A o \in ownership : o.asset \in Asset /\ o.asset # a
    BY <1>1 DEF TypeOK, Owned, SaleAllowed
  <2>4. \A o \in ownership' : auction'[o.asset].status = "SOLD"
    BY <1>1, <1>2, <2>3 DEF RoomInv, SaleIsConsistent
  <2>5. ASSUME NEW o \in ownership, o.owner = owned.owner, a \notin Players
        PROVE  Kind(o.asset) # Kind(a)
    BY <1>1, <2>3, <2>5, KindOfAsset DEF SaleAllowed, MayOwn, OwnsKind
  <2>6. \A o1, o2 \in ownership' :
            /\ o1.asset = o2.asset => o1 = o2
            /\ o1.owner = o2.owner /\ o1.asset \notin Players
                   /\ Kind(o1.asset) = Kind(o2.asset) => o1 = o2
    <3>1. \A o1, o2 \in ownership :
              /\ o1.asset = o2.asset => o1 = o2
              /\ o1.owner = o2.owner /\ o1.asset \notin Players
                     /\ Kind(o1.asset) = Kind(o2.asset) => o1 = o2
      BY DEF RoomInv, SaleIsConsistent
    <3>2. ASSUME NEW o \in ownership
          PROVE  /\ o.asset # owned.asset
                 /\ ~(o.owner = owned.owner /\ Kind(o.asset) = Kind(owned.asset)
                        /\ (o.asset \notin Players \/ owned.asset \notin Players))
      BY <2>3, <2>5, KindOfAsset
    <3> QED
      BY <1>1, <3>1, <3>2
  <2> QED
    BY <2>1, <2>2, <2>4, <2>6 DEF SaleIsConsistent
<1>10. NothingHeldInSquadPhase'
  BY DEF NothingHeldInSquadPhase
<1> QED
  BY <1>4, <1>5, <1>6, <1>7, <1>8, <1>9, <1>10 DEF RestInv

\* A nomination preserves the invariant.
LEMMA CreateStep ==
    ASSUME RoomInv, NEW a \in Asset, NEW price \in OpeningPrices,
           NEW increment \in Increments, Nominate(a, price, increment)
    PROVE  RestInv'
<1> DEFINE row == [NoRow EXCEPT !.status = "WAITING",
                                !.openingPrice = price,
                                !.currentPrice = price,
                                !.minimumIncrement = increment]
<1>1. TypeOK /\ Record(a, row, "NOMINATED", price)
  BY DEF RoomInv, Nominate
<1>2. row.status = "WAITING"
  BY DEF NoRow
<1>3. auction'[a] = row /\ \A b \in Asset \ {a} : auction'[b] = auction[b]
  BY <1>1, RecordEffect
<1>4. /\ auction[a].status = "NONE" /\ \A b \in Asset : ~Unfinished(b)
      /\ UNCHANGED <<matchStatus, bids, books, ownership, pass>>
      /\ matchStatus # "SQUAD_BUILDING"
  BY DEF Nominate
<1>5. ~HasBid(a) /\ a \notin pass.due
  BY <1>4 DEF RoomInv, BidsNeedStart, DueWasStarted, Unstarted
<1>6. auction[a].status \notin Terminal /\ auction'[a].status = "WAITING"
  BY <1>2, <1>3, <1>4 DEF Terminal
<1>7. pass'.due \subseteq pass.due
  BY <1>4
<1> QED
  BY <1>3, <1>4, <1>5, <1>6, <1>7, StatusStep

\* A start preserves the invariant.
LEMMA StartStep ==
    ASSUME RoomInv, NEW a \in Asset, NEW duration \in Durations,
           NEW now \in Recent, StartAuction(a, duration, now)
    PROVE  RestInv'
<1> DEFINE row == [auction[a] EXCEPT !.status = "ACTIVE",
                                     !.startsAt = now,
                                     !.endsAt = now + duration,
                                     !.version = @ + 1]
<1>1. TypeOK /\ Record(a, row, "STARTED", 0)
  BY DEF RoomInv, StartAuction
<1>2. row.status = "ACTIVE"
  BY <1>1 DEF TypeOK, AuctionRow
<1>3. auction'[a] = row /\ \A b \in Asset \ {a} : auction'[b] = auction[b]
  BY <1>1, RecordEffect
<1>4. /\ auction[a].status = "WAITING" /\ matchStatus' = "AUCTION"
      /\ UNCHANGED <<bids, books, ownership, pass>>
      /\ matchStatus # "SQUAD_BUILDING"
  BY DEF StartAuction
<1>5. Unfinished(a) /\ auction[a].status \notin Terminal
  BY <1>4 DEF Unfinished, UnfinishedStatus, Terminal
<1>6. pass'.due \subseteq pass.due /\ auction'[a].status = "ACTIVE"
  BY <1>2, <1>3, <1>4
<1> QED
  BY <1>3, <1>4, <1>5, <1>6, StatusStep

\* Last call and settlement, from a list that may be old, preserve it.
LEMMA AdvanceStep ==
    ASSUME RoomInv, NEW a \in Asset, AdvanceAuction(a)
    PROVE  RestInv'
<1>1. /\ TypeOK /\ a \in pass.due
      /\ UNCHANGED <<clock, matchStatus, joined, bids>>
      /\ pass'.due \subseteq pass.due
      /\ auction[a].status \notin Terminal
  BY DEF RoomInv, AdvanceAuction, Handled
<1>2. Unfinished(a) /\ matchStatus # "SQUAD_BUILDING"
  <2>1. auction[a].status \in Status /\ auction[a].status \notin Unstarted
    BY <1>1, RowTypes DEF RoomInv, TypeOK, DueWasStarted
  <2> QED
    BY <1>1, <2>1 DEF RoomInv, NothingHeldInSquadPhase, Unfinished,
                      UnfinishedStatus, Status
<1>3. CASE EnterLastCall(a)
  <2> DEFINE row == [auction[a] EXCEPT !.status = "LAST_CALL", !.version = @ + 1]
  <2>1. Record(a, row, "LAST_CALL", 0) /\ UNCHANGED <<books, ownership>>
    BY <1>3 DEF EnterLastCall
  <2>2. auction'[a] = row /\ \A b \in Asset \ {a} : auction'[b] = auction[b]
    BY <1>1, <2>1, RecordEffect
  <2>3. auction'[a].status = "LAST_CALL"
    BY <1>1, <2>2 DEF TypeOK, AuctionRow
  <2> QED
    BY <1>1, <1>2, <2>1, <2>2, <2>3, StatusStep
<1>4. CASE SettleUnsold(a)
  <2> DEFINE row == [auction[a] EXCEPT !.status = "UNSOLD", !.version = @ + 1]
  <2>1. /\ Record(a, row, "UNSOLD", 0) /\ UNCHANGED <<books, ownership>>
        /\ ~HasBid(a)
    BY <1>4 DEF SettleUnsold
  <2>2. auction'[a] = row /\ \A b \in Asset \ {a} : auction'[b] = auction[b]
    BY <1>1, <2>1, RecordEffect
  <2>3. auction'[a].status = "UNSOLD"
    BY <1>1, <2>2 DEF TypeOK, AuctionRow
  <2> QED
    BY <1>1, <1>2, <2>1, <2>2, <2>3, StatusStep
<1>5. CASE SettleSold(a)
  BY <1>1, <1>2, <1>5, SettleSoldStep
<1> QED
  BY <1>3, <1>4, <1>5 DEF AdvanceAuction, SettleAuction

\* A step that leaves the tables of the auctions alone.
LEMMA IdleStep ==
    ASSUME RoomInv, UNCHANGED <<auction, bids, books, ownership>>,
           DueWasStarted', NothingHeldInSquadPhase'
    PROVE  RestInv'
<1>1. /\ \A a \in Asset : Unfinished(a)' = Unfinished(a)
      /\ \A a \in Asset : HasBid(a)' = HasBid(a) /\ TopBid(a)' = TopBid(a)
      /\ \A a \in Asset, p \in Participant :
             Leads(p, a)' = Leads(p, a) /\ MayOwn(p, a)' = MayOwn(p, a)
      /\ \A a \in Asset : Purchase(a)' = Purchase(a)
  BY DEF Unfinished, HasBid, TopBid, Leads, MayOwn, OwnsKind, Purchase
<1>2. OneUnfinished' /\ BidsNeedStart'
  BY <1>1 DEF RoomInv, OneUnfinished, BidsNeedStart
<1>3. LedgerKeysSpent'
  BY SpentKeysStaySpent DEF LedgerKeysSpent
<1>4. LeaderMayOwn'
  BY <1>1, TopBidType DEF RoomInv, LeaderMayOwn
<1>5. ReservedBacksLeader'
  BY <1>1 DEF RoomInv, ReservedBacksLeader
<1>6. SaleIsConsistent'
  BY <1>1 DEF RoomInv, SaleIsConsistent
<1> QED
  BY <1>2, <1>3, <1>4, <1>5, <1>6 DEF RestInv

\* Every step preserves the part of the invariant beyond the types.
LEMMA RestStep ==
    ASSUME RoomInv, [Next]_vars
    PROVE  RestInv'
<1>1. CASE \E a \in Asset : Request(a)
  BY <1>1, RequestCases, CreateStep, StartStep, PlaceBidStep, CancelStep
<1>2. CASE \E a \in Asset : AdvanceAuction(a)
  BY <1>2, AdvanceStep
<1>3. CASE \E a \in Asset : SkipAuction(a)
  BY <1>3, IdleStep DEF SkipAuction, Handled, RoomInv, DueWasStarted,
                        NothingHeldInSquadPhase, Unfinished
<1>4. CASE JoinMatch
  BY <1>4, IdleStep DEF JoinMatch, RoomInv, DueWasStarted,
                        NothingHeldInSquadPhase
<1>5. CASE StartSquadBuilding
  <2>1. \A p \in Participant : books.wallet[p].reserved = 0
    BY <1>5 DEF StartSquadBuilding, RoomInv, ReservedBacksLeader
  <2> QED
    BY <1>5, <2>1, IdleStep DEF StartSquadBuilding, RoomInv, DueWasStarted,
                                NothingHeldInSquadPhase, Unfinished
<1>6. CASE StartPass
  <2>1. DueWasStarted'
    BY <1>6 DEF StartPass, DueWasStarted, Due, Unstarted
  <2>2. NothingHeldInSquadPhase'
    BY <1>6 DEF StartPass, RoomInv, NothingHeldInSquadPhase, Unfinished
  <2> QED
    BY <1>6, <2>1, <2>2, IdleStep DEF StartPass
<1>7. CASE Crash
  BY <1>7, IdleStep DEF Crash, RoomInv, DueWasStarted,
                        NothingHeldInSquadPhase, Unfinished
<1>8. CASE Tick
  BY <1>8, IdleStep DEF Tick, RoomInv, DueWasStarted,
                        NothingHeldInSquadPhase, Unfinished
<1>9. CASE UNCHANGED vars
  BY <1>9, IdleStep DEF vars, RoomInv, DueWasStarted,
                        NothingHeldInSquadPhase, Unfinished
<1> QED
  BY <1>1, <1>2, <1>3, <1>4, <1>5, <1>6, <1>7, <1>8, <1>9 DEF Next, PassStep

\* The invariant is inductive.
LEMMA RoomInvStep == RoomInv /\ [Next]_vars => RoomInv'
<1> SUFFICES ASSUME RoomInv, [Next]_vars PROVE RoomInv'
  OBVIOUS
<1>1. TypeOK /\ BalancedBooks(books)
  BY DEF RoomInv, BudgetConserved, BalancedBooks, TypeOK
<1>2. TypeOK' /\ BalancedBooks(books')
  BY <1>1, StepTypes, StepBalanced
<1>3. BudgetConserved'
  BY <1>2 DEF BalancedBooks, BudgetConserved
<1>4. RestInv'
  BY RestStep
<1> QED
  BY <1>2, <1>3, <1>4 DEF RestInv, RoomInv

\* The invariant holds in a new match.
LEMMA RoomInvInit == Init => RoomInv
<1> SUFFICES ASSUME Init PROVE RoomInv
  OBVIOUS
<1>1. TypeOK /\ BudgetConserved
  BY InitBalanced DEF BalancedBooks, BudgetConserved
<1>2. \A a \in Asset : auction[a].status = "NONE" /\ ~HasBid(a) /\ ~Unfinished(a)
  BY DEF Init, NoRow, HasBid, Unfinished, UnfinishedStatus, Live
<1>3. ownership = {} /\ books.ledger = {} /\ pass.due = {}
      /\ matchStatus = "WAITING"
      /\ \A p \in Participant : books.wallet[p].reserved = 0
  BY DEF Init, FullWallet
<1> QED
  BY <1>1, <1>2, <1>3
  DEF RoomInv, OneUnfinished, BidsNeedStart, DueWasStarted, LedgerKeysSpent,
      LeaderMayOwn, ReservedBacksLeader, SaleIsConsistent,
      NothingHeldInSquadPhase

\* The invariant holds in every reachable state.
LEMMA RoomInvariant == Spec => []RoomInv
  BY RoomInvInit, RoomInvStep, PTL DEF Spec

\* Money is held for the leading bid of the auction in progress and for
\* nothing else (placeBid, cancelAuction, settleAuction).
THEOREM ReserveBacksLeader == Spec => []ReservedBacksLeader
<1>1. RoomInv => ReservedBacksLeader
  BY DEF RoomInv
<1> QED
  BY <1>1, RoomInvariant, PTL

\* Neither being outbid nor a cancellation nor the settlement can fail on the
\* money or the ownership of the leader.
THEOREM FundsAlwaysMove == Spec => []HeldFundsCanMove
  BY RoomInvariant, RoomInvMovesFunds, PTL

\* Auction, bid, ownership and ledger agree on every sale (settleAuction).
THEOREM SalesAreConsistent == Spec => []SaleIsConsistent
<1>1. RoomInv => SaleIsConsistent
  BY DEF RoomInv
<1> QED
  BY <1>1, RoomInvariant, PTL

\* Squads are built with no auction open and no money held.
THEOREM SquadPhaseIsSettled == Spec => []NothingHeldInSquadPhase
<1>1. RoomInv => NothingHeldInSquadPhase
  BY DEF RoomInv
<1> QED
  BY <1>1, RoomInvariant, PTL

-----------------------------------------------------------------------------
(* What a step may never do.                                               *)

\* A mutation of one auction leaves the rows of every other alone.
LEMMA RecordLeavesOthers ==
    ASSUME TypeOK, NEW a \in Asset, NEW b \in Asset \ {a},
           NEW row, NEW type, NEW amount, Record(b, row, type, amount)
    PROVE  auction'[a] = auction[a] /\ events'[a] = events[a]
  BY DEF Record, TypeOK

\* No step touches a finished auction.
LEMMA StepIsFinal ==
    ASSUME TypeOK, [Next]_vars, NEW a \in Asset, auction[a].status \in Terminal
    PROVE  /\ auction'[a] = auction[a]
           /\ bids'[a] = bids[a]
           /\ events'[a] = events[a]
<1> USE DEF Terminal
<1>1. ASSUME NEW b \in Asset, Request(b)
      PROVE  /\ auction'[a] = auction[a]
             /\ bids'[a] = bids[a]
             /\ events'[a] = events[a]
  <2>1. ASSUME NEW price \in OpeningPrices, NEW increment \in Increments,
               Nominate(b, price, increment)
        PROVE  /\ auction'[a] = auction[a] /\ events'[a] = events[a]
               /\ bids'[a] = bids[a]
    BY <2>1, RecordLeavesOthers DEF Nominate
  <2>2. ASSUME NEW duration \in Durations, NEW now \in Recent,
               StartAuction(b, duration, now)
        PROVE  /\ auction'[a] = auction[a] /\ events'[a] = events[a]
               /\ bids'[a] = bids[a]
    BY <2>2, RecordLeavesOthers DEF StartAuction
  <2>3. ASSUME NEW p \in Participant, NEW amount \in Amounts, NEW key \in Keys,
               NEW now \in Recent, PlaceBid(p, b, amount, key, now)
        PROVE  /\ auction'[a] = auction[a] /\ events'[a] = events[a]
               /\ bids'[a] = bids[a]
    <3>1. a # b
      BY <2>3 DEF PlaceBid, Live
    <3>2. auction'[a] = auction[a] /\ events'[a] = events[a]
      BY <2>3, <3>1, RecordLeavesOthers DEF PlaceBid
    <3>3. bids'[a] = bids[a]
      BY <2>3, <3>1, PlaceBidAppends
    <3> QED
      BY <3>2, <3>3
  <2>4. ASSUME NEW now \in Recent, CancelAuction(b, now)
        PROVE  /\ auction'[a] = auction[a] /\ events'[a] = events[a]
               /\ bids'[a] = bids[a]
    <3>1. a # b
      BY <2>4 DEF CancelAuction, UnfinishedStatus, Live
    <3> QED
      BY <2>4, <3>1, RecordLeavesOthers DEF CancelAuction
  <2> QED
    BY <1>1, <2>1, <2>2, <2>3, <2>4, RequestCases
<1>2. ASSUME NEW b \in Asset, AdvanceAuction(b)
      PROVE  /\ auction'[a] = auction[a]
             /\ bids'[a] = bids[a]
             /\ events'[a] = events[a]
  <2>1. a # b /\ bids'[a] = bids[a]
    BY <1>2 DEF AdvanceAuction
  <2> QED
    BY <1>2, <2>1, RecordLeavesOthers
    DEF AdvanceAuction, EnterLastCall, SettleAuction, SettleUnsold, SettleSold
<1>3. CASE UNCHANGED <<auction, bids, events>>
  BY <1>3
<1> QED
  BY <1>1, <1>2, <1>3
  DEF Next, vars, PassStep, SkipAuction, JoinMatch, StartSquadBuilding,
      StartPass, Crash, Tick

\* A finished auction never changes again, whatever a stale pass, a late bid
\* or the host asks for.
THEOREM FinishedStaysFinal == Spec => FinishedIsFinal
<1>1. TypeOK /\ [Next]_vars =>
        [\A a \in Asset :
             auction[a].status \in Terminal =>
                 /\ auction'[a] = auction[a]
                 /\ bids'[a] = bids[a]
                 /\ events'[a] = events[a]]_vars
  BY StepIsFinal
<1> QED
  BY <1>1, TypeCorrect, PTL DEF Spec, FinishedIsFinal

\* A pass never holds a reading of the clock from the future.
PassReadClock == pass.now <= clock

\* The reading of a pass is never ahead of the clock.
LEMMA PassReadsClock == Spec => [](TypeOK /\ PassReadClock)
<1>1. Init => PassReadClock
  BY DEF Init, PassReadClock
<1>2. TypeOK /\ PassReadClock /\ [Next]_vars => PassReadClock'
  <2> SUFFICES ASSUME TypeOK, PassReadClock, [Next]_vars
               PROVE  pass'.now <= clock'
    BY DEF PassReadClock
  <2>1. clock \in Nat /\ pass.now \in Nat /\ pass.now <= clock
    BY DEF TypeOK, PassReadClock
  <2>2. ASSUME NEW a \in Asset, Request(a) PROVE UNCHANGED <<clock, pass>>
    BY <2>2, RequestCases
    DEF Nominate, StartAuction, PlaceBid, CancelAuction
  <2>3. ASSUME NEW a \in Asset, PassStep(a)
        PROVE  clock' = clock /\ pass'.now \in {0, pass.now}
    BY <2>3 DEF PassStep, AdvanceAuction, SkipAuction, Handled
  <2>4. CASE StartPass \/ Crash
    BY <2>1, <2>4 DEF StartPass, Crash
  <2>5. CASE Tick
    BY <2>1, <2>5 DEF Tick
  <2>6. CASE UNCHANGED <<clock, pass>>
    BY <2>1, <2>6
  <2> QED
    BY <2>1, <2>2, <2>3, <2>4, <2>5, <2>6
    DEF Next, vars, JoinMatch, StartSquadBuilding
<1> QED
  BY <1>1, <1>2, TypeCorrect, PTL DEF Spec

\* Only the scheduler settles, and it compares the end with its reading.
LEMMA StepSettlesOnTime ==
    ASSUME TypeOK, PassReadClock, [Next]_vars, NEW a \in Asset,
           auction[a].status \in Live, auction'[a].status \in {"SOLD", "UNSOLD"}
    PROVE  auction[a].endsAt <= clock
<1>1. ASSUME NEW b \in Asset, NEW row, NEW type, NEW amount,
             Record(b, row, type, amount),
             row.status \notin {"SOLD", "UNSOLD"}
      PROVE  FALSE
  <2>1. CASE a = b
    BY <1>1, <2>1, RecordEffect
  <2>2. CASE a # b
    BY <1>1, <2>2, RecordEffect DEF Live
  <2> QED
    BY <2>1, <2>2
<1>2. ~ \E b \in Asset : Request(b)
  <2>1. ASSUME NEW b \in Asset, Request(b) PROVE FALSE
    <3>1. auction[b] \in AuctionRow
      BY DEF TypeOK
    <3>2. ASSUME NEW price \in OpeningPrices, NEW increment \in Increments,
                 Nominate(b, price, increment)
          PROVE  FALSE
      BY <1>1, <3>2 DEF Nominate, NoRow
    <3>3. ASSUME NEW duration \in Durations, NEW now \in Recent,
                 StartAuction(b, duration, now)
          PROVE  FALSE
      BY <1>1, <3>1, <3>3 DEF StartAuction, AuctionRow
    <3>4. ASSUME NEW p \in Participant, NEW amount \in Amounts,
                 NEW key \in Keys, NEW now \in Recent,
                 PlaceBid(p, b, amount, key, now)
          PROVE  FALSE
      BY <1>1, <3>1, <3>4 DEF PlaceBid, AuctionRow, Live
    <3>5. ASSUME NEW now \in Recent, CancelAuction(b, now)
          PROVE  FALSE
      BY <1>1, <3>1, <3>5 DEF CancelAuction, AuctionRow
    <3> QED
      BY <2>1, <3>2, <3>3, <3>4, <3>5, RequestCases
  <2> QED
    BY <2>1
<1>3. auction' # auction
  BY DEF Live
<1>4. PICK b \in Asset : AdvanceAuction(b)
  BY <1>2, <1>3 DEF Next, vars, PassStep, SkipAuction, JoinMatch,
                    StartSquadBuilding, StartPass, Crash, Tick
<1>5. ~EnterLastCall(b)
  <2>1. auction[b] \in AuctionRow
    BY DEF TypeOK
  <2> QED
    BY <1>1, <2>1 DEF EnterLastCall, AuctionRow
<1>6. a = b
  BY <1>4, <1>5, RecordLeavesOthers
  DEF AdvanceAuction, SettleAuction, SettleUnsold, SettleSold, Live
<1>7. auction[a].endsAt <= pass.now
  BY <1>4, <1>5, <1>6 DEF AdvanceAuction, SettleAuction
<1>8. auction[a].endsAt \in Int /\ pass.now \in Int /\ clock \in Int
  BY DEF TypeOK, AuctionRow, NoTime
<1> QED
  BY <1>7, <1>8 DEF PassReadClock

\* No auction is settled before its end, however old the reading of the clock
\* a pass works with (advanceAuctionClock, processDueAuctions).
THEOREM SettlementIsOnTime == Spec => SettledOnTime
<1>1. TypeOK /\ PassReadClock /\ [Next]_vars =>
        [\A a \in Asset :
             /\ auction[a].status \in Live
             /\ auction'[a].status \in {"SOLD", "UNSOLD"}
             => auction[a].endsAt <= clock]_vars
  BY StepSettlesOnTime
<1> QED
  BY <1>1, PassReadsClock, PTL DEF Spec, SettledOnTime

\* No step of the squad phase touches what the auctions decided.
LEMMA SquadPhaseStep ==
    ASSUME RoomInv, [Next]_vars, matchStatus = "SQUAD_BUILDING"
    PROVE  UNCHANGED <<matchStatus, auction, bids, events, books, ownership>>
<1>1. \A a \in Asset : ~Unfinished(a)
  BY DEF RoomInv, NothingHeldInSquadPhase
<1>2. ASSUME NEW a \in Asset, Request(a)
      PROVE  FALSE
  <2>1. auction[a].status \notin UnfinishedStatus
    BY <1>1 DEF Unfinished
  <2>2. \A price, increment : ~Nominate(a, price, increment)
    BY DEF Nominate
  <2>3. \A duration, now : ~StartAuction(a, duration, now)
    BY DEF StartAuction
  <2>4. \A p, amount, key, now : ~PlaceBid(p, a, amount, key, now)
    BY DEF PlaceBid
  <2>5. \A now : ~CancelAuction(a, now)
    BY <2>1 DEF CancelAuction
  <2> QED
    BY <1>2, <2>2, <2>3, <2>4, <2>5, RequestCases
<1>3. ASSUME NEW a \in Asset, AdvanceAuction(a)
      PROVE  FALSE
  <2>1. auction[a].status \in Status /\ auction[a].status \notin Unstarted
    BY <1>3, RowTypes DEF AdvanceAuction, RoomInv, TypeOK, DueWasStarted
  <2> QED
    BY <1>1, <1>3, <2>1 DEF AdvanceAuction, Status, Unfinished, UnfinishedStatus
<1> QED
  BY <1>2, <1>3
  DEF Next, vars, PassStep, SkipAuction, JoinMatch, StartSquadBuilding,
      StartPass, Crash, Tick

\* Squad building freezes the auctions, the wallets and the ownership they
\* decided, also against a scheduler pass that was under way.
THEOREM SquadPhaseStaysFrozen == Spec => SquadPhaseIsFrozen
<1>1. RoomInv /\ [Next]_vars =>
        [matchStatus = "SQUAD_BUILDING" =>
             UNCHANGED <<matchStatus, auction, bids, events, books,
                         ownership>>]_vars
  BY SquadPhaseStep
<1> QED
  BY <1>1, RoomInvariant, PTL DEF Spec, SquadPhaseIsFrozen

-----------------------------------------------------------------------------
(* The room runs an English auction.                                       *)

\* What every step needs of the state it starts from.
PromiseInv == RoomInv /\ PriceIsLastBid

\* The state of a lot, status by status.
LEMMA LotStates ==
    /\ LotState("NONE") = "idle"
    /\ LotState("WAITING") = "announced"
    /\ LotState("ACTIVE") = "open"
    /\ LotState("LAST_CALL") = "open"
    /\ LotState("SOLD") = "sold"
    /\ LotState("UNSOLD") = "unsold"
    /\ LotState("CANCELLED") = "withdrawn"
  BY DEF LotState, Live

\* A lot is open while its auction is live, and up while it is unfinished.
LEMMA OpenIsLive ==
    ASSUME TypeOK, NEW a \in Asset
    PROVE  /\ auction[a].status \in Live => LotState(auction[a].status) = "open"
           /\ Unfinished(a) <=> LotState(auction[a].status) \in {"announced", "open"}
<1>1. auction[a].status \in Status
  BY RowTypes DEF TypeOK
<1> QED
  BY <1>1, LotStates
  DEF Status, Unstarted, Live, Terminal, Unfinished, UnfinishedStatus

\* A step about one auction leaves the lots of the others.
LEMMA OtherLotsStay ==
    ASSUME NEW a \in Asset,
           \A b \in Asset \ {a} : auction'[b] = auction[b] /\ bids'[b] = bids[b]
    PROVE  \A b \in Asset \ {a} : LotOf(b)' = LotOf(b)
  BY DEF LotOf, LotLeader, HasBid, TopBid

\* An auction with bids is led by a participant, one without by nobody.
LEMMA LeaderOfLive ==
    ASSUME TypeOK, NEW a \in Asset, auction[a].status \in Live
    PROVE  /\ HasBid(a) => /\ LotLeader(a) = TopBid(a).bidder
                           /\ LotLeader(a) \in Participant
                           /\ LotLeader(a) # Nobody
           /\ ~HasBid(a) => LotLeader(a) = Nobody
  BY TopBidType, RoomAssumption DEF LotLeader, Live

\* So the table of lots changes in one place.
LEMMA OneLotMoves ==
    ASSUME NEW a \in Asset, NEW after, LotOf(a)' = after,
           \A b \in Asset \ {a} : LotOf(b)' = LotOf(b)
    PROVE  [b \in Asset |-> LotOf(b)]' =
               [[b \in Asset |-> LotOf(b)] EXCEPT ![a] = after]
<1> HIDE DEF LotOf
<1> QED
  OBVIOUS

\* A nomination announces a lot.
LEMMA NominateAnnounces ==
    ASSUME PromiseInv, NEW a \in Asset, NEW price \in OpeningPrices,
           NEW increment \in Increments, Nominate(a, price, increment)
    PROVE  Promise!Announce(a, price)
<1> DEFINE row == [NoRow EXCEPT !.status = "WAITING",
                                !.openingPrice = price,
                                !.currentPrice = price,
                                !.minimumIncrement = increment]
<1>1. TypeOK
  BY DEF PromiseInv, RoomInv
<1>2. LotOf(a).state = "idle" /\ LotOf(a).leader = Nobody
  BY LotStates DEF Nominate, LotOf, LotLeader, Live
<1>3. \A b \in Asset : LotOf(b).state \notin {"announced", "open"}
  BY <1>1, OpenIsLive DEF Nominate, LotOf
<1>4. Record(a, row, "NOMINATED", price)
  BY DEF Nominate
<1>5. auction'[a] = row /\ \A b \in Asset \ {a} : auction'[b] = auction[b]
  BY <1>1, <1>4, RecordEffect
<1>6. /\ auction'[a].status = "WAITING" /\ auction'[a].currentPrice = price
      /\ bids' = bids /\ books' = books
  BY <1>5 DEF Nominate, NoRow
<1>7. LotOf(a)' = [state |-> "announced", price |-> price, leader |-> Nobody]
  BY <1>6, LotStates DEF LotOf, LotLeader, Live
<1>8. \A b \in Asset \ {a} : LotOf(b)' = LotOf(b)
  BY <1>5, <1>6, OtherLotsStay
<1>9. LotOf(a) = [state |-> LotOf(a).state, price |-> LotOf(a).price,
                  leader |-> LotOf(a).leader]
  BY DEF LotOf
<1> HIDE DEF LotOf
<1> QED
  BY <1>2, <1>3, <1>6, <1>7, <1>8, <1>9 DEF Promise!Announce, Promise!Up

\* A start opens it.
LEMMA StartOpens ==
    ASSUME PromiseInv, NEW a \in Asset, NEW duration \in Durations,
           NEW now \in Recent, StartAuction(a, duration, now)
    PROVE  Promise!Open(a)
<1> DEFINE row == [auction[a] EXCEPT !.status = "ACTIVE",
                                     !.startsAt = now,
                                     !.endsAt = now + duration,
                                     !.version = @ + 1]
<1>1. TypeOK /\ BidsNeedStart /\ auction[a] \in AuctionRow
  BY DEF PromiseInv, RoomInv, TypeOK
<1>2. auction[a].status = "WAITING" /\ ~HasBid(a)
  BY <1>1 DEF StartAuction, BidsNeedStart, Unstarted
<1>3. LotOf(a) = [state |-> "announced", price |-> auction[a].currentPrice,
                  leader |-> Nobody]
  BY <1>2, LotStates DEF LotOf, LotLeader, Live
<1>4. Record(a, row, "STARTED", 0)
  BY DEF StartAuction
<1>5. auction'[a] = row /\ \A b \in Asset \ {a} : auction'[b] = auction[b]
  BY <1>1, <1>4, RecordEffect
<1>6. /\ auction'[a].status = "ACTIVE"
      /\ auction'[a].currentPrice = auction[a].currentPrice
      /\ bids' = bids /\ books' = books
  BY <1>1, <1>5 DEF StartAuction, AuctionRow
<1>7. LotOf(a)' = [state |-> "open", price |-> auction[a].currentPrice,
                   leader |-> Nobody]
  BY <1>2, <1>6, LotStates DEF LotOf, LotLeader, HasBid, Live
<1>8. \A b \in Asset \ {a} : LotOf(b)' = LotOf(b)
  BY <1>5, <1>6, OtherLotsStay
<1>9. [b \in Asset |-> LotOf(b)]' =
          [[b \in Asset |-> LotOf(b)] EXCEPT
               ![a] = [LotOf(a) EXCEPT !.state = "open"]]
  <2>1. [LotOf(a) EXCEPT !.state = "open"] = LotOf(a)'
    BY <1>3, <1>7
  <2> HIDE DEF LotOf
  <2> QED
    BY <1>8, <2>1, OneLotMoves
<1>10. LotOf(a).state = "announced" /\ books' = books
  BY <1>3, <1>6
<1> HIDE DEF LotOf
<1> QED
  BY <1>9, <1>10 DEF Promise!Open

\* A bid spends nothing, and its bidder can pay it beside all it has spent.
LEMMA BidIsPayable ==
    ASSUME PromiseInv, NEW p \in Participant, NEW a \in Asset,
           NEW amount \in Amounts, NEW key \in Keys, NEW now \in Recent,
           PlaceBid(p, a, amount, key, now)
    PROVE  /\ \A q \in Participant :
                  books'.wallet[q].spent = books.wallet[q].spent
           /\ books.wallet[p].spent + amount <= MatchBudget
<1> DEFINE before == AfterOutbid(p, a)
           reserve == BidReservation(p, a, amount, key)
           release == ReleaseTop(a, OutbidKey(a, Len(bids[a]) + 1))
<1>1. RoomInv /\ TypeOK /\ BalancedBooks(books)
  BY DEF PromiseInv, RoomInv, BalancedBooks, BudgetConserved, TypeOK
<1>2. \A q \in Participant : before.wallet[q].spent = books.wallet[q].spent
  <2>1. CASE Outbids(p, a)
    <3>1. HasBid(a) /\ before = Execute(books, release)
      BY <2>1 DEF Outbids, AfterOutbid
    <3>2. release.type = "RELEASE" /\ release.participant \in Participant
      BY <1>1, <3>1, OperationTypes, TopBidType
    <3>3. books.wallet \in [Participant -> WalletType]
      BY <1>1 DEF TypeOK
    <3> HIDE DEF release, before
    <3> QED
      BY <3>1, <3>2, <3>3, OnlyPurchaseSpends
  <2>2. CASE ~Outbids(p, a)
    BY <2>2 DEF AfterOutbid
  <2> QED
    BY <2>1, <2>2
<1>3. \A q \in Participant : books'.wallet[q].spent = before.wallet[q].spent
  <2>1. reserve.type = "RESERVE" /\ reserve.participant = p
    BY <1>1, OperationTypes DEF BidReservation
  <2>2. before.wallet \in [Participant -> WalletType]
    BY <1>1, AfterOutbidEffect
  <2>3. books' = Execute(before, reserve)
    BY DEF PlaceBid
  <2> HIDE DEF reserve, before
  <2> QED
    BY <2>1, <2>2, <2>3, OnlyPurchaseSpends
<1>4. books'.wallet[p] \in WalletType /\ Conserved(books'.wallet[p])
  BY <1>1, PlaceBidApplies, AppliedBalanced DEF BalancedBooks
<1>5. books'.wallet[p].reserved = amount
  BY <1>1, PlaceBidEffect
<1>6. books.wallet[p].spent = books'.wallet[p].spent
  BY <1>2, <1>3
<1>7. books'.wallet[p].spent + amount <= MatchBudget
  BY <1>4, <1>5, MatchBudgetAssumption DEF WalletType, Conserved
<1> QED
  BY <1>2, <1>3, <1>6, <1>7

\* A bid raises it.
LEMMA BidRaises ==
    ASSUME PromiseInv, NEW p \in Participant, NEW a \in Asset,
           NEW amount \in Amounts, NEW key \in Keys, NEW now \in Recent,
           PlaceBid(p, a, amount, key, now)
    PROVE  Promise!Raise(a, p, amount)
<1> DEFINE row == [auction[a] EXCEPT !.currentPrice = amount,
                                     !.version = @ + 1]
<1>1. TypeOK /\ PriceIsLastBid /\ auction[a] \in AuctionRow
  BY DEF PromiseInv, RoomInv, TypeOK
<1>2. auction[a].status \in Live /\ auction[a].status # "NONE"
  BY DEF PlaceBid, Live
<1>3. LotOf(a) = [state |-> "open", price |-> auction[a].currentPrice,
                  leader |-> LotLeader(a)]
  BY <1>1, <1>2, OpenIsLive DEF LotOf
<1>4. IF LotLeader(a) = Nobody THEN amount >= auction[a].currentPrice
                               ELSE amount > auction[a].currentPrice
  <2>1. amount \in Nat /\ amount >= MinimumBid(a)
    BY RoomAssumption DEF PlaceBid
  <2>2. CASE HasBid(a)
    <3>1. TopBid(a).amount \in Nat /\ LotLeader(a) # Nobody
      BY <1>1, <1>2, <2>2, TopBidType, LeaderOfLive
    <3>2. /\ auction[a].currentPrice = TopBid(a).amount
          /\ auction[a].minimumIncrement \in Nat \ {0}
      BY <1>1, <1>2, <2>2 DEF PriceIsLastBid, AuctionRow
    <3> QED
      BY <2>1, <2>2, <3>1, <3>2 DEF MinimumBid
  <2>3. CASE ~HasBid(a)
    <3>1. LotLeader(a) = Nobody
      BY <1>1, <1>2, <2>3, LeaderOfLive
    <3> QED
      BY <1>1, <1>2, <2>1, <2>3, <3>1 DEF PriceIsLastBid, MinimumBid
  <2> QED
    BY <2>2, <2>3
<1>5. Record(a, row, "BID_PLACED", amount)
  BY DEF PlaceBid
<1>6. auction'[a] = row /\ \A b \in Asset \ {a} : auction'[b] = auction[b]
  BY <1>1, <1>5, RecordEffect
<1>7. /\ auction'[a].status = auction[a].status
      /\ auction'[a].currentPrice = amount
  BY <1>1, <1>6 DEF AuctionRow
<1>8. /\ HasBid(a)' /\ TopBid(a)'.bidder = p
      /\ \A b \in Asset \ {a} : bids'[b] = bids[b]
  BY <1>1, PlaceBidAppends
<1>9. LotOf(a)' = [state |-> "open", price |-> amount, leader |-> p]
  BY <1>2, <1>7, <1>8, <1>1, OpenIsLive DEF LotOf, LotLeader, Live
<1>10. \A b \in Asset \ {a} : LotOf(b)' = LotOf(b)
  BY <1>6, <1>8, OtherLotsStay
<1>11. /\ \A q \in Participant :
              books'.wallet[q].spent = books.wallet[q].spent
       /\ books.wallet[p].spent + amount <= MatchBudget
  BY BidIsPayable
<1>12. [b \in Asset |-> LotOf(b)]' =
           [[b \in Asset |-> LotOf(b)] EXCEPT
                ![a] = [state |-> "open", price |-> amount, leader |-> p]]
  BY <1>9, <1>10, OneLotMoves
<1>13. LotOf(a).state = "open" /\ LotOf(a).price = auction[a].currentPrice
       /\ LotOf(a).leader = LotLeader(a)
  BY <1>3
<1> HIDE DEF LotOf
<1> QED
  BY <1>4, <1>11, <1>12, <1>13 DEF Promise!Raise

\* A cancellation spends nothing.
LEMMA CancelSpendsNothing ==
    ASSUME TypeOK, NEW a \in Asset, NEW now \in Recent, CancelAuction(a, now)
    PROVE  \A q \in Participant : books'.wallet[q].spent = books.wallet[q].spent
<1>1. CASE HasBid(a)
  <2> DEFINE release == ReleaseTop(a, CancelKey(a))
  <2>1. release.type = "RELEASE" /\ release.participant \in Participant
    BY <1>1, OperationTypes, TopBidType
  <2>2. books' = Execute(books, release)
    BY <1>1 DEF CancelAuction
  <2>3. books.wallet \in [Participant -> WalletType]
    BY DEF TypeOK
  <2> HIDE DEF release
  <2>4. \A q \in Participant :
            Execute(books, release).wallet[q].spent = books.wallet[q].spent
    BY <2>1, <2>3, OnlyPurchaseSpends
  <2> QED
    BY <2>2, <2>4
<1>2. CASE ~HasBid(a)
  BY <1>2 DEF CancelAuction
<1> QED
  BY <1>1, <1>2

\* A cancellation withdraws it.
LEMMA CancelWithdraws ==
    ASSUME PromiseInv, NEW a \in Asset, NEW now \in Recent,
           CancelAuction(a, now)
    PROVE  Promise!Withdraw(a)
<1> DEFINE row == [auction[a] EXCEPT !.status = "CANCELLED",
                                     !.endsAt = now,
                                     !.version = @ + 1]
<1>1. TypeOK /\ auction[a] \in AuctionRow /\ Unfinished(a)
  BY DEF PromiseInv, RoomInv, TypeOK, CancelAuction, Unfinished
<1>2. LotOf(a).state \in {"announced", "open"}
  BY <1>1, OpenIsLive DEF LotOf
<1>3. LotOf(a) = [state |-> LotOf(a).state, price |-> auction[a].currentPrice,
                  leader |-> LotLeader(a)]
  BY DEF LotOf
<1>4. Record(a, row, "CANCELLED", 0)
  BY DEF CancelAuction
<1>5. auction'[a] = row /\ \A b \in Asset \ {a} : auction'[b] = auction[b]
  BY <1>1, <1>4, RecordEffect
<1>6. /\ auction'[a].status = "CANCELLED"
      /\ auction'[a].currentPrice = auction[a].currentPrice
      /\ bids' = bids
  BY <1>1, <1>5 DEF CancelAuction, AuctionRow
<1>7. LotOf(a)' = [state |-> "withdrawn", price |-> auction[a].currentPrice,
                   leader |-> Nobody]
  BY <1>6, LotStates DEF LotOf, LotLeader, Live
<1>8. \A b \in Asset \ {a} : LotOf(b)' = LotOf(b)
  BY <1>5, <1>6, OtherLotsStay
<1>9. [b \in Asset |-> LotOf(b)]' =
          [[b \in Asset |-> LotOf(b)] EXCEPT
               ![a] = [state |-> "withdrawn", price |-> LotOf(a).price,
                       leader |-> Nobody]]
  BY <1>3, <1>7, <1>8, OneLotMoves
<1>10. \A q \in Participant : books'.wallet[q].spent = books.wallet[q].spent
  BY <1>1, CancelSpendsNothing
<1> HIDE DEF LotOf
<1> QED
  BY <1>2, <1>9, <1>10 DEF Promise!Withdraw, Promise!Up

\* The last call is nothing a bidder notices.
LEMMA LastCallIsQuiet ==
    ASSUME PromiseInv, NEW a \in Asset, EnterLastCall(a), bids' = bids
    PROVE  UNCHANGED Promise!vars
<1> DEFINE row == [auction[a] EXCEPT !.status = "LAST_CALL", !.version = @ + 1]
<1>1. TypeOK /\ auction[a] \in AuctionRow
  BY DEF PromiseInv, RoomInv, TypeOK
<1>2. Record(a, row, "LAST_CALL", 0)
  BY DEF EnterLastCall
<1>3. auction'[a] = row /\ \A b \in Asset \ {a} : auction'[b] = auction[b]
  BY <1>1, <1>2, RecordEffect
<1>4. /\ auction'[a].status = "LAST_CALL"
      /\ auction'[a].currentPrice = auction[a].currentPrice
      /\ auction[a].status = "ACTIVE" /\ books' = books
  BY <1>1, <1>3 DEF EnterLastCall, AuctionRow
<1>5. LotOf(a)' = LotOf(a)
  BY <1>4, LotStates DEF LotOf, LotLeader, HasBid, TopBid, Live
<1>6. \A b \in Asset \ {a} : LotOf(b)' = LotOf(b)
  BY <1>3, OtherLotsStay
<1>7. [b \in Asset |-> LotOf(b)]' = [b \in Asset |-> LotOf(b)]
  <2> HIDE DEF LotOf
  <2> QED
    BY <1>5, <1>6
<1> QED
  BY <1>4, <1>7 DEF Promise!vars

\* Without a bid it is passed over.
LEMMA UnsoldPassesOver ==
    ASSUME PromiseInv, NEW a \in Asset, auction[a].status \in Live,
           SettleUnsold(a), bids' = bids
    PROVE  Promise!PassOver(a)
<1> DEFINE row == [auction[a] EXCEPT !.status = "UNSOLD", !.version = @ + 1]
<1>1. TypeOK /\ auction[a] \in AuctionRow /\ ~HasBid(a)
  BY DEF PromiseInv, RoomInv, TypeOK, SettleUnsold
<1>2. LotOf(a) = [state |-> "open", price |-> auction[a].currentPrice,
                  leader |-> Nobody]
  BY <1>1, OpenIsLive, LeaderOfLive DEF LotOf
<1>3. Record(a, row, "UNSOLD", 0)
  BY DEF SettleUnsold
<1>4. auction'[a] = row /\ \A b \in Asset \ {a} : auction'[b] = auction[b]
  BY <1>1, <1>3, RecordEffect
<1>5. /\ auction'[a].status = "UNSOLD"
      /\ auction'[a].currentPrice = auction[a].currentPrice
      /\ books' = books
  BY <1>1, <1>4 DEF SettleUnsold, AuctionRow
<1>6. LotOf(a)' = [state |-> "unsold", price |-> auction[a].currentPrice,
                   leader |-> Nobody]
  BY <1>5, LotStates DEF LotOf, LotLeader, Live
<1>7. \A b \in Asset \ {a} : LotOf(b)' = LotOf(b)
  BY <1>4, OtherLotsStay
<1>8. [b \in Asset |-> LotOf(b)]' =
          [[b \in Asset |-> LotOf(b)] EXCEPT
               ![a] = [LotOf(a) EXCEPT !.state = "unsold"]]
  <2>1. [LotOf(a) EXCEPT !.state = "unsold"] = LotOf(a)'
    BY <1>2, <1>6
  <2> HIDE DEF LotOf
  <2> QED
    BY <1>7, <2>1, OneLotMoves
<1>9. LotOf(a).state = "open" /\ LotOf(a).leader = Nobody /\ books' = books
  BY <1>2, <1>5
<1> HIDE DEF LotOf
<1> QED
  BY <1>8, <1>9 DEF Promise!PassOver

\* What a sale moves in the books: the leading bid, from the reserve of the
\* bidder to what it spent.
LEMMA SaleCharges ==
    ASSUME RoomInv, NEW a \in Asset, auction[a].status \in Live, SettleSold(a)
    PROVE  /\ TopBid(a).bidder \in Participant /\ TopBid(a).amount \in Nat
           /\ \A q \in Participant :
                  books'.wallet[q].spent =
                      IF q = TopBid(a).bidder
                        THEN books.wallet[q].spent + TopBid(a).amount
                        ELSE books.wallet[q].spent
<1> DEFINE leader == TopBid(a).bidder
           purchase == Purchase(a)
           after == Moved(books.wallet[leader], purchase)
<1>1. TypeOK /\ HasBid(a) /\ LedgerKeysSpent
  BY DEF RoomInv, SettleSold
<1>2. leader \in Participant /\ TopBid(a).amount \in Nat
  BY <1>1, TopBidType
<1>3. books'.wallet = [books.wallet EXCEPT ![leader] = after]
  <2>1. Recorded(books, purchase) = {}
    BY <1>1, PurchaseKeyNew DEF Live
  <2>2. books' = Execute(books, purchase) /\ purchase.participant = leader
    BY <1>1, OperationTypes DEF SettleSold
  <2> HIDE DEF purchase, leader
  <2> QED
    BY <2>1, <2>2, ExecuteNew
<1>4. after.spent = books.wallet[leader].spent + TopBid(a).amount
  BY <1>1, OperationTypes DEF Moved
<1>5. books.wallet \in [Participant -> WalletType]
  BY <1>1 DEF TypeOK
<1> HIDE DEF after, leader
<1>6. \A q \in Participant :
          books'.wallet[q].spent = IF q = leader
                                     THEN books.wallet[q].spent + TopBid(a).amount
                                     ELSE books.wallet[q].spent
  BY <1>2, <1>3, <1>4, <1>5
<1> QED
  BY <1>2, <1>6 DEF leader

\* A sale knocks it down, and the leader pays what it bid last.
LEMMA SaleKnocksDown ==
    ASSUME PromiseInv, NEW a \in Asset, auction[a].status \in Live,
           SettleSold(a), bids' = bids
    PROVE  Promise!KnockDown(a)
<1> DEFINE row == [auction[a] EXCEPT !.status = "SOLD",
                                     !.winner = TopBid(a).bidder,
                                     !.currentPrice = TopBid(a).amount,
                                     !.version = @ + 1]
           leader == TopBid(a).bidder
<1>1. /\ TypeOK /\ auction[a] \in AuctionRow /\ HasBid(a)
      /\ auction[a].currentPrice = TopBid(a).amount
  BY DEF PromiseInv, RoomInv, TypeOK, SettleSold, PriceIsLastBid, Live
<1>2. leader \in Participant /\ TopBid(a).amount \in Nat /\ leader # Nobody
  BY <1>1, TopBidType, RoomAssumption
<1>3. LotOf(a) = [state |-> "open", price |-> TopBid(a).amount,
                  leader |-> leader]
  BY <1>1, OpenIsLive, LeaderOfLive DEF LotOf
<1>4. Record(a, row, "SOLD", TopBid(a).amount)
  BY DEF SettleSold
<1>5. auction'[a] = row /\ \A b \in Asset \ {a} : auction'[b] = auction[b]
  BY <1>1, <1>4, RecordEffect
<1>6. /\ auction'[a].status = "SOLD"
      /\ auction'[a].currentPrice = TopBid(a).amount
      /\ auction'[a].winner = leader
  BY <1>1, <1>5 DEF AuctionRow
<1>7. LotOf(a)' = [state |-> "sold", price |-> TopBid(a).amount,
                   leader |-> leader]
  BY <1>6, LotStates DEF LotOf, LotLeader
<1>8. \A b \in Asset \ {a} : LotOf(b)' = LotOf(b)
  BY <1>5, OtherLotsStay
<1>9. [b \in Asset |-> LotOf(b)]' =
          [[b \in Asset |-> LotOf(b)] EXCEPT
               ![a] = [LotOf(a) EXCEPT !.state = "sold"]]
  <2>1. [LotOf(a) EXCEPT !.state = "sold"] = LotOf(a)'
    BY <1>3, <1>7
  <2> HIDE DEF LotOf
  <2> QED
    BY <1>8, <2>1, OneLotMoves
<1>10. [p \in Participant |-> books.wallet[p].spent]' =
           [[p \in Participant |-> books.wallet[p].spent] EXCEPT
                ![leader] = @ + TopBid(a).amount]
  <2>1. \A q \in Participant :
            books'.wallet[q].spent = IF q = leader
                                       THEN books.wallet[q].spent + TopBid(a).amount
                                       ELSE books.wallet[q].spent
    BY SaleCharges DEF PromiseInv
  <2> HIDE DEF leader
  <2> QED
    BY <1>2, <2>1
<1>11. /\ LotOf(a).state = "open" /\ LotOf(a).leader = leader
       /\ LotOf(a).price = TopBid(a).amount
  BY <1>3
<1> HIDE DEF LotOf, leader
<1> QED
  BY <1>2, <1>9, <1>10, <1>11 DEF Promise!KnockDown

\* Prices of auctions whose rows and bids a step leaves stay explained.
LEMMA PriceOfOthers ==
    ASSUME PriceIsLastBid, NEW a \in Asset,
           \A b \in Asset \ {a} : auction'[b] = auction[b] /\ bids'[b] = bids[b],
           auction'[a].status # "NONE" =>
               /\ auction'[a].minimumIncrement # 0
               /\ auction'[a].currentPrice =
                      (IF HasBid(a) THEN TopBid(a).amount
                                    ELSE auction[a].openingPrice)'
    PROVE  PriceIsLastBid'
  BY DEF PriceIsLastBid, HasBid, TopBid

\* A step that moves an auction on without touching its price or its bids.
LEMMA PriceOfMoved ==
    ASSUME PromiseInv, NEW a \in Asset, NEW row, NEW type, NEW amount,
           Record(a, row, type, amount), bids' = bids,
           auction[a].status # "NONE",
           row.minimumIncrement = auction[a].minimumIncrement,
           row.openingPrice = auction[a].openingPrice,
           row.currentPrice = IF HasBid(a) THEN TopBid(a).amount
                                           ELSE auction[a].openingPrice
    PROVE  PriceIsLastBid'
<1>1. TypeOK /\ PriceIsLastBid
  BY DEF PromiseInv, RoomInv
<1>2. auction'[a] = row /\ \A b \in Asset \ {a} : auction'[b] = auction[b]
  BY <1>1, RecordEffect
<1>3. HasBid(a)' = HasBid(a) /\ TopBid(a)' = TopBid(a)
  BY DEF HasBid, TopBid
<1>4. /\ auction'[a].minimumIncrement # 0
      /\ auction'[a].currentPrice =
             (IF HasBid(a) THEN TopBid(a).amount
                           ELSE auction[a].openingPrice)'
  BY <1>1, <1>2, <1>3 DEF PriceIsLastBid
<1> QED
  BY <1>1, <1>2, <1>4, PriceOfOthers

\* Every step leaves the current price explained by the bids.
LEMMA PriceStep == PromiseInv /\ [Next]_vars => PriceIsLastBid'
<1> SUFFICES ASSUME PromiseInv, [Next]_vars PROVE PriceIsLastBid'
  OBVIOUS
<1>1. TypeOK /\ BidsNeedStart /\ PriceIsLastBid
  BY DEF PromiseInv, RoomInv
<1>2. \A a \in Asset : auction[a] \in AuctionRow
  BY <1>1 DEF TypeOK
<1>3. \A a \in Asset : auction[a].status # "NONE" =>
          auction[a].currentPrice = IF HasBid(a) THEN TopBid(a).amount
                                                 ELSE auction[a].openingPrice
  BY <1>1 DEF PriceIsLastBid
<1>4. ASSUME NEW a \in Asset, NEW price \in OpeningPrices,
             NEW increment \in Increments, Nominate(a, price, increment)
      PROVE  PriceIsLastBid'
  <2> DEFINE row == [NoRow EXCEPT !.status = "WAITING",
                                  !.openingPrice = price,
                                  !.currentPrice = price,
                                  !.minimumIncrement = increment]
  <2>1. Record(a, row, "NOMINATED", price) /\ bids' = bids
    BY <1>4 DEF Nominate
  <2>2. auction'[a] = row /\ \A b \in Asset \ {a} : auction'[b] = auction[b]
    BY <1>1, <2>1, RecordEffect
  <2>3. /\ auction'[a].minimumIncrement # 0
        /\ auction'[a].currentPrice = auction'[a].openingPrice
    BY <2>2, RoomAssumption DEF NoRow
  <2>4. ~HasBid(a)'
    BY <1>1, <1>4, <2>1 DEF Nominate, BidsNeedStart, Unstarted, HasBid
  <2> HIDE DEF row
  <2> QED
    BY <1>1, <2>1, <2>2, <2>3, <2>4, PriceOfOthers
<1>5. ASSUME NEW a \in Asset, NEW duration \in Durations, NEW now \in Recent,
             StartAuction(a, duration, now)
      PROVE  PriceIsLastBid'
  <2> DEFINE row == [auction[a] EXCEPT !.status = "ACTIVE",
                                       !.startsAt = now,
                                       !.endsAt = now + duration,
                                       !.version = @ + 1]
  <2>1. Record(a, row, "STARTED", 0) /\ bids' = bids /\ auction[a].status # "NONE"
    BY <1>5 DEF StartAuction
  <2>2. /\ row.minimumIncrement = auction[a].minimumIncrement
        /\ row.openingPrice = auction[a].openingPrice
        /\ row.currentPrice = auction[a].currentPrice
    BY <1>2 DEF AuctionRow
  <2> HIDE DEF row
  <2> QED
    BY <1>3, <2>1, <2>2, PriceOfMoved
<1>6. ASSUME NEW p \in Participant, NEW a \in Asset, NEW amount \in Amounts,
             NEW key \in Keys, NEW now \in Recent,
             PlaceBid(p, a, amount, key, now)
      PROVE  PriceIsLastBid'
  <2> DEFINE row == [auction[a] EXCEPT !.currentPrice = amount,
                                       !.version = @ + 1]
  <2>1. Record(a, row, "BID_PLACED", amount) /\ auction[a].status # "NONE"
    BY <1>6 DEF PlaceBid, Live
  <2>2. auction'[a] = row /\ \A b \in Asset \ {a} : auction'[b] = auction[b]
    BY <1>1, <2>1, RecordEffect
  <2>3. /\ auction'[a].minimumIncrement = auction[a].minimumIncrement
        /\ auction'[a].currentPrice = amount
    BY <1>2, <2>2 DEF AuctionRow
  <2>4. /\ HasBid(a)' /\ TopBid(a)'.amount = amount
        /\ \A b \in Asset \ {a} : bids'[b] = bids[b]
    BY <1>1, <1>6, PlaceBidAppends
  <2>5. auction[a].minimumIncrement # 0
    BY <1>1, <2>1 DEF PriceIsLastBid
  <2> HIDE DEF row
  <2> QED
    BY <1>1, <2>2, <2>3, <2>4, <2>5, PriceOfOthers
<1>7. ASSUME NEW a \in Asset, NEW now \in Recent, CancelAuction(a, now)
      PROVE  PriceIsLastBid'
  <2> DEFINE row == [auction[a] EXCEPT !.status = "CANCELLED",
                                       !.endsAt = now,
                                       !.version = @ + 1]
  <2>1. Record(a, row, "CANCELLED", 0) /\ bids' = bids
        /\ auction[a].status # "NONE"
    BY <1>7 DEF CancelAuction, UnfinishedStatus, Live
  <2>2. /\ row.minimumIncrement = auction[a].minimumIncrement
        /\ row.openingPrice = auction[a].openingPrice
        /\ row.currentPrice = auction[a].currentPrice
    BY <1>2 DEF AuctionRow
  <2> HIDE DEF row
  <2> QED
    BY <1>3, <2>1, <2>2, PriceOfMoved
<1>8. ASSUME NEW a \in Asset, AdvanceAuction(a)
      PROVE  PriceIsLastBid'
  <2>1. bids' = bids /\ auction[a].status # "NONE"
    BY <1>1, <1>8 DEF AdvanceAuction, RoomInv, PromiseInv, DueWasStarted,
                      Unstarted
  <2>2. CASE EnterLastCall(a)
    <3> DEFINE row == [auction[a] EXCEPT !.status = "LAST_CALL",
                                         !.version = @ + 1]
    <3>1. Record(a, row, "LAST_CALL", 0)
      BY <2>2 DEF EnterLastCall
    <3>2. /\ row.minimumIncrement = auction[a].minimumIncrement
          /\ row.openingPrice = auction[a].openingPrice
          /\ row.currentPrice = auction[a].currentPrice
      BY <1>2 DEF AuctionRow
    <3> HIDE DEF row
    <3> QED
      BY <1>3, <2>1, <3>1, <3>2, PriceOfMoved
  <2>3. CASE SettleUnsold(a)
    <3> DEFINE row == [auction[a] EXCEPT !.status = "UNSOLD",
                                         !.version = @ + 1]
    <3>1. Record(a, row, "UNSOLD", 0)
      BY <2>3 DEF SettleUnsold
    <3>2. /\ row.minimumIncrement = auction[a].minimumIncrement
          /\ row.openingPrice = auction[a].openingPrice
          /\ row.currentPrice = auction[a].currentPrice
      BY <1>2 DEF AuctionRow
    <3> HIDE DEF row
    <3> QED
      BY <1>3, <2>1, <3>1, <3>2, PriceOfMoved
  <2>4. CASE SettleSold(a)
    <3> DEFINE row == [auction[a] EXCEPT !.status = "SOLD",
                                         !.winner = TopBid(a).bidder,
                                         !.currentPrice = TopBid(a).amount,
                                         !.version = @ + 1]
    <3>1. Record(a, row, "SOLD", TopBid(a).amount) /\ HasBid(a)
      BY <2>4 DEF SettleSold
    <3>2. /\ row.minimumIncrement = auction[a].minimumIncrement
          /\ row.openingPrice = auction[a].openingPrice
          /\ row.currentPrice = TopBid(a).amount
      BY <1>2 DEF AuctionRow
    <3> HIDE DEF row
    <3> QED
      BY <2>1, <3>1, <3>2, PriceOfMoved
  <2> QED
    BY <1>8, <2>2, <2>3, <2>4 DEF AdvanceAuction, SettleAuction
<1>9. CASE UNCHANGED <<auction, bids>>
  BY <1>1, <1>9 DEF PriceIsLastBid, HasBid, TopBid
<1>10. ASSUME NEW a \in Asset, Request(a) PROVE PriceIsLastBid'
  BY <1>4, <1>5, <1>6, <1>7, <1>10, RequestCases
<1> QED
  BY <1>8, <1>9, <1>10
  DEF Next, vars, PassStep, SkipAuction, JoinMatch, StartSquadBuilding,
      StartPass, Crash, Tick

\* A new match is a new auction.
LEMMA PromiseInit == Init => Promise!Init /\ PriceIsLastBid
<1> SUFFICES ASSUME Init PROVE Promise!Init /\ PriceIsLastBid
  OBVIOUS
<1>1. \A a \in Asset : auction[a] = NoRow
  BY DEF Init
<1>2. \A a \in Asset :
          LotOf(a) = [state |-> "idle", price |-> 0, leader |-> Nobody]
  BY <1>1, LotStates DEF NoRow, LotOf, LotLeader, Live
<1>3. \A p \in Participant : books.wallet[p].spent = 0
  BY DEF Init, FullWallet
<1>4. PriceIsLastBid
  BY <1>1 DEF PriceIsLastBid, NoRow
<1> HIDE DEF LotOf
<1> QED
  BY <1>2, <1>3, <1>4 DEF Promise!Init

\* A step that changes no auction, bid or payment is none of the promise's.
LEMMA QuietSteps ==
    ASSUME UNCHANGED <<auction, bids, books>>
    PROVE  UNCHANGED Promise!vars
  BY DEF Promise!vars, LotOf, LotLeader, HasBid, TopBid

\* Every step of the room is a step of the English auction, or none.
LEMMA PromiseStep == PromiseInv /\ [Next]_vars => [Promise!Next]_(Promise!vars)
<1> SUFFICES ASSUME PromiseInv, [Next]_vars
             PROVE  Promise!Next \/ UNCHANGED Promise!vars
  OBVIOUS
<1>1. ASSUME NEW a \in Asset, Request(a) PROVE Promise!Next
  <2>1. ASSUME NEW price \in OpeningPrices, NEW increment \in Increments,
               Nominate(a, price, increment)
        PROVE  Promise!Next
    BY <2>1, NominateAnnounces DEF Promise!Next
  <2>2. ASSUME NEW duration \in Durations, NEW now \in Recent,
               StartAuction(a, duration, now)
        PROVE  Promise!Next
    BY <2>2, StartOpens DEF Promise!Next
  <2>3. ASSUME NEW p \in Participant, NEW amount \in Amounts, NEW key \in Keys,
               NEW now \in Recent, PlaceBid(p, a, amount, key, now)
        PROVE  Promise!Next
    <3>1. Promise!Raise(a, p, amount)
      BY <2>3, BidRaises
    <3>2. amount \in Nat \ {0} /\ books.wallet[p].spent + amount <= MatchBudget
          /\ books.wallet[p].spent \in Nat
      BY <2>3, BidIsPayable, RoomAssumption
      DEF PromiseInv, RoomInv, TypeOK, WalletType
    <3>3. amount \in 1 .. MatchBudget
      BY <3>2, MatchBudgetAssumption
    <3> QED
      BY <3>1, <3>3 DEF Promise!Next
  <2>4. ASSUME NEW now \in Recent, CancelAuction(a, now)
        PROVE  Promise!Next
    BY <2>4, CancelWithdraws DEF Promise!Next
  <2> QED
    BY <1>1, <2>1, <2>2, <2>3, <2>4, RequestCases
<1>2. ASSUME NEW a \in Asset, AdvanceAuction(a)
      PROVE  Promise!Next \/ UNCHANGED Promise!vars
  <2>1. auction[a].status \in Live /\ bids' = bids
    BY <1>2, RowTypes
    DEF AdvanceAuction, PromiseInv, RoomInv, TypeOK, DueWasStarted, Status
  <2>2. CASE EnterLastCall(a)
    BY <2>1, <2>2, LastCallIsQuiet
  <2>3. CASE SettleUnsold(a)
    BY <2>1, <2>3, UnsoldPassesOver DEF Promise!Next
  <2>4. CASE SettleSold(a)
    BY <2>1, <2>4, SaleKnocksDown DEF Promise!Next
  <2> QED
    BY <1>2, <2>2, <2>3, <2>4 DEF AdvanceAuction, SettleAuction
<1>3. CASE UNCHANGED <<auction, bids, books>>
  BY <1>3, QuietSteps
<1> QED
  BY <1>1, <1>2, <1>3
  DEF Next, vars, PassStep, SkipAuction, JoinMatch, StartSquadBuilding,
      StartPass, Crash, Tick

\* The prices are explained in every reachable state.
LEMMA PromiseInvariant == Spec => []PromiseInv
<1>1. Init => PromiseInv
  BY RoomInvInit, PromiseInit DEF PromiseInv
<1>2. PromiseInv /\ [Next]_vars => PromiseInv'
  BY RoomInvStep, PriceStep DEF PromiseInv
<1> QED
  BY <1>1, <1>2, PTL DEF Spec

\* The auction engine, with its transactions, retries, scheduler passes and
\* crashes, implements an English auction: one lot at a time, rising bids
\* nobody makes with money already paid, and a sale to the last bidder at the
\* price it bid.
THEOREM RoomRunsEnglishAuction == Spec => RunsEnglishAuction
<1>1. Init => Promise!Init
  BY PromiseInit
<1>2. PromiseInv /\ [Next]_vars => [Promise!Next]_(Promise!vars)
  BY PromiseStep
<1> QED
  BY <1>1, <1>2, PromiseInvariant, PTL DEF Spec, RunsEnglishAuction, Promise!Spec


-----------------------------------------------------------------------------
(* The money adds up.                                                      *)

RowsIn(b, p, type) == {e \in b.ledger : /\ e.op.participant = p
                                        /\ e.op.type = type}
TotalIn(b, p, type) == SumOf([e \in RowsIn(b, p, type) |-> e.op.amount])

Countable(b) == IsFiniteSet(b.ledger) /\ \A e \in b.ledger : e.op.amount \in Nat

\* LedgerExplainsWallet of any books.
Explained(b, p) ==
    /\ b.wallet[p].reserved = TotalIn(b, p, "RESERVE") - TotalIn(b, p, "RELEASE")
                                  - TotalIn(b, p, "PURCHASE")
    /\ b.wallet[p].spent = TotalIn(b, p, "PURCHASE")
    /\ \/ b.wallet[p] = FullWallet
       \/ \E e \in b.ledger : e.op.participant = p /\ e.after = b.wallet[p]

AccountedBooks(b) == Countable(b) /\ \A p \in Participant : Explained(b, p)

\* A new row counts once, for its participant and type.
LEMMA TotalGrows ==
    ASSUME NEW b, NEW after, NEW e, Countable(b), e \notin b.ledger,
           after.ledger = b.ledger \cup {e}, e.op.amount \in Nat,
           NEW p, NEW type
    PROVE  /\ TotalIn(b, p, type) \in Int
           /\ TotalIn(after, p, type) =
                  IF e.op.participant = p /\ e.op.type = type
                    THEN TotalIn(b, p, type) + e.op.amount
                    ELSE TotalIn(b, p, type)
<1> DEFINE D == RowsIn(b, p, type)
           f == [x \in D |-> x.op.amount]
<1>1. D \subseteq b.ledger /\ IsFiniteSet(D) /\ f \in [D -> Int]
  <2>1. D \in SUBSET b.ledger
    BY DEF RowsIn
  <2> QED
    BY <2>1, FS_Subset DEF Countable
<1>2. SumOf(f) \in Int
  <2> HIDE DEF f, D
  <2> QED
    BY <1>1, SumType
<1>3. CASE e.op.participant = p /\ e.op.type = type
  <2> DEFINE g == [x \in D \cup {e} |-> x.op.amount]
  <2>1. RowsIn(after, p, type) = D \cup {e}
    BY <1>3 DEF RowsIn
  <2>2. /\ e \notin D /\ g \in [D \cup {e} -> Int] /\ g[e] = e.op.amount
        /\ \A x \in D : g[x] = f[x]
    BY <1>1
  <2>3. SumOf(g) = SumOf(f) + g[e]
    <3>1. /\ IsFiniteSet(D) /\ e \notin D /\ f \in [D -> Int]
          /\ g \in [D \cup {e} -> Int] /\ \A x \in D : g[x] = f[x]
      BY <1>1, <2>2
    <3> HIDE DEF f, g, D
    <3> QED
      BY <3>1, SumGrows
  <2> QED
    BY <1>2, <1>3, <2>1, <2>2, <2>3 DEF TotalIn
<1>4. CASE ~(e.op.participant = p /\ e.op.type = type)
  <2>1. RowsIn(after, p, type) = D
    BY <1>4 DEF RowsIn
  <2> QED
    BY <1>2, <1>4, <2>1 DEF TotalIn
<1> QED
  BY <1>3, <1>4

\* An operation moves in the wallet what its row adds to the sums.
LEMMA ExecuteAccounted ==
    ASSUME NEW b, NEW op, BalancedBooks(b), AccountedBooks(b), Permits(b, op)
    PROVE  AccountedBooks(Execute(b, op))
<1>1. CASE Recorded(b, op) # {}
  BY <1>1 DEF Execute
<1>2. CASE Recorded(b, op) = {}
  <2> DEFINE q == op.participant
             w == Moved(b.wallet[q], op)
             e == [op |-> op, after |-> w]
             after == Execute(b, op)
  <2>1. /\ after.wallet = [b.wallet EXCEPT ![q] = w]
        /\ after.ledger = b.ledger \cup {e}
    BY <1>2, ExecuteNew
  <2>2. /\ op.amount \in Nat /\ q \in Participant
        /\ b.wallet[q] \in WalletType
        /\ op.type \in OperationType
    BY MatchBudgetAssumption DEF Permits, Permitted, BalancedBooks
  <2>3. e \notin b.ledger
    BY <1>2 DEF Recorded
  <2>4. e.op = op /\ e.op.amount \in Nat /\ e.after = w
    BY <2>2
  <2>5. e \in after.ledger
    BY <2>1
  <2> HIDE DEF after, w, e
  <2>6. Countable(after)
    <3>1. IsFiniteSet(b.ledger \cup {e})
      BY FS_AddElement DEF AccountedBooks, Countable
    <3> QED
      BY <2>1, <2>4, <3>1 DEF AccountedBooks, Countable
  <2>7. \A p, type : /\ TotalIn(b, p, type) \in Int
                     /\ TotalIn(after, p, type) =
                            IF q = p /\ op.type = type
                              THEN TotalIn(b, p, type) + op.amount
                              ELSE TotalIn(b, p, type)
    <3>1. Countable(b) /\ after.ledger = b.ledger \cup {e}
      BY <2>1 DEF AccountedBooks
    <3>2. e.op.participant = q /\ e.op.type = op.type /\ e.op.amount = op.amount
      BY <2>4
    <3> SUFFICES ASSUME NEW p, NEW type
                 PROVE  /\ TotalIn(b, p, type) \in Int
                        /\ TotalIn(after, p, type) =
                               IF q = p /\ op.type = type
                                 THEN TotalIn(b, p, type) + op.amount
                                 ELSE TotalIn(b, p, type)
      OBVIOUS
    <3>3. /\ TotalIn(b, p, type) \in Int
          /\ TotalIn(after, p, type) =
                 IF e.op.participant = p /\ e.op.type = type
                   THEN TotalIn(b, p, type) + e.op.amount
                   ELSE TotalIn(b, p, type)
      BY <2>3, <2>4, <3>1, TotalGrows
    <3> QED
      BY <3>2, <3>3
  <2>8. ASSUME NEW p \in Participant, p # q PROVE Explained(after, p)
    <3>1. after.wallet[p] = b.wallet[p]
      BY <2>1, <2>8 DEF BalancedBooks
    <3>2. \A type : TotalIn(after, p, type) = TotalIn(b, p, type)
      BY <2>7, <2>8
    <3>3. b.ledger \subseteq after.ledger
      BY <2>1
    <3> QED
      BY <3>1, <3>2, <3>3 DEF AccountedBooks, Explained
  <2>9. Explained(after, q)
    <3>1. after.wallet[q] = w
      BY <2>1, <2>2 DEF BalancedBooks
    <3>2. Explained(b, q)
      BY <2>2 DEF AccountedBooks
    <3> DEFINE held == TotalIn(b, q, "RESERVE")
               freed == TotalIn(b, q, "RELEASE")
               paid == TotalIn(b, q, "PURCHASE")
    <3>3. /\ held \in Int /\ freed \in Int /\ paid \in Int
          /\ b.wallet[q].reserved = held - freed - paid
          /\ b.wallet[q].spent = paid
      BY <2>7, <3>2 DEF Explained
    <3>4. /\ TotalIn(after, q, "RESERVE") =
                 IF op.type = "RESERVE" THEN held + op.amount ELSE held
          /\ TotalIn(after, q, "RELEASE") =
                 IF op.type = "RELEASE" THEN freed + op.amount ELSE freed
          /\ TotalIn(after, q, "PURCHASE") =
                 IF op.type = "PURCHASE" THEN paid + op.amount ELSE paid
      BY <2>7
    <3>5. /\ w.reserved = IF op.type = "RESERVE" THEN b.wallet[q].reserved + op.amount
                                                 ELSE b.wallet[q].reserved - op.amount
          /\ w.spent = IF op.type = "PURCHASE" THEN b.wallet[q].spent + op.amount
                                               ELSE b.wallet[q].spent
      BY <2>2 DEF w, Moved, OperationType
    <3> HIDE DEF held, freed, paid
    <3>6. /\ w.reserved = TotalIn(after, q, "RESERVE") - TotalIn(after, q, "RELEASE")
                              - TotalIn(after, q, "PURCHASE")
          /\ w.spent = TotalIn(after, q, "PURCHASE")
      <4>1. CASE op.type = "RESERVE"
        BY <2>2, <3>3, <3>4, <3>5, <4>1
      <4>2. CASE op.type = "RELEASE"
        BY <2>2, <3>3, <3>4, <3>5, <4>2
      <4>3. CASE op.type = "PURCHASE"
        BY <2>2, <3>3, <3>4, <3>5, <4>3
      <4> QED
        BY <2>2, <4>1, <4>2, <4>3 DEF OperationType
    <3> QED
      BY <2>4, <2>5, <3>1, <3>6 DEF Explained
  <2> QED
    BY <2>6, <2>8, <2>9 DEF AccountedBooks, after
<1> QED
  BY <1>1, <1>2

LEMMA AppliedAccounted ==
    ASSUME NEW b, NEW after, BalancedBooks(b), AccountedBooks(b), Applied(b, after)
    PROVE  AccountedBooks(after)
  BY ExecuteBalanced, ExecuteAccounted DEF Applied

LEMMA InitAccounted == Init => AccountedBooks(books)
<1> SUFFICES ASSUME Init PROVE AccountedBooks(books)
  OBVIOUS
<1>1. /\ books.ledger = {}
      /\ \A p \in Participant : books.wallet[p] = FullWallet
  BY DEF Init
<1>2. Countable(books)
  BY <1>1, FS_EmptySet DEF Countable
<1>3. ASSUME NEW p, NEW type PROVE TotalIn(books, p, type) = 0
  <2>1. RowsIn(books, p, type) = {}
    BY <1>1 DEF RowsIn
  <2>2. DOMAIN [e \in RowsIn(books, p, type) |-> e.op.amount] = {}
    BY <2>1
  <2> QED
    BY <2>2, SumOfNone DEF TotalIn
<1>4. \A p \in Participant : Explained(books, p)
  BY <1>1, <1>3 DEF Explained, FullWallet
<1> QED
  BY <1>2, <1>4 DEF AccountedBooks

\* Reserves, releases and purchases added up from the ledger are the wallet,
\* and its last snapshot is among its rows: nothing moves money without a row
\* and no row is written that moved nothing (executeOperation and its callers
\* placeBid, cancelAuction and settleAuction).
THEOREM LedgerAlwaysExplains == Spec => []LedgerExplainsWallet
<1> DEFINE Inv == TypeOK /\ BalancedBooks(books) /\ AccountedBooks(books)
<1>1. Init => Inv
  BY InitBalanced, InitAccounted
<1>2. Inv /\ [Next]_vars => Inv'
  <2> SUFFICES ASSUME Inv, [Next]_vars PROVE Inv'
    OBVIOUS
  <2>1. TypeOK' /\ BalancedBooks(books')
    BY StepTypes, StepBalanced
  <2>2. AccountedBooks(books')
    BY StepApplies, AppliedAccounted
  <2> QED
    BY <2>1, <2>2
<1>3. Inv => LedgerExplainsWallet
  BY DEF AccountedBooks, Explained, TotalIn, RowsIn, LedgerExplainsWallet, Total, Rows
<1> QED
  BY <1>1, <1>2, <1>3, PTL DEF Spec

\* Spending and ownership before and after a step that moves neither.
LEMMA SpendingStays ==
    ASSUME SpentBuysOwnership, ownership' = ownership,
           \A q \in Participant : books'.wallet[q].spent = books.wallet[q].spent
    PROVE  SpentBuysOwnership'
  BY DEF SpentBuysOwnership, OwnedBy

\* A sale adds one row to the ownership of the winner, at the price it pays.
LEMMA SaleBuys ==
    ASSUME RoomInv, SpentBuysOwnership, IsFiniteSet(ownership),
           NEW a \in Asset, auction[a].status \in Live, SettleSold(a)
    PROVE  SpentBuysOwnership' /\ IsFiniteSet(ownership')
<1> DEFINE owned == [asset |-> a, owner |-> TopBid(a).bidder,
                     price |-> TopBid(a).amount]
<1>1. /\ ownership' = ownership \cup {owned} /\ owned \notin ownership
      /\ ownership \in SUBSET Owned
  BY DEF RoomInv, TypeOK, SettleSold, SaleAllowed
<1>2. IsFiniteSet(ownership')
  <2> HIDE DEF owned
  <2> QED
    BY <1>1, FS_AddElement
<1>3. ASSUME NEW p \in Participant
      PROVE  books'.wallet[p].spent = SumOf([o \in OwnedBy(p)' |-> o.price])
  <2> DEFINE D == OwnedBy(p)
             f == [o \in D |-> o.price]
  <2>1. D \in SUBSET ownership
    BY DEF OwnedBy
  <2>2. IsFiniteSet(D) /\ f \in [D -> Int]
    <3>1. IsFiniteSet(D)
      BY <2>1, FS_Subset
    <3>2. \A o \in D : o.price \in Int
      BY <1>1, <2>1 DEF Owned
    <3> QED
      BY <3>1, <3>2
  <2>3. books.wallet[p].spent = SumOf(f)
    BY DEF SpentBuysOwnership
  <2>4. CASE p # owned.owner
    <3>1. OwnedBy(p)' = D
      BY <1>1, <2>4 DEF OwnedBy
    <3>2. books'.wallet[p].spent = books.wallet[p].spent
      BY <2>4, SaleCharges
    <3> QED
      BY <2>3, <3>1, <3>2
  <2>5. CASE p = owned.owner
    <3> DEFINE g == [o \in D \cup {owned} |-> o.price]
    <3>1. OwnedBy(p)' = D \cup {owned}
      BY <1>1, <2>5 DEF OwnedBy
    <3>2. books'.wallet[p].spent = books.wallet[p].spent + owned.price
      BY <2>5, SaleCharges
    <3>3. owned.price \in Int
      BY SaleCharges
    <3>4. owned \notin D
      BY <1>1, <2>1
    <3> HIDE DEF owned
    <3>5. g \in [D \cup {owned} -> Int] /\ (\A o \in D : g[o] = f[o])
          /\ g[owned] = owned.price
      BY <2>2, <3>3
    <3>6. SumOf(g) = SumOf(f) + g[owned]
      <4> HIDE DEF D, f, g
      <4> QED
        BY <2>2, <3>4, <3>5, SumGrows
    <3> QED
      BY <2>3, <3>1, <3>2, <3>5, <3>6
  <2> QED
    BY <2>4, <2>5
<1> QED
  BY <1>2, <1>3 DEF SpentBuysOwnership

\* No other step spends or buys.
LEMMA SpendingStep ==
    ASSUME PromiseInv, SpentBuysOwnership, IsFiniteSet(ownership), [Next]_vars
    PROVE  SpentBuysOwnership' /\ IsFiniteSet(ownership')
<1>1. RoomInv /\ TypeOK
  BY DEF PromiseInv, RoomInv
<1>2. ASSUME NEW a \in Asset, Request(a)
      PROVE  /\ ownership' = ownership
             /\ \A q \in Participant :
                    books'.wallet[q].spent = books.wallet[q].spent
  <2>1. CASE \E price \in OpeningPrices, increment \in Increments :
                 Nominate(a, price, increment)
    BY <2>1 DEF Nominate
  <2>2. CASE \E duration \in Durations, now \in Recent :
                 StartAuction(a, duration, now)
    BY <2>2 DEF StartAuction
  <2>3. ASSUME NEW p \in Participant, NEW amount \in Amounts, NEW key \in Keys,
               NEW now \in Recent, PlaceBid(p, a, amount, key, now)
        PROVE  /\ ownership' = ownership
               /\ \A q \in Participant :
                      books'.wallet[q].spent = books.wallet[q].spent
    BY <2>3, BidIsPayable DEF PlaceBid
  <2>4. ASSUME NEW now \in Recent, CancelAuction(a, now)
        PROVE  /\ ownership' = ownership
               /\ \A q \in Participant :
                      books'.wallet[q].spent = books.wallet[q].spent
    BY <1>1, <2>4, CancelSpendsNothing DEF CancelAuction
  <2> QED
    BY <1>2, <2>1, <2>2, <2>3, <2>4, RequestCases
<1>3. ASSUME NEW a \in Asset, AdvanceAuction(a)
      PROVE  SpentBuysOwnership' /\ IsFiniteSet(ownership')
  <2>1. auction[a].status \in Live
    BY <1>1, <1>3, RowTypes
    DEF AdvanceAuction, RoomInv, TypeOK, DueWasStarted, Status
  <2>2. CASE SettleSold(a)
    BY <1>1, <2>1, <2>2, SaleBuys
  <2>3. CASE EnterLastCall(a) \/ SettleUnsold(a)
    BY <2>3, SpendingStays DEF EnterLastCall, SettleUnsold
  <2> QED
    BY <1>3, <2>2, <2>3 DEF AdvanceAuction, SettleAuction
<1>4. CASE UNCHANGED <<books, ownership>>
  BY <1>4, SpendingStays
<1>5. ASSUME NEW a \in Asset, Request(a)
      PROVE  SpentBuysOwnership' /\ IsFiniteSet(ownership')
  BY <1>2, <1>5, SpendingStays
<1> QED
  BY <1>3, <1>4, <1>5
  DEF Next, vars, PassStep, SkipAuction, JoinMatch, StartSquadBuilding,
      StartPass, Crash, Tick

\* What a participant spent is the price of the assets it owns, in every
\* state: a sale writes the ownership row and the purchase in one transaction
\* at one price, and nothing else writes either (settleAuction).
THEOREM SpendingAlwaysBuys == Spec => []SpentBuysOwnership
<1> DEFINE Inv == SpentBuysOwnership /\ IsFiniteSet(ownership)
<1>1. Init => Inv
  <2> SUFFICES ASSUME Init PROVE Inv
    OBVIOUS
  <2>1. ownership = {} /\ \A p \in Participant : books.wallet[p].spent = 0
    BY DEF Init, FullWallet
  <2>2. \A p \in Participant : OwnedBy(p) = {}
    BY <2>1 DEF OwnedBy
  <2>3. \A p \in Participant : SumOf([o \in OwnedBy(p) |-> o.price]) = 0
    BY <2>2, SumOfNone
  <2> QED
    BY <2>1, <2>3, FS_EmptySet DEF SpentBuysOwnership
<1>2. PromiseInv /\ Inv /\ [Next]_vars => Inv'
  BY SpendingStep
<1> QED
  BY <1>1, <1>2, PromiseInvariant, PTL DEF Spec

-----------------------------------------------------------------------------
(* The event log replays the row.                                          *)

\* HistoryExplainsAuction of one auction, but for the price.
Replays(row, log, placed) ==
    /\ Len(log) = row.version + 1
    /\ \A n \in DOMAIN log : log[n].version = n - 1
    /\ log[Len(log)].statusAfter = row.status
    /\ \A i \in DOMAIN placed :
           \E n \in DOMAIN log : /\ log[n].type = "BID_PLACED"
                                 /\ log[n].version = placed[i].version
                                 /\ log[n].amount = placed[i].amount
    /\ \A n \in DOMAIN log :
           log[n].type = "BID_PLACED" =>
               \E i \in DOMAIN placed : placed[i].version = log[n].version
    /\ \A i, j \in DOMAIN placed : i < j => placed[i].version < placed[j].version

HistoryInv ==
    /\ \A a \in Asset :
           auction[a].status # "NONE" => Replays(auction[a], events[a], bids[a])
    /\ HistoryNeedsRow

\* The bid of a bid event: the one that has its version and its amount.
Placed(bid, event) ==
    /\ event.type = "BID_PLACED"
    /\ bid.version = event.version /\ bid.amount = event.amount

\* The event a mutation records, and the bid it appends with a bid event.
Mutation(a, row, event, placed) ==
    /\ row.status # "NONE"
    /\ event.version = row.version /\ event.statusAfter = row.status
    /\ row.version = IF auction[a].status = "NONE" THEN 0
                                                   ELSE auction[a].version + 1
    /\ auction'[a] = row
    /\ events'[a] = Append(events[a], event)
    /\ bids'[a] = placed
    /\ \/ event.type # "BID_PLACED" /\ placed = bids[a]
       \/ /\ auction[a].status # "NONE"
          /\ \E bid \in Bid : Placed(bid, event) /\ placed = Append(bids[a], bid)
    /\ \A b \in Asset \ {a} : /\ auction'[b] = auction[b]
                               /\ events'[b] = events[b]
                               /\ bids'[b] = bids[b]

Mutates == \E a \in Asset, row \in AuctionRow, event \in Event :
               \E placed : Mutation(a, row, event, placed)

\* A handler that records an event without a bid.
LEMMA RecordIsMutation ==
    ASSUME TypeOK, NEW a \in Asset, NEW row \in AuctionRow, NEW type, NEW amount \in Nat,
           type \in {"NOMINATED", "STARTED", "LAST_CALL", "CANCELLED", "SOLD", "UNSOLD"},
           Record(a, row, type, amount), UNCHANGED bids, row.status # "NONE",
           row.version = IF auction[a].status = "NONE" THEN 0
                                                       ELSE auction[a].version + 1
    PROVE  Mutates
<1> DEFINE event == [type |-> type, statusAfter |-> row.status,
                     version |-> row.version, amount |-> amount]
<1>1. event \in Event
  BY RowTypes DEF Event
<1>2. Mutation(a, row, event, bids[a])
  BY DEF Mutation, Record, TypeOK
<1> HIDE DEF event
<1> QED
  BY <1>1, <1>2 DEF Mutates

\* A bid records its own event.
LEMMA BidIsMutation ==
    ASSUME TypeOK, NEW p \in Participant, NEW a \in Asset,
           NEW amount \in Amounts, NEW key \in Keys, NEW now \in Recent,
           PlaceBid(p, a, amount, key, now)
    PROVE  Mutates
<1> DEFINE row == [auction[a] EXCEPT !.currentPrice = amount,
                                     !.version = @ + 1]
           bid == [bidder |-> p, amount |-> amount, key |-> key,
                   version |-> auction[a].version + 1]
           event == [type |-> "BID_PLACED", statusAfter |-> row.status,
                     version |-> row.version, amount |-> amount]
           placed == Append(bids[a], bid)
<1>1. amount \in Nat \ {0}
  BY RoomAssumption
<1>2. row \in AuctionRow /\ bid \in Bid
  BY <1>1, NextVersionType DEF AuctionRow, Bid
<1>3. event \in Event
  BY <1>1, <1>2, RowTypes DEF Event
<1>4. row.status = auction[a].status /\ row.version = auction[a].version + 1
      /\ row.status # "NONE"
  BY NextVersionType DEF AuctionRow, PlaceBid, Live
<1>5. Record(a, row, "BID_PLACED", amount) /\ bids' = [bids EXCEPT ![a] = placed]
  BY DEF PlaceBid
<1>6. Placed(bid, event)
  BY <1>4 DEF Placed
<1>7. auction'[a] = row /\ events'[a] = Append(events[a], event) /\ bids'[a] = placed
      /\ \A b \in Asset \ {a} : /\ auction'[b] = auction[b]
                                 /\ events'[b] = events[b]
                                 /\ bids'[b] = bids[b]
  BY <1>5 DEF Record, TypeOK
<1>8. event.version = row.version /\ event.statusAfter = row.status
  OBVIOUS
<1>9. placed = Append(bids[a], bid)
  OBVIOUS
<1> HIDE DEF row, bid, event, placed
<1>10. Mutation(a, row, event, placed)
  BY <1>2, <1>4, <1>6, <1>7, <1>8, <1>9 DEF Mutation
<1> QED
  BY <1>2, <1>3, <1>10 DEF Mutates

\* The other requests ...
LEMMA RequestMutates ==
    ASSUME TypeOK, NEW a \in Asset, Request(a)
    PROVE  Mutates
<1>1. ASSUME NEW price \in OpeningPrices, NEW increment \in Increments,
             Nominate(a, price, increment)
      PROVE  Mutates
  <2> DEFINE row == [NoRow EXCEPT !.status = "WAITING",
                                  !.openingPrice = price,
                                  !.currentPrice = price,
                                  !.minimumIncrement = increment]
  <2>1. price \in Nat /\ increment \in Nat
    BY RoomAssumption
  <2>2. row \in AuctionRow /\ row.status = "WAITING" /\ row.version = 0
    BY <2>1 DEF AuctionRow, NoRow, Status, Unstarted, NoTime
  <2>3. /\ Record(a, row, "NOMINATED", price) /\ UNCHANGED bids
        /\ auction[a].status = "NONE"
    BY <1>1 DEF Nominate
  <2> HIDE DEF row
  <2> QED
    BY <2>1, <2>2, <2>3, RecordIsMutation
<1>2. ASSUME NEW duration \in Durations, NEW now \in Recent,
             StartAuction(a, duration, now)
      PROVE  Mutates
  <2> DEFINE row == [auction[a] EXCEPT !.status = "ACTIVE",
                                       !.startsAt = now,
                                       !.endsAt = now + duration,
                                       !.version = @ + 1]
  <2>1. now \in Nat /\ now + duration \in Nat
    BY RoomAssumption DEF Recent, TypeOK
  <2>2. row \in AuctionRow /\ row.status = "ACTIVE"
        /\ row.version = auction[a].version + 1
    BY <2>1, NextVersionType DEF AuctionRow, Status, Live
  <2>3. /\ Record(a, row, "STARTED", 0) /\ UNCHANGED bids
        /\ auction[a].status # "NONE"
    BY <1>2 DEF StartAuction
  <2> HIDE DEF row
  <2> QED
    BY <2>2, <2>3, RecordIsMutation
<1>3. ASSUME NEW p \in Participant, NEW amount \in Amounts, NEW key \in Keys,
             NEW now \in Recent, PlaceBid(p, a, amount, key, now)
      PROVE  Mutates
  BY <1>3, BidIsMutation
<1>4. ASSUME NEW now \in Recent, CancelAuction(a, now)
      PROVE  Mutates
  <2> DEFINE row == [auction[a] EXCEPT !.status = "CANCELLED",
                                       !.endsAt = now,
                                       !.version = @ + 1]
  <2>1. now \in Nat
    BY DEF Recent, TypeOK
  <2>2. row \in AuctionRow /\ row.status = "CANCELLED"
        /\ row.version = auction[a].version + 1
    BY <2>1, NextVersionType DEF AuctionRow, Status, Terminal
  <2>3. /\ Record(a, row, "CANCELLED", 0) /\ UNCHANGED bids
        /\ auction[a].status # "NONE"
    BY <1>4 DEF CancelAuction, UnfinishedStatus, Live
  <2> HIDE DEF row
  <2> QED
    BY <2>2, <2>3, RecordIsMutation
<1> QED
  BY <1>1, <1>2, <1>3, <1>4, RequestCases

\* ... and the passes of the scheduler record one each.
LEMMA AdvanceMutates ==
    ASSUME TypeOK, DueWasStarted, NEW a \in Asset, AdvanceAuction(a)
    PROVE  Mutates
<1>1. auction[a].status # "NONE" /\ UNCHANGED bids
  BY DEF AdvanceAuction, DueWasStarted, Unstarted
<1>2. CASE EnterLastCall(a)
  <2> DEFINE row == [auction[a] EXCEPT !.status = "LAST_CALL", !.version = @ + 1]
  <2>1. row \in AuctionRow /\ row.status = "LAST_CALL"
        /\ row.version = auction[a].version + 1
    BY NextVersionType DEF AuctionRow, Status, Live
  <2>2. Record(a, row, "LAST_CALL", 0)
    BY <1>2 DEF EnterLastCall
  <2> HIDE DEF row
  <2> QED
    BY <1>1, <2>1, <2>2, RecordIsMutation
<1>3. CASE SettleUnsold(a)
  <2> DEFINE row == [auction[a] EXCEPT !.status = "UNSOLD", !.version = @ + 1]
  <2>1. row \in AuctionRow /\ row.status = "UNSOLD"
        /\ row.version = auction[a].version + 1
    BY NextVersionType DEF AuctionRow, Status, Terminal
  <2>2. Record(a, row, "UNSOLD", 0)
    BY <1>3 DEF SettleUnsold
  <2> HIDE DEF row
  <2> QED
    BY <1>1, <2>1, <2>2, RecordIsMutation
<1>4. CASE SettleSold(a)
  <2> DEFINE row == [auction[a] EXCEPT !.status = "SOLD",
                                       !.winner = TopBid(a).bidder,
                                       !.currentPrice = TopBid(a).amount,
                                       !.version = @ + 1]
  <2>1. TopBid(a).bidder \in Participant /\ TopBid(a).amount \in Nat
    BY <1>4, TopBidType DEF SettleSold
  <2>2. row \in AuctionRow /\ row.status = "SOLD"
        /\ row.version = auction[a].version + 1
    BY <2>1, NextVersionType DEF AuctionRow, Status, Terminal
  <2>3. Record(a, row, "SOLD", TopBid(a).amount)
    BY <1>4 DEF SettleSold
  <2> HIDE DEF row
  <2> QED
    BY <1>1, <2>1, <2>2, <2>3, RecordIsMutation
<1> QED
  BY <1>2, <1>3, <1>4 DEF AdvanceAuction, SettleAuction

\* Every step of the room is one mutation of one auction, or none.
LEMMA StepMutates ==
    ASSUME TypeOK, DueWasStarted, [Next]_vars
    PROVE  Mutates \/ UNCHANGED <<auction, bids, events>>
  BY RequestMutates, AdvanceMutates
  DEF Next, vars, PassStep, SkipAuction, JoinMatch, StartSquadBuilding,
      StartPass, Crash, Tick

\* The first event of a row replays it.
LEMMA ReplayBegins ==
    ASSUME NEW row \in AuctionRow, NEW event \in Event, row.version = 0,
           event.version = 0, event.statusAfter = row.status,
           event.type # "BID_PLACED"
    PROVE  Replays(row, Append(<<>>, event), <<>>)
<1>1. Len(Append(<<>>, event)) = 1 /\ Append(<<>>, event)[1] = event
      /\ DOMAIN Append(<<>>, event) = {1}
  OBVIOUS
<1>2. DOMAIN <<>> = {}
  OBVIOUS
<1> QED
  BY <1>1, <1>2 DEF Replays

\* The event of a later version replays the next row.
LEMMA ReplayGrows ==
    ASSUME NEW old \in AuctionRow, NEW log \in Seq(Event), NEW placed \in Seq(Bid),
           Replays(old, log, placed),
           NEW row \in AuctionRow, NEW event \in Event,
           row.version = old.version + 1,
           event.version = row.version, event.statusAfter = row.status,
           event.type # "BID_PLACED"
    PROVE  Replays(row, Append(log, event), placed)
<1> DEFINE more == Append(log, event)
<1>1. /\ Len(log) \in Nat /\ Len(more) = Len(log) + 1
      /\ DOMAIN log = 1 .. Len(log) /\ DOMAIN more = 1 .. Len(log) + 1
      /\ more[Len(log) + 1] = event
      /\ \A n \in 1 .. Len(log) : more[n] = log[n]
  OBVIOUS
<1>2. old.version \in Nat /\ Len(log) = old.version + 1
  BY DEF AuctionRow, Replays
<1> HIDE DEF more
<1>3. Len(more) = row.version + 1 /\ more[Len(more)].statusAfter = row.status
  BY <1>1, <1>2
<1>4. \A n \in DOMAIN more : more[n].version = n - 1
  BY <1>1, <1>2 DEF Replays
<1>5. \A n \in DOMAIN log : n \in DOMAIN more /\ more[n] = log[n]
  BY <1>1
<1>6. \A n \in DOMAIN more : n \in DOMAIN log \/ more[n] = event
  BY <1>1
<1>7. \A i \in DOMAIN placed :
          \E n \in DOMAIN more : /\ more[n].type = "BID_PLACED"
                                /\ more[n].version = placed[i].version
                                /\ more[n].amount = placed[i].amount
  BY <1>5 DEF Replays
<1>8. \A n \in DOMAIN more :
          more[n].type = "BID_PLACED" =>
              \E i \in DOMAIN placed : placed[i].version = more[n].version
  BY <1>5, <1>6 DEF Replays
<1> QED
  BY <1>3, <1>4, <1>7, <1>8 DEF Replays, more

\* So does the event of a bid with the bid, which is later than all others.
LEMMA ReplayBids ==
    ASSUME NEW old \in AuctionRow, NEW log \in Seq(Event), NEW placed \in Seq(Bid),
           Replays(old, log, placed),
           NEW row \in AuctionRow, NEW event \in Event, NEW bid \in Bid,
           row.version = old.version + 1,
           event.version = row.version, event.statusAfter = row.status,
           Placed(bid, event)
    PROVE  Replays(row, Append(log, event), Append(placed, bid))
<1> DEFINE more == Append(log, event)
           all == Append(placed, bid)
<1>1. /\ Len(log) \in Nat /\ Len(more) = Len(log) + 1
      /\ DOMAIN log = 1 .. Len(log) /\ DOMAIN more = 1 .. Len(log) + 1
      /\ more[Len(log) + 1] = event
      /\ \A n \in 1 .. Len(log) : more[n] = log[n]
  OBVIOUS
<1>2. /\ Len(placed) \in Nat
      /\ DOMAIN placed = 1 .. Len(placed) /\ DOMAIN all = 1 .. Len(placed) + 1
      /\ all[Len(placed) + 1] = bid
      /\ \A i \in 1 .. Len(placed) : all[i] = placed[i]
  OBVIOUS
<1>3. old.version \in Nat /\ Len(log) = old.version + 1
  BY DEF AuctionRow, Replays
<1> HIDE DEF more, all
<1>4. Len(more) = row.version + 1 /\ more[Len(more)].statusAfter = row.status
  BY <1>1, <1>3
<1>5. \A n \in DOMAIN more : more[n].version = n - 1
  BY <1>1, <1>3 DEF Replays
<1>6. \A i \in DOMAIN all :
          \E n \in DOMAIN more : /\ more[n].type = "BID_PLACED"
                                /\ more[n].version = all[i].version
                                /\ more[n].amount = all[i].amount
  <2> SUFFICES ASSUME NEW i \in DOMAIN all
               PROVE  \E n \in DOMAIN more : /\ more[n].type = "BID_PLACED"
                                            /\ more[n].version = all[i].version
                                            /\ more[n].amount = all[i].amount
    OBVIOUS
  <2>1. CASE i \in DOMAIN placed
    <3>1. PICK n \in DOMAIN log : /\ log[n].type = "BID_PLACED"
                                  /\ log[n].version = placed[i].version
                                  /\ log[n].amount = placed[i].amount
      BY <2>1 DEF Replays
    <3> QED
      BY <1>1, <1>2, <2>1, <3>1
  <2>2. CASE i \notin DOMAIN placed
    <3>1. all[i] = bid
      BY <1>2, <2>2
    <3>2. Len(log) + 1 \in DOMAIN more
      BY <1>1
    <3> QED
      BY <1>1, <3>1, <3>2 DEF Placed
  <2> QED
    BY <2>1, <2>2
<1>7. \A n \in DOMAIN more :
          more[n].type = "BID_PLACED" =>
              \E i \in DOMAIN all : all[i].version = more[n].version
  <2> SUFFICES ASSUME NEW n \in DOMAIN more, more[n].type = "BID_PLACED"
               PROVE  \E i \in DOMAIN all : all[i].version = more[n].version
    OBVIOUS
  <2>1. CASE n \in DOMAIN log
    <3>1. PICK i \in DOMAIN placed : placed[i].version = log[n].version
      BY <1>1, <2>1 DEF Replays
    <3> QED
      BY <1>1, <1>2, <2>1, <3>1
  <2>2. CASE n \notin DOMAIN log
    <3>1. more[n] = event
      BY <1>1, <2>2
    <3>2. Len(placed) + 1 \in DOMAIN all
      BY <1>2
    <3> QED
      BY <1>2, <3>1, <3>2 DEF Placed
  <2> QED
    BY <2>1, <2>2
<1>8. \A i \in DOMAIN placed : placed[i].version < bid.version
  <2> SUFFICES ASSUME NEW i \in DOMAIN placed PROVE placed[i].version < bid.version
    OBVIOUS
  <2>1. PICK n \in DOMAIN log : log[n].version = placed[i].version
    BY DEF Replays
  <2>2. placed[i].version = n - 1
    BY <2>1 DEF Replays
  <2> QED
    BY <1>1, <1>3, <2>2 DEF Placed
<1>9. \A i, j \in DOMAIN all : i < j => all[i].version < all[j].version
  <2> SUFFICES ASSUME NEW i \in DOMAIN all, NEW j \in DOMAIN all, i < j
               PROVE  all[i].version < all[j].version
    OBVIOUS
  <2>1. i \in DOMAIN placed /\ all[i] = placed[i]
    BY <1>2
  <2>2. CASE j \in DOMAIN placed
    BY <1>2, <2>1, <2>2 DEF Replays
  <2>3. CASE j \notin DOMAIN placed
    BY <1>2, <1>8, <2>1, <2>3
  <2> QED
    BY <2>2, <2>3
<1> QED
  BY <1>4, <1>5, <1>6, <1>7, <1>9 DEF Replays, more, all

\* Every step leaves the logs replaying their rows.
LEMMA HistoryStep ==
    ASSUME TypeOK, DueWasStarted, HistoryInv, [Next]_vars
    PROVE  HistoryInv'
<1>1. CASE UNCHANGED <<auction, bids, events>>
  BY <1>1 DEF HistoryInv, HistoryNeedsRow
<1>2. CASE Mutates
  <2>a. PICK a \in Asset, row \in AuctionRow, event \in Event :
                 \E placed : Mutation(a, row, event, placed)
    BY <1>2 DEF Mutates
  <2>1. PICK placed : Mutation(a, row, event, placed)
    BY <2>a
  <2>2. /\ auction[a] \in AuctionRow /\ events[a] \in Seq(Event)
        /\ bids[a] \in Seq(Bid)
    BY DEF TypeOK
  <2>3. Replays(row, Append(events[a], event), placed)
    <3>1. CASE auction[a].status = "NONE"
      <4>1. events[a] = <<>> /\ bids[a] = <<>>
        BY <3>1 DEF HistoryInv, HistoryNeedsRow
      <4>2. /\ row.version = 0 /\ event.version = 0 /\ event.statusAfter = row.status
            /\ event.type # "BID_PLACED" /\ placed = <<>>
        BY <2>1, <3>1, <4>1 DEF Mutation
      <4> QED
        BY <4>1, <4>2, ReplayBegins
    <3>2. CASE auction[a].status # "NONE"
      <4>1. /\ row.version = auction[a].version + 1
            /\ event.version = row.version /\ event.statusAfter = row.status
        BY <2>1, <3>2 DEF Mutation
      <4>2. Replays(auction[a], events[a], bids[a])
        BY <3>2 DEF HistoryInv
      <4>3. CASE event.type # "BID_PLACED" /\ placed = bids[a]
        BY <2>2, <4>1, <4>2, <4>3, ReplayGrows
      <4>4. ASSUME NEW bid \in Bid, Placed(bid, event), placed = Append(bids[a], bid)
            PROVE  Replays(row, Append(events[a], event), placed)
        BY <2>2, <4>1, <4>2, <4>4, ReplayBids
      <4> QED
        BY <2>1, <4>3, <4>4 DEF Mutation
    <3> QED
      BY <3>1, <3>2
  <2>4. /\ auction'[a] = row /\ events'[a] = Append(events[a], event)
        /\ bids'[a] = placed /\ row.status # "NONE"
        /\ \A b \in Asset \ {a} : /\ auction'[b] = auction[b]
                                   /\ events'[b] = events[b]
                                   /\ bids'[b] = bids[b]
    BY <2>1 DEF Mutation
  <2>5. \A b \in Asset :
            auction'[b].status # "NONE" => Replays(auction'[b], events'[b], bids'[b])
    BY <2>3, <2>4 DEF HistoryInv
  <2>6. HistoryNeedsRow'
    BY <2>4 DEF HistoryInv, HistoryNeedsRow
  <2> QED
    BY <2>5, <2>6 DEF HistoryInv
<1> QED
  BY <1>1, <1>2, StepMutates

\* The log of every auction replays its row and its bids, in every state: the
\* handlers write row, bid and event in one transaction, at one version
\* (placeBid, startAuction, cancelAuction, advanceAuctionClock, settleAuction).
THEOREM HistoryAlwaysExplains == Spec => []HistoryExplainsAuction
<1>1. Init => HistoryInv
  <2> SUFFICES ASSUME Init PROVE HistoryInv
    OBVIOUS
  <2>1. \A a \in Asset : auction[a].status = "NONE"
                          /\ events[a] = <<>> /\ bids[a] = <<>>
    BY DEF Init, NoRow
  <2> QED
    BY <2>1 DEF HistoryInv, HistoryNeedsRow
<1>2. PromiseInv /\ HistoryInv /\ [Next]_vars => HistoryInv'
  BY HistoryStep DEF PromiseInv, RoomInv
<1>3. PromiseInv /\ HistoryInv => HistoryExplainsAuction
  BY DEF PromiseInv, PriceIsLastBid, HistoryInv, Replays, HistoryExplainsAuction
<1> QED
  BY <1>1, <1>2, <1>3, PromiseInvariant, PTL DEF Spec

=============================================================================
