----------------------------- MODULE AuctionRoom -----------------------------
(***************************************************************************)
(* The auction engine of one match: the lobby that lets the second         *)
(* participant in, the nomination, start, bidding, cancellation and        *)
(* settlement of auctions (apps/api/src/auctions/auctions.service.ts), the *)
(* clock that closes them (auctions.scheduler.ts) and the move to squad    *)
(* building that ends the auction phase.                                   *)
(*                                                                         *)
(* Every mutation of the service is one Serializable transaction, so every *)
(* committed state is a state of some serial order of the transactions and *)
(* a handler is one atomic action.  A request the code refuses, with an    *)
(* exception that rolls the transaction back, changes nothing: it is the   *)
(* action's guard being false.  What is NOT atomic stays split: a handler  *)
(* reads the wall clock some time before it commits (Recent), and a pass   *)
(* of the scheduler keeps one reading of the clock and one list of due     *)
(* auctions across many transactions.                                      *)
(*                                                                         *)
(* The unique indexes on (matchId, playerId), (matchId, managerId) and     *)
(* (matchId, formationId) allow one auction per asset and match, so the    *)
(* asset names its auction.                                                *)
(***************************************************************************)
EXTENDS Wallet, Sequences, FiniteSets

CONSTANTS
    Host, Guest,        \* PLAYER_ONE, who created the match, and PLAYER_TWO
    Players, Managers, Formations,  \* the active, non-neutral catalog
    Keys,               \* idempotency keys the clients send with their bids
    OpeningPrices, Increments, Amounts, \* the values the DTOs let through
    Durations,          \* durationSeconds of a start request
    LastCallSeconds,    \* AUCTION_LAST_CALL_SECONDS
    MaxPrice,           \* AUCTION_MAX_PRICE
    SquadSize,          \* 11: players each side needs for squad building
    CommitDelay,        \* longest time from reading the clock to the commit
    MaxTime             \* bound: the clock stops here

Asset == Players \cup Managers \cup Formations
Participant == {Host, Guest}
NoTime == -1
Nobody == "nobody"

ASSUME RoomAssumption ==
    /\ Host # Guest
    /\ Nobody \notin Participant
    /\ Players \cap Managers = {}
    /\ Players \cap Formations = {}
    /\ Managers \cap Formations = {}
    /\ OpeningPrices \subseteq Nat \ {0}
    /\ Increments \subseteq Nat \ {0}
    /\ Amounts \subseteq Nat \ {0}
    /\ Durations \subseteq Nat \ {0}
    /\ LastCallSeconds \in Nat
    /\ MaxPrice \in Nat
    /\ SquadSize \in Nat
    /\ CommitDelay \in Nat
    /\ MaxTime \in Nat

VARIABLES
    clock,          \* the wall clock of the server, in seconds
    matchStatus,    \* Match.status
    joined,         \* participants with a MatchParticipant row
    auction,        \* Auction rows, by asset
    bids,           \* Bid rows of each auction, in sequence order
    events,         \* AuctionEvent rows of each auction, in sequence order
    books,          \* wallets and ledger, see Wallet
    ownership,      \* PlayerOwnership, ManagerOwnership, FormationOwnership
    pass            \* the running scheduler pass: its clock reading, its list

vars == <<clock, matchStatus, joined, auction, bids, events, books,
          ownership, pass>>

-----------------------------------------------------------------------------
Unstarted == {"NONE", "WAITING"}        \* NONE: no row yet
Live == {"ACTIVE", "LAST_CALL"}
UnfinishedStatus == {"WAITING"} \cup Live
Terminal == {"SOLD", "UNSOLD", "CANCELLED"}
Status == Unstarted \cup Live \cup Terminal

AuctionRow ==
    [status : Status, openingPrice : Nat, currentPrice : Nat,
     minimumIncrement : Nat, version : Nat, startsAt : Nat \cup {NoTime},
     endsAt : Nat \cup {NoTime}, winner : Participant \cup {Nobody}]

NoRow == [status |-> "NONE", openingPrice |-> 0, currentPrice |-> 0,
          minimumIncrement |-> 0, version |-> 0, startsAt |-> NoTime,
          endsAt |-> NoTime, winner |-> Nobody]

Bid == [bidder : Participant, amount : Nat \ {0}, key : Keys, version : Nat]
Event == [type : {"NOMINATED", "STARTED", "BID_PLACED", "LAST_CALL",
                  "CANCELLED", "SOLD", "UNSOLD"},
          statusAfter : Status, version : Nat, amount : Nat]
Owned == [asset : Asset, owner : Participant, price : Nat]

Kind(a) == CASE a \in Players -> Players
             [] a \in Managers -> Managers
             [] a \in Formations -> Formations

Unfinished(a) == auction[a].status \in UnfinishedStatus
HasBid(a) == bids[a] # <<>>
TopBid(a) == bids[a][Len(bids[a])]      \* findFirst, sequence descending
Leads(p, a) == HasBid(a) /\ TopBid(a).bidder = p

\* Mutant: a bid that only equals the leading one is enough.
MinimumBidOfEqual(a) == IF HasBid(a) THEN TopBid(a).amount
                                     ELSE auction[a].openingPrice

MinimumBid(a) == IF HasBid(a)
                   THEN TopBid(a).amount + auction[a].minimumIncrement
                   ELSE auction[a].openingPrice

OwnsKind(p, kind) == \E o \in ownership : o.owner = p /\ o.asset \in kind

\* Mutant: only the very asset is looked up, not its kind.
MayOwnAnother(p, a) == a \notin Players => ~OwnsKind(p, {a})

\* A participant holds any number of players but one manager, one formation.
MayOwn(p, a) == a \notin Players => ~OwnsKind(p, Kind(a))

\* Readings of the clock a transaction that commits now may have taken.
Recent == {t \in 0 .. clock : clock - t <= CommitDelay}

\* Mutant: the key of a purchase does not name the auction.
SharedPurchaseKey(a) == <<"purchase">>

\* The idempotency keys of the budget operations of an auction.
BidKey(a, key) == <<"bid", a, key>>
OutbidKey(a, sequence) == <<"outbid", a, sequence>>
CancelKey(a) == <<"cancel", a>>
PurchaseKey(a) == <<"purchase", a>>

Reserve(p, a, amount, key) ==
    Operation("RESERVE", p, a, amount, BidKey(a, key), NoItem)
ReleaseTop(a, key) ==
    Operation("RELEASE", TopBid(a).bidder, a, TopBid(a).amount, key, NoItem)

\* Mutant: the winner pays the opening price.
PurchaseAtOpeningPrice(a) ==
    Operation("PURCHASE", TopBid(a).bidder, a, auction[a].openingPrice,
              PurchaseKey(a), a)

\* A sale charges the leading bid.
Purchase(a) ==
    Operation("PURCHASE", TopBid(a).bidder, a, TopBid(a).amount,
              PurchaseKey(a), a)

\* Mutant: the event carries the version the row had.
RecordOldVersion(a, row, type, amount) ==
    /\ auction' = [auction EXCEPT ![a] = row]
    /\ events' = [events EXCEPT ![a] =
           Append(@, [type |-> type, statusAfter |-> row.status,
                      version |-> auction[a].version, amount |-> amount])]

\* A mutation writes the row with the next version and appends one event.
Record(a, row, type, amount) ==
    /\ auction' = [auction EXCEPT ![a] = row]
    /\ events' = [events EXCEPT ![a] =
           Append(@, [type |-> type, statusAfter |-> row.status,
                      version |-> row.version, amount |-> amount])]

-----------------------------------------------------------------------------
Init ==
    /\ clock = 0
    /\ matchStatus = "WAITING"
    /\ joined = {Host}
    /\ auction = [a \in Asset |-> NoRow]
    /\ bids = [a \in Asset |-> <<>>]
    /\ events = [a \in Asset |-> <<>>]
    /\ books = [wallet |-> [p \in Participant |-> FullWallet], ledger |-> {}]
    /\ ownership = {}
    /\ pass = [now |-> 0, due |-> {}]

JoinMatch ==
    /\ Guest \notin joined
    /\ matchStatus = "WAITING"
    /\ joined' = joined \cup {Guest}
    /\ matchStatus' = "AUCTION"
    /\ UNCHANGED <<clock, auction, bids, events, books, ownership, pass>>

\* The nomination of an asset, by the host.  Nobody waits for the guest.
Nominate(a, price, increment) ==
    /\ matchStatus \in {"WAITING", "AUCTION"}
    /\ \A o \in ownership : o.asset # a
    /\ \A b \in Asset : ~Unfinished(b)
    /\ auction[a].status = "NONE"
    /\ Record(a, [NoRow EXCEPT !.status = "WAITING",
                               !.openingPrice = price,
                               !.currentPrice = price,
                               !.minimumIncrement = increment],
              "NOMINATED", price)
    /\ UNCHANGED <<clock, matchStatus, joined, bids, books, ownership, pass>>

CreatePlayerAuction(a, price, increment) ==
    a \in Players /\ Nominate(a, price, increment)

CreateManagerAuction(a, price, increment) ==
    a \in Managers /\ Nominate(a, price, increment)

CreateFormationAuction(a, price, increment) ==
    a \in Formations /\ Nominate(a, price, increment)

\* MaxTime is a bound of the model: every auction ends before the clock stops.
StartAuction(a, duration, now) ==
    /\ now + duration <= MaxTime
    /\ auction[a].status = "WAITING"
    /\ matchStatus \in {"WAITING", "AUCTION"}
    /\ \A b \in Asset \ {a} : auction[b].status \notin Live
    /\ Record(a, [auction[a] EXCEPT !.status = "ACTIVE",
                                    !.startsAt = now,
                                    !.endsAt = now + duration,
                                    !.version = @ + 1],
              "STARTED", 0)
    /\ matchStatus' = "AUCTION"
    /\ UNCHANGED <<clock, joined, bids, books, ownership, pass>>

\* The leader raising its own bid reserves the difference; anybody else
\* reserves the whole amount after the former leader is released.
Outbids(p, a) == HasBid(a) /\ TopBid(a).bidder # p

\* Mutant: the former leader keeps its reservation.
AfterOutbidUnreleased(p, a) == books

AfterOutbid(p, a) ==
    IF Outbids(p, a)
      THEN Execute(books, ReleaseTop(a, OutbidKey(a, Len(bids[a]) + 1)))
      ELSE books

BidReservation(p, a, amount, key) ==
    Reserve(p, a, IF Leads(p, a) THEN amount - TopBid(a).amount ELSE amount,
            key)

\* A request whose key already has a bid is a replay: it changes nothing.
PlaceBid(p, a, amount, key, now) ==
    /\ p \in joined
    /\ \A i \in DOMAIN bids[a] : ~(bids[a][i].bidder = p /\ bids[a][i].key = key)
    /\ auction[a].status \in Live
    /\ matchStatus = "AUCTION"
    /\ now < auction[a].endsAt
    /\ MayOwn(p, a)
    /\ MinimumBid(a) <= MaxPrice
    /\ amount >= MinimumBid(a)
    /\ Outbids(p, a) =>
           Permitted(books, ReleaseTop(a, OutbidKey(a, Len(bids[a]) + 1)))
    /\ Permitted(AfterOutbid(p, a), BidReservation(p, a, amount, key))
    /\ books' = Execute(AfterOutbid(p, a), BidReservation(p, a, amount, key))
    /\ Record(a, [auction[a] EXCEPT !.currentPrice = amount,
                                    !.version = @ + 1],
              "BID_PLACED", amount)
    /\ bids' = [bids EXCEPT ![a] =
           Append(@, [bidder |-> p, amount |-> amount, key |-> key,
                      version |-> auction[a].version + 1])]
    /\ UNCHANGED <<clock, matchStatus, joined, ownership, pass>>

\* The CHECK constraint Auction_time_order_check refuses endsAt <= startsAt.
CancelAuction(a, now) ==
    /\ auction[a].status \in UnfinishedStatus
    /\ auction[a].startsAt < now
    /\ IF HasBid(a)
         THEN /\ Permitted(books, ReleaseTop(a, CancelKey(a)))
              /\ books' = Execute(books, ReleaseTop(a, CancelKey(a)))
         ELSE UNCHANGED books
    /\ Record(a, [auction[a] EXCEPT !.status = "CANCELLED",
                                    !.endsAt = now,
                                    !.version = @ + 1],
              "CANCELLED", 0)
    /\ UNCHANGED <<clock, matchStatus, joined, bids, ownership, pass>>

\* Mutant: auctions still open are not looked for.
StartSquadBuildingEarly ==
    /\ matchStatus = "AUCTION"
    /\ joined = Participant
    /\ \A p \in Participant :
           Cardinality({o \in ownership : o.owner = p /\ o.asset \in Players})
               >= SquadSize
    /\ matchStatus' = "SQUAD_BUILDING"
    /\ UNCHANGED <<clock, joined, auction, bids, events, books, ownership, pass>>

\* startSquadBuilding of squads.service.ts: the end of the auction phase.
StartSquadBuilding ==
    /\ matchStatus = "AUCTION"
    /\ joined = Participant
    /\ \A a \in Asset : ~Unfinished(a)
    /\ \A p \in Participant :
           Cardinality({o \in ownership : o.owner = p /\ o.asset \in Players})
               >= SquadSize
    /\ matchStatus' = "SQUAD_BUILDING"
    /\ UNCHANGED <<clock, joined, auction, bids, events, books, ownership, pass>>

-----------------------------------------------------------------------------
(* The scheduler.  pass.due is empty exactly when "processing" is false.   *)

\* Mutant: an auction in its last call is never looked at again.
DueForLastCall(a) ==
    /\ auction[a].status = "ACTIVE"
    /\ auction[a].endsAt <= clock + LastCallSeconds

\* The findMany of processDueAuctions.
Due(a) ==
    \/ auction[a].status = "ACTIVE"
       /\ auction[a].endsAt <= clock + LastCallSeconds
    \/ auction[a].status = "LAST_CALL" /\ auction[a].endsAt <= clock

\* A pass that finds nothing due changes nothing and is left out.
StartPass ==
    /\ pass.due = {}
    /\ \E a \in Asset : Due(a)
    /\ pass' = [now |-> clock, due |-> {a \in Asset : Due(a)}]
    /\ UNCHANGED <<clock, matchStatus, joined, auction, bids, events, books,
                   ownership>>

Handled(a) ==
    pass' = [now |-> IF pass.due = {a} THEN 0 ELSE pass.now,
             due |-> pass.due \ {a}]

EnterLastCall(a) ==
    /\ auction[a].status = "ACTIVE"
    /\ pass.now < auction[a].endsAt
    /\ auction[a].endsAt - LastCallSeconds <= pass.now
    /\ Record(a, [auction[a] EXCEPT !.status = "LAST_CALL",
                                    !.version = @ + 1],
              "LAST_CALL", 0)
    /\ UNCHANGED <<books, ownership>>

SettleUnsold(a) ==
    /\ ~HasBid(a)
    /\ Record(a, [auction[a] EXCEPT !.status = "UNSOLD", !.version = @ + 1],
              "UNSOLD", 0)
    /\ UNCHANGED <<books, ownership>>

\* What settling a sale needs: without it the transaction throws, the pass
\* logs the error and the auction stays live with its reservation.
SaleAllowed(a) ==
    /\ MayOwn(TopBid(a).bidder, a)
    /\ Permitted(books, Purchase(a))
    /\ \A o \in ownership : o.asset # a

SettleSold(a) ==
    /\ HasBid(a)
    /\ SaleAllowed(a)
    /\ books' = Execute(books, Purchase(a))
    /\ ownership' = ownership \cup {[asset |-> a, owner |-> TopBid(a).bidder,
                                     price |-> TopBid(a).amount]}
    /\ Record(a, [auction[a] EXCEPT !.status = "SOLD",
                                    !.winner = TopBid(a).bidder,
                                    !.currentPrice = TopBid(a).amount,
                                    !.version = @ + 1],
              "SOLD", TopBid(a).amount)

\* Mutant: due for last call is taken for over.
SettleWhenDue(a) == SettleUnsold(a) \/ SettleSold(a)

SettleAuction(a) ==
    /\ auction[a].endsAt <= pass.now
    /\ SettleUnsold(a) \/ SettleSold(a)

\* Mutant: the status is not read again in the auction's own transaction.
AdvanceFromList(a) ==
    /\ a \in pass.due
    /\ EnterLastCall(a) \/ SettleAuction(a)
    /\ Handled(a)
    /\ UNCHANGED <<clock, matchStatus, joined, bids>>

AdvanceAuction(a) ==
    /\ a \in pass.due
    /\ auction[a].status \notin Terminal
    /\ EnterLastCall(a) \/ SettleAuction(a)
    /\ Handled(a)
    /\ UNCHANGED <<clock, matchStatus, joined, bids>>

\* Nothing left to do for the auction (it ended since the list was read), or
\* its transaction failed and was logged; the pass goes on with the next.
SkipAuction(a) ==
    /\ a \in pass.due
    /\ Handled(a)
    /\ UNCHANGED <<clock, matchStatus, joined, auction, bids, events, books,
                   ownership>>

\* The process dies between two transactions and loses the pass.
Crash ==
    /\ pass.due # {}
    /\ pass' = [now |-> 0, due |-> {}]
    /\ UNCHANGED <<clock, matchStatus, joined, auction, bids, events, books,
                   ownership>>

Tick ==
    /\ clock < MaxTime
    /\ clock' = clock + 1
    /\ UNCHANGED <<matchStatus, joined, auction, bids, events, books,
                   ownership, pass>>

-----------------------------------------------------------------------------
Request(a) ==
    \/ \E price \in OpeningPrices, increment \in Increments :
           \/ CreatePlayerAuction(a, price, increment)
           \/ CreateManagerAuction(a, price, increment)
           \/ CreateFormationAuction(a, price, increment)
    \/ \E duration \in Durations, now \in Recent :
           StartAuction(a, duration, now)
    \/ \E p \in Participant, amount \in Amounts, key \in Keys, now \in Recent :
           PlaceBid(p, a, amount, key, now)
    \/ \E now \in Recent : CancelAuction(a, now)

PassStep(a) == AdvanceAuction(a) \/ SkipAuction(a)

Next ==
    \/ JoinMatch
    \/ StartSquadBuilding
    \/ \E a \in Asset : Request(a) \/ PassStep(a)
    \/ StartPass
    \/ Crash
    \/ Tick

Spec == Init /\ [][Next]_vars

\* Time passes, the timer of the scheduler keeps firing, a pass gets through
\* its list, and an auction's transaction does not fail in every pass.
Fairness ==
    /\ WF_vars(Tick)
    /\ WF_vars(StartPass)
    /\ \A a \in Asset : WF_vars(PassStep(a))
    /\ \A a \in Asset : SF_vars(AdvanceAuction(a))

FairSpec == Spec /\ Fairness

-----------------------------------------------------------------------------
\* Every table holds rows of its type; in particular no guarded update ever
\* takes a column of a wallet below zero.
TypeOK ==
    /\ clock \in Nat
    /\ matchStatus \in {"WAITING", "AUCTION", "SQUAD_BUILDING"}
    /\ joined \in SUBSET Participant
    /\ auction \in [Asset -> AuctionRow]
    /\ bids \in [Asset -> Seq(Bid)]
    /\ events \in [Asset -> Seq(Event)]
    /\ books.wallet \in [Participant -> WalletType]
    /\ ownership \in SUBSET Owned
    /\ pass.now \in Nat
    /\ pass.due \in SUBSET Asset

\* Every participant's money adds up, in the wallet and in every snapshot
\* the ledger keeps of it (the CHECK constraints of both tables never fire,
\* so no request fails on them): reserve, release and purchase only ever
\* move money between columns.
BudgetConserved ==
    /\ \A p \in Participant : Conserved(books.wallet[p])
    /\ \A e \in books.ledger : e.after \in WalletType /\ Conserved(e.after)

\* What is reserved is exactly the leading bid of the auction in progress:
\* nothing stays locked after being outbid, a cancellation or a settlement,
\* and no leader bids with money that is not set aside.
ReservedBacksLeader ==
    \A p \in Participant :
        /\ \A a \in Asset :
               Unfinished(a) /\ Leads(p, a) =>
                   books.wallet[p].reserved = TopBid(a).amount
        /\ (\A a \in Asset : ~(Unfinished(a) /\ Leads(p, a))) =>
               books.wallet[p].reserved = 0

\* The end of an auction never fails on the money or on ownership: whatever
\* was bid, the leader can be released when outbid or when the host cancels,
\* and charged when time is up, under keys nothing has used before.
HeldFundsCanMove ==
    \A a \in Asset :
        Unfinished(a) /\ HasBid(a) =>
            /\ Permitted(books, ReleaseTop(a, OutbidKey(a, Len(bids[a]) + 1)))
            /\ Permitted(books, ReleaseTop(a, CancelKey(a)))
            /\ SaleAllowed(a)

\* A sold auction, its last bid, the ownership row, the ledger and the event
\* log tell one story, and nothing is owned that was not sold.
SaleIsConsistent ==
    /\ \A a \in Asset :
           auction[a].status = "SOLD" =>
               /\ HasBid(a)
               /\ auction[a].winner = TopBid(a).bidder
               /\ auction[a].currentPrice = TopBid(a).amount
               /\ [asset |-> a, owner |-> TopBid(a).bidder,
                   price |-> TopBid(a).amount] \in ownership
               /\ \E e \in books.ledger : e.op = Purchase(a)
    /\ \A o \in ownership : auction[o.asset].status = "SOLD"
    /\ \A o1, o2 \in ownership :
           /\ o1.asset = o2.asset => o1 = o2
           /\ o1.owner = o2.owner /\ o1.asset \notin Players
                  /\ Kind(o1.asset) = Kind(o2.asset) => o1 = o2

\* The rows of p's ledger with operations of a type, and their amounts.
Rows(p, type) == {e \in books.ledger : /\ e.op.participant = p
                                       /\ e.op.type = type}
Total(p, type) == SumOf([e \in Rows(p, type) |-> e.op.amount])

\* The ledger explains every wallet: its rows added up give what is reserved
\* and what is spent, and one of the snapshots it keeps is the wallet.
LedgerExplainsWallet ==
    \A p \in Participant :
        LET wallet == books.wallet[p]
        IN  /\ wallet.reserved =
                   Total(p, "RESERVE") - Total(p, "RELEASE") - Total(p, "PURCHASE")
            /\ wallet.spent = Total(p, "PURCHASE")
            /\ \/ wallet = FullWallet
               \/ \E e \in books.ledger : e.op.participant = p /\ e.after = wallet

OwnedBy(p) == {o \in ownership : o.owner = p}

\* A participant's spent budget is the price of what it owns.
SpentBuysOwnership ==
    \A p \in Participant :
        books.wallet[p].spent = SumOf([o \in OwnedBy(p) |-> o.price])

\* The event log replays the row: one event per version, the last of them its
\* status, and the bids its BID_PLACED events, each once, in their order and
\* with their amount; the last of them is the price.
HistoryExplainsAuction ==
    \A a \in Asset :
        LET log == events[a]
        IN  auction[a].status # "NONE" =>
                /\ Len(log) = auction[a].version + 1
                /\ \A n \in DOMAIN log : log[n].version = n - 1
                /\ log[Len(log)].statusAfter = auction[a].status
                /\ \A i \in DOMAIN bids[a] :
                       \E n \in DOMAIN log : /\ log[n].type = "BID_PLACED"
                                             /\ log[n].version = bids[a][i].version
                                             /\ log[n].amount = bids[a][i].amount
                /\ \A n \in DOMAIN log :
                       log[n].type = "BID_PLACED" =>
                           \E i \in DOMAIN bids[a] : bids[a][i].version = log[n].version
                /\ \A i, j \in DOMAIN bids[a] :
                       i < j => bids[a][i].version < bids[a][j].version
                /\ auction[a].currentPrice =
                       IF HasBid(a) THEN TopBid(a).amount
                                    ELSE auction[a].openingPrice

\* What the lobby tells the host of a room that is not full: "Share the room
\* code and wait for your opponent to join." (match-lobby-card.tsx).
RoomWaitsForOpponent == Guest \notin joined => matchStatus = "WAITING"

\* Once squads are being built nobody's money is held and no auction is open,
\* so the wallets the squads were paid from are final.
NothingHeldInSquadPhase ==
    matchStatus = "SQUAD_BUILDING" =>
        /\ joined = Participant
        /\ \A a \in Asset : ~Unfinished(a)
        /\ \A p \in Participant : books.wallet[p].reserved = 0

\* The inductive strengthening of the invariants above: what else must hold
\* for a step to preserve them.

\* At most one auction of a match waits or is live.
OneUnfinished ==
    \A a, b \in Asset : Unfinished(a) /\ Unfinished(b) => a = b

\* An auction has no bids before it is started.
BidsNeedStart ==
    \A a \in Asset : auction[a].status \in Unstarted => ~HasBid(a)

\* A pass only lists auctions that were started.
DueWasStarted ==
    \A a \in pass.due : auction[a].status \notin Unstarted

\* No key is in the ledger before the step that uses it: the operation of a
\* step is always applied, never mistaken for the replay of an older one.
KeySpent(e) ==
    \E a \in Asset :
        \/ /\ e.op.type = "RESERVE"
           /\ \E i \in DOMAIN bids[a] :
                 /\ bids[a][i].bidder = e.op.participant
                 /\ e.op.key = BidKey(a, bids[a][i].key)
        \/ /\ e.op.type = "RELEASE"
           /\ \E n \in 1 .. Len(bids[a]) : e.op.key = OutbidKey(a, n)
        \/ /\ e.op.type = "RELEASE"
           /\ e.op.key = CancelKey(a)
           /\ auction[a].status = "CANCELLED"
        \/ /\ e.op.type = "PURCHASE"
           /\ e.op.key = PurchaseKey(a)
           /\ e.op.item = a
           /\ auction[a].status = "SOLD"

\* Every ledger row has the key of a step that was taken.
LedgerKeysSpent == \A e \in books.ledger : KeySpent(e)

\* Whoever leads an auction may still own its asset.
LeaderMayOwn ==
    \A a \in Asset :
        Unfinished(a) /\ HasBid(a) => MayOwn(TopBid(a).bidder, a)

\* The current price is the last bid, or the opening price before there is
\* one, and a bid must beat it.
PriceIsLastBid ==
    \A a \in Asset :
        auction[a].status # "NONE" =>
            /\ auction[a].minimumIncrement # 0
            /\ auction[a].currentPrice = IF HasBid(a)
                                           THEN TopBid(a).amount
                                           ELSE auction[a].openingPrice

\* An auction nobody nominated has no history.
HistoryNeedsRow ==
    \A a \in Asset : auction[a].status = "NONE" => events[a] = <<>> /\ bids[a] = <<>>

\* The inductive invariant of the room.
RoomInv ==
    /\ TypeOK
    /\ BudgetConserved
    /\ OneUnfinished
    /\ BidsNeedStart
    /\ DueWasStarted
    /\ LedgerKeysSpent
    /\ LeaderMayOwn
    /\ ReservedBacksLeader
    /\ SaleIsConsistent
    /\ NothingHeldInSquadPhase

\* A finished auction is final: its row, bids and events never change again,
\* whatever a stale scheduler pass, a late bid or the host does to it.
FinishedIsFinal ==
    [][\A a \in Asset :
          auction[a].status \in Terminal =>
              /\ auction'[a] = auction[a]
              /\ bids'[a] = bids[a]
              /\ events'[a] = events[a]]_vars

\* Time decides the sale: no auction is settled before its end on the wall
\* clock, however old the pass's reading of the clock is.
SettledOnTime ==
    [][\A a \in Asset :
          /\ auction[a].status \in Live
          /\ auction'[a].status \in {"SOLD", "UNSOLD"}
          => auction[a].endsAt <= clock]_vars

\* Leaving the auction phase freezes it: afterwards no wallet, ownership or
\* auction changes, including through a pass that started before.
SquadPhaseIsFrozen ==
    [][matchStatus = "SQUAD_BUILDING" =>
          UNCHANGED <<matchStatus, auction, bids, events, books,
                      ownership>>]_vars

\* An auction that was started ends: sold, unsold or cancelled.
StartedAuctionFinishes ==
    \A a \in Asset :
        auction[a].status \in Live ~> auction[a].status \in Terminal

-----------------------------------------------------------------------------
(* The refinement: rows, bids and wallets as lots and payments.            *)

\* Waiting, active and in its last call, an auction is what a bidder sees.
LotState(status) ==
    CASE status = "NONE" -> "idle"
      [] status = "WAITING" -> "announced"
      [] status \in Live -> "open"
      [] status = "SOLD" -> "sold"
      [] status = "UNSOLD" -> "unsold"
      [] status = "CANCELLED" -> "withdrawn"

\* The last bid leads until the auction ends; then the winner's column says.
LotLeader(a) ==
    IF auction[a].status = "SOLD"
      THEN auction[a].winner
      ELSE IF auction[a].status \in Live /\ HasBid(a)
             THEN TopBid(a).bidder
             ELSE Nobody

LotOf(a) == [state |-> LotState(auction[a].status),
             price |-> auction[a].currentPrice,
             leader |-> LotLeader(a)]

Promise == INSTANCE EnglishAuction
    WITH Bidders <- Participant, Lots <- Asset, Prices <- OpeningPrices,
         Budget <- MatchBudget, NoBidder <- Nobody,
         lot <- [a \in Asset |-> LotOf(a)],
         paid <- [p \in Participant |-> books.wallet[p].spent]

\* The room keeps the promise of an English auction: with all its late
\* commits, retried requests, scheduler passes and crashes, every step is a
\* step of EnglishAuction or none.  One lot at a time, bids that only rise,
\* nobody leads with money paid elsewhere, and what the leader bid last is
\* what the winner pays.
RunsEnglishAuction == Promise!Spec

=============================================================================
