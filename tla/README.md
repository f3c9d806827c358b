# FOOTBID in TLA+

FOOTBID is a two-player football auction game. Two users meet in a match, bid
for players, managers and formations in timed auctions with a fixed and
protected budget, and then build and lock a squad from what they won. The
server is a NestJS API over PostgreSQL (`apps/api`), the client a Next.js
application (`apps/web`). The code is small, but its core promises are about
money, time and several actors at once: two bidders, a host who may cancel, a
scheduler that closes auctions on the wall clock, and a process that may stop
between two transactions.

This directory holds TLA+ modules of that core, TLC runs that model-check them on small
instances, and TLAPS proofs of the most important properties for every value
of the parameters. Paths below are relative to the repository.

## 1. Inventory

| Component | State it keeps | Operations | Model |
|---|---|---|---|
| Auction engine, `apps/api/src/auctions/auctions.service.ts` | `Auction`, `Bid`, `AuctionEvent`, ownership tables | three nominations, start, bid, cancel, last call, settle unsold, settle sold, read-only queries | `AuctionRoom`, and `EnglishAuction` for what it promises |
| Auction scheduler, `auctions.scheduler.ts` | the `processing` flag, one clock reading and one list per pass | a pass every second | `AuctionRoom` |
| Budgets, `budgets/budgets.service.ts` | wallet columns of `MatchParticipant`, `BudgetTransaction` ledger | reserve, release, purchase; idempotent by key | `Wallet` inside the engine's transactions, `Budgets` on their own |
| Match lobby, `matches/matches.service.ts` | `Match`, `MatchParticipant` | create, join, read | `Lobby`; the join of one match also in `AuctionRoom` |
| Squads, `squads/squads.service.ts` | `Squad`, `SquadAssignment`, `Match.status` | start squad building, save, lock, validate | `SquadPhase`, `SquadRules`, and `SquadLocks` for overlapping transactions; start also in `AuctionRoom` |
| Auction gateway, `auctions.gateway.ts`, `realtime/authenticated-socket.ts` | Socket.IO rooms | join, leave, bid, broadcast | `RoomFeed`, `SocketGate` (leaving is left out) |
| Socket authentication, `realtime/socket-auth.service.ts` | the identity cached on a socket | authenticate at the connection or at the first bid | `SocketGate` |
| Rate limiter, `realtime/socket-rate-limiter.service.ts` | time stamps per socket and event | consume, clear | `SocketGate` |
| Authentication, `auth/auth.service.ts`, `users/users.service.ts`, and `apps/web/src/lib/api-client.ts` | refresh sessions; the cookies of a browser | registration, login, refresh, logout, validation of access tokens | `Session`, and `Accounts` for registration and login |
| Auction room view, `apps/web/.../auction-room-view.tsx` | auctions, wallet, history in a browser | load, apply broadcasts, bid, start, cancel, nominate, select | `RoomFeed` (wallet left out) |
| Squad builder view, `squad-builder-view.tsx` | a draft, the stored squad it was given, the dirty flag, a request under way | edit, save, lock | `SquadDraft`, `SquadPhase` |
| Match lobby view, `match-lobby-card.tsx` | the match on display, a polling effect, a request under way | load, poll, create, join | `Lobby` |
| Nomination form, `auction-nomination-form.tsx` | three catalogs, the chosen type and asset, the amounts, a request under way | load, choose, nominate | `NominationForm` |
| Wallet view, `wallet-view.tsx` | the wallet and its history as they were read | load, retry | `WalletView` |
| Catalogs, `players.service.ts`, `managers.service.ts`, `formations.service.ts`, and their views | a query, its answer, a request under way | filter, sort, turn pages, retry | `Catalog` (lists of filter options and single rows left out) |
| Seed, `prisma/seed.ts` | the seeded tables | upsert row by row, rename an older row | `Catalog` (league and clubs left out) |
| `prisma/verify.ts`, configuration, HTTP set-up | none | read once, start up | not modelled |

How they interact. HTTP controllers and the auction gateway call the services;
the auction engine calls the budget service inside its own transaction; the
scheduler calls the engine; squads close the auction phase that the engine and
the lobby opened (`Match.status` is the shared variable of all three). After a
commit the caller broadcasts the new snapshot to the sockets of the match, and
views reload wallets and history over HTTP.

What is hard here:

- *Interleaving.* Bids of two participants, the host's cancellation and the
  scheduler's pass change one auction. The services use Serializable
  transactions with retry, so a handler is atomic towards the database, but its
  clock reading is not, and neither is a pass, which carries one reading of
  the clock and one list over many transactions.
- *Money.* A bid is a release for the former leader and a reservation for the
  new one. Both are idempotent by key, so an accidental repetition of a key
  would silently leave the money where it was.
- *Failure.* A settlement that throws is logged and tried again for ever. If
  it could throw deterministically the auction would stay live and block the match.
- *Retries.* A client repeats a bid, or a lock, whose answer it lost.
- *Optimistic versions.* A squad is edited as a local draft in any number of tabs.
  Only the version a request names stands between a save and the loss of
  another tab's work, or between a lock and a squad its owner never saw.
- *Sessions.* A refresh reads a session, decides, and writes under a guard; other refreshes
  of the same cookie, a logout and the clock come in between.
- *Phases.* Lobby, auction phase, squad building and READY each have entry
  conditions that read what another component writes.
- *Ordering.* Broadcasts are sent after commits, by whoever committed, and
  views take whatever comes last. Catalogs and forms are used while their requests are under way.
- *Read Committed.* The budget operations on their own have neither the match's row nor Serializable to
  protect them: only a guarded update and two unique indexes.

`PROJECT.json` lists these as hazards, each at its line, with the properties that
cover it, or the reason none does yet.

Correctness, by component:

- *Budgets*: conservation, in wallets and ledger snapshots; no column below
  zero; a key moves money once; the ledger explains the wallet, also to the page that reads both.
- *Engine*: what is reserved is exactly the leading bid of the open auction;
  a finished auction is final; a sale is told alike by auction, bid, ownership,
  ledger and events; the event log replays the row; one open auction per match; a
  leader can always be released and charged; all that bidders see of it is an English auction.
- *Scheduler*: no early settlement; everything started ends.
- *Phases*: squad building starts settled and nothing moves afterwards; a room
  waits for its second participant (this one fails, section 6).
- *Squads*: a locked squad is legal and final; the match is READY exactly when both
  are locked; a version stands for one content; a lock locks what the page was given.
- *Squad builder*: no series of edits leaves a draft the server would refuse,
  loses a player or a captain; changes not saved are flagged (this one fails, section 6).
- *Sessions*: one refresh token of a session is good at a time and is rotated once; a revoked session
  stays revoked; a refresh is refused for a reason; an expired access token is refreshed (this one
  fails, section 6).
- *Gateway and room view*: what a page shows is or was so, and a result it shows is the result; one bid
  at a time; a bid is answered while the connection lasts; a result stays on display (this one fails, section 6).
- *Lobby*: one active match per user, however its requests race; nobody loses a room or a place in it; the
  card shows a room of its viewer and finds out when the opponent is there.
- *Gate*: no window of time lets more bids through than the limit, and a refused bid is told the right time.
- *Accounts*: a name finds its owner and nobody else, however registrations race.
- *Catalogs*: a page shows what was last asked for; pages together show every row once; the seed converges.
- *Nomination form*: what is sent is of the type it is sent as; the selected asset is priced (this one fails, section 6).

## 2. Modules and their code

**`Wallet`** has no variables. `books` is a record of all wallets and of the
ledger. `executeOperation` is split into `Permitted` (when it returns instead of
throwing) and `Execute` (the books it leaves). `Recorded` is the look-up by
`(participantId, idempotencyKey)`; the replay compares all stored fields
(`e.op = op`). `Funded` is the guard of the conditional `updateMany`, `Moved`
its increments and decrements, `PurchasedOnce` the unique index on the purchase
key.

**`AuctionRoom`** is one match. An auction row is a record per asset, since
the unique indexes allow one auction per asset and match.

| Definition | Code |
|---|---|
| `CreatePlayerAuction`, `CreateManagerAuction`, `CreateFormationAuction`, `Nominate` | `createPlayerAuction`, `createManagerAuction`, `createFormationAuction` |
| `StartAuction`, `PlaceBid`, `CancelAuction` | the methods of these names, `placeBid` with its release, reservation, row update and event |
| `AfterOutbid`, `BidReservation` | the budget calls of `placeBid`: release of another leader; the full amount, or the difference when the leader raises its own bid |
| `StartPass` | `processDueAuctions` up to its query, `Due` is the query |
| `AdvanceAuction` = `EnterLastCall` or `SettleAuction` (`SettleUnsold`, `SettleSold`) | `advanceAuctionClock`, one transaction of the pass |
| `SkipAuction` | a listed auction with nothing left to do, or whose transaction failed and was logged |
| `Crash` | the process stops between two transactions and loses the pass |
| `JoinMatch` | `joinMatch` of the lobby, for this match |
| `StartSquadBuilding` | `startSquadBuilding` of the squads service |
| `Record` | the row's `version + 1` and `createAuctionEvent` |

Abstractions, and why they are sound:

- *A handler is one action.* Every mutation runs in one Serializable transaction
  (`withSerializableRetry`), so the committed states are those of a serial
  order. `Lobby` and `SquadLocks` model transactions like these from the inside.
- *A refused request is a false guard.* Exceptions roll the transaction back,
  so nothing changes.
- *The clock is read before the commit.* `Recent` is the set of readings up to
  `CommitDelay` old. Each handler takes any of them. `StartPass` reads the
  present clock, and the pass keeps the reading while the clock goes on.
- *Time is in seconds and starts at 0.* Comparisons keep the strictness of
  the code, for instance `now < endsAt` to bid and `endsAt <= now` to settle.
- *Roles and data.* Host and guest are constants, amounts and durations small
  sets of what the DTOs let through, keys and assets model values. Users who are not
  in the match are refused before any state is read and do not occur.
- *Event payloads* keep type, status after, version and amount. Wording and
  time stamps are left out.

**`EnglishAuction`** is what a room promises its bidders: lots announced one at a time, opened, raised by
who can pay, and knocked down, passed over or withdrawn. It has no rows, versions, wallets, keys, clocks or
scheduler. `AuctionRoom` implements it: `LotOf` maps a row and its bids to a lot, `paid` is the spent column, and
`RunsEnglishAuction` is the abstract specification as a property. A last call is no step of it; a bid of the
leader itself is a raise; the winner pays the last bid, and the price of a withdrawn lot is nobody's.

**`Budgets`** is `executeOperation` again, outside the engine's transactions, with its queries as steps.

| Definition | Code |
|---|---|
| `Ask` | `validateOperation` |
| `LookUpKey` | the look-up by key: a replay, a conflict, or a new operation |
| `TakeFunds` | the look-ups of participant and auction, and the guarded `updateMany`, which waits for the row (`RowIsFree`) |
| `RecordOperation`, `RefuseRecord` | `budgetTransaction.create` and the commit; a unique index refuses it |
| `GiveUp` | a lost connection or a transaction that timed out |

A guarded update under Read Committed locks the row, looks at it again once it has the lock, and keeps it until the
commit. So the transaction that holds the row is alone with the ledger of its participant, and what it
read before may be old. A deadlock is impossible: a transaction updates one row.

**`WalletView`** is the wallet page over `Budgets`: `FindUser`, `ReadWallet`, `ReadHistory`, `ReadTotal` are its
requests (the last two are the two queries of `listTransactionsForUser`), `FailLoad` and `LoadAgain` their failure and the
retry. `NewestFirst` sorts by the order of recording: `createdAt` is given by the client that has the row's lock, and
two rows of one participant in one millisecond are taken not to occur.

**`Catalog`** is the seed, the three queries and the three pages.

| Definition | Code |
|---|---|
| `SeedPlayer`, `SeedManager`, `SeedFormation`, `CrashSeed` | the upserts of `seed.ts` one by one, `Renamed` the `updateMany` before the formations; a run that stops |
| `FindPlayers`, `FindManagers`, `FindFormations`, `Precedes`, `PageOf`, `TotalPages` | `findAll` of the three services |
| `ApplyFilters`, `ResetFilters`, `GoToPage`, `Retry`, `RunEffect` | the handlers of these names, the effect of `[query, reloadKey]` with its clean-up |
| `ReadRows`, `ReceivePlayers`, `ReceiveManagers`, `ReceiveFormations`, `FailRequest` | the query at the server; what each page does with an answer |

A row has one number, which is what pages filter and sort by. The number of rows is read with the answer: reading
it between the rows and the answer cannot be told apart.

**`NominationForm`** is the form of the host: `LoadAssets`, `FailAssets`, `ChooseAssetType`, `SelectAsset`, `TypePrice`,
`TypeIncrement`, `SubmitNomination`, `Nominated`, `FailNomination`, with the conditions that disable its
fields. A catalog is a list of assets, each with its market value; an amount is a number.

**`Accounts`** is registration and login: `Register` up to the look for a conflict, `CreateUser` the insert under two
unique indexes after the hashing, `Login` with either name. A word stands for a name in lower case, `Written` for the ways to
write it, and `Normal` for what the DTOs and the service make of it.

**`SocketGate`** is what a bid passes before the engine: `Authenticate` of the connection, `PlaceBid` with `Consume`, the
sliding window, and `AskIdentity` with `LearnIdentity` for a bid that comes before the identity is known.

**`Pages`** puts these six parts (and `SquadDraft`) side by side. They share no state; a behaviour is one of them, chosen at its
start, so one run has the sum of their states. `MCPages` gives them their values.

**`SquadRules`** has no variables: squads as sets of assignments, the server's
checks and the builder's edits.

| Definition | Code |
|---|---|
| `ValidBasics`, `ValidShape`, `Lockable` | `validateAssignmentBasics`, `formationSlotPositions`, `validateLockableSquad`: that they return instead of throwing |
| `AssignedPosition`, `KeepersFit`, `Placed` | the positions `saveSquad` derives, its goalkeeper check, the rows it stores |
| `AssignStarter` (`Swapped`, `InSlot`), `SetPlayerRole`, `RemovePlayer`, `ChooseCaptain` | the edits of these names in `squad-builder-view.tsx` |

**`SquadDraft`** has one variable, the draft of one builder, and an action per
edit. It answers what any series of edits can produce.

**`SquadPhase`** is the server's squads of one match, and any number of pages that show
them.

| Definition | Code |
|---|---|
| `StartSquadBuilding` | `startSquadBuilding`; here with the count of players, in `AuctionRoom` with the open auctions |
| `SaveAllowed`, `SavedSquad`, `SaveSquad` | `saveSquad`: its checks, the row it writes, the transaction |
| `LockAllowed`, `LockedSquad`, `LockSquad` | `lockSquad`, with the statuses of participant and match |
| `ServeSave`, `ServeLock` | the request of a page reaches the server and is done, refused, or (a lock of a locked squad) answered as it is |
| `OtherSave`, `OtherLock` | the same by a client that keeps no page: another tab, closed meanwhile |
| `Load` | `getSquad` with `applySnapshot`: opening, Refresh, reload |
| `Edit`, `SaveDraft`, `ConfirmLock` | the handlers of the page up to their request, with the conditions that enable the buttons |
| `ReceiveSaved`, `ReceiveLocked`, `ReceiveFailure` | what the handlers do after the `await` |
| `Vanish` | a request that never arrives, an answer nobody waits for |

Abstractions here:

- `saveSquad` and `lockSquad` are actions: `SquadLocks` shows that Serializable makes them so. Their order against the
  page's own steps is free: a page is edited, reloaded or closed between a request,
  its service and its answer, each of which may be lost.
- What a participant owns is chosen at the start and stays: `SquadPhaseIsFrozen` of
  `AuctionRoom` shows that no sale is made in the phase.
- A draft is a set. Its order in the code is only for display. The squad's name and
  the player highlighted on the page are left out: no check reads them.
- A position is `"GK"` or another one: no check tells the others apart.
- An edit in `SquadPhase` gives the draft any valid member of the constant `Drafts`.
  `SquadDraft` shows that edits only reach valid drafts; the theorems hold for
  any set of drafts, the run takes the few that the checks tell apart.

**`SquadLocks`** opens these two actions up: `BeginSave` and `BeginLock` read a snapshot and decide on it, `CommitSave`
and `CommitLock` write what was decided, `Abort` is P2034, a lost connection or the end of the process, and any
number of transactions may be open at once. What Serializable refuses is modelled as in `Lobby`. `CommitsAsIfAlone` says that each commit is
one `OtherSave` or `OtherLock`, so `SquadLocks` implements `SquadPhase` (`RunsSquadPhase`). `startSquadBuilding` stays one step.

**`Session`** is the table of sessions and one browser with several tabs. Browsers of other
sessions are independent of it: every handler touches one session, which its token names.

| Definition | Code |
|---|---|
| `Login` | `createAuthenticatedSession`, where `login` and `register` end |
| `LookUp`, `Judge`, `Revoke`, `Rotate` | `refresh`: up to its first `await` on the row; the clock and the decision; the revocation when a rotated token is presented; the guarded `updateMany` |
| `ServeLogout` | `logout`, with `ignoreExpiration` |
| `AccessAccepted` | `validateAccessToken` |
| `FindUnauthorized`, `SendRefresh` | `getCurrentUser` answered 401, and its second request |
| `SendLogout` | the dashboard's `logout` |
| `Receive`, `Lose` | an answer sets, clears or leaves the cookies (`auth.controller.ts`); a request or an answer is lost |

Abstractions here:

- Tokens carry a random `jwtid`, so a token is its number in the session, and its hash is the token.
- An access and a refresh token are issued and set as cookies together: the jar holds the pair. A
  cookie expires with its token.
- The tokens of a rotation are issued at some moment between the clock reading and the update.
- `login`, `register` and `logout` write once and are one action each. No handler changes an account's status.
- `rotated` and `loggedOut` are history, read by properties only.

**`RoomFeed`** is one match seen from one browser: the auctions of the server, broadcasts under way, one
socket with both its ends, and the page. A snapshot of an auction is its version and whether it is still open.

| Definition | Code |
|---|---|
| `Creations`, `Changes`, `Commit` | what the methods of `AuctionsService` commit: one auction open at a time, a version more per change, finished ones left alone |
| `OtherCommit`, `Replay` | commits of the scheduler and of other clients; the repeated bid that is broadcast again |
| `Broadcast`, `Told`, `Answered` | `broadcastMutation`; the rooms a socket is in; the return value of the handler of `auction:bid` |
| `Connect`, `LookUp`, `EnterRoom`, `FailJoin` | `auction:ready`; `joinMatch` and `joinAuction` of the gateway before and after their `await`; their failure |
| `AcceptBid`, `RefuseBid` | `placeBid` of the gateway |
| `CommitCall`, `FailCall`, `ServeFetch` | the controller's start, cancel, nominations and history, over HTTP |
| `LoadList`, `ShowRoom` | `loadAuctionRoom` and the effect that calls it |
| `RunEffect`, `Disconnect` | the socket effect of `[auctionId, matchId]` with its clean-up; a dropped connection |
| `ReceiveMatch`, `ReceiveAuction`, `ReceiveUpdated`, `ReceiveBid`, `ReceiveException` | the acknowledgements of the two joins, the handler of `auction:updated`, the acknowledgement of a bid, `handleSocketError` |
| `AskHistory`, `ReceiveFetch`, `ApplyMutation`, `ReceiveCall` | `refreshRelatedData`, `applyMutation` |
| `PlaceBid`, `AskCall`, `SelectAuction` | `placeBid`, `startCurrentAuction`, `cancelCurrentAuction`, the nomination form, `selectAuction`; its buttons are there (`ListsAuctions`) if an auction is on display and the list has more than one |

Abstractions here:

- *The outbox has no order.* A handler broadcasts after its own `await`, and the scheduler after its whole
  pass: any two commits may be broadcast the other way round. A connected socket keeps its order.
- *Between entering a room and acknowledging, and between a broadcast and the acknowledgement of the bid,* only
  microtasks run: each pair is one step.
- *The effect runs after a rendering*, so `RunEffect` is a step of its own, and messages may arrive before it.
- *A reconnection* gives the socket new rooms and drops acknowledgements that are due; Socket.IO
  then calls back none of them. A bid whose connection drops before its commit may still be taken: `OtherCommit`.
- *A history* is the number of its events; every version has one more. The wallet is fetched with each history
  and left out. `Slots` bounds the histories under way: a request that finds none fails at once, as any may.
- The page loads once. A reload is a new page.
- One request over HTTP and one bid at the server at a time. The page allows more: the buttons of different
  panels are disabled separately, and a failed join frees the bid button.

**`Lobby`** is the rooms of all matches, the requests to create or join one, and the lobby card of one user.

| Definition | Code |
|---|---|
| `PickCode` | `generateUniqueRoomCode`, which runs before the transaction |
| `BeginCreate`, `CommitCreate` | `createMatch`: the transaction looks for an active participation, and inserts match and host |
| `Joinable`, `BeginJoin`, `CommitJoin`, `JoinAgain` | `joinMatch`: its checks; guest and status; the early return for a participant |
| `StartAuction` | `startAuction` of the auction engine, for what it does to the status of the match |
| `Fail` | a refusal, an aborted transaction (these two methods do not retry), a lost answer, twenty taken codes |
| `Answer`, `IsFull` | `matchLobbyResponse` |
| `LoadCurrentMatch`, `AskFromPage`, `Receive` | the loading effect; `createRoom` and `joinRoom` before and after their `await` |
| `RunEffect`, `Poll`, `ReceivePoll`, `LosePoll` | the polling effect of `[matchId, matchIsFull]` and `refreshLobby`, which does not wait for the poll before |

Abstractions here:

- *Transactions take two steps.* Unlike in the other modules, a transaction reads and decides in one step and
  commits in another; others commit in between. It does not see what they write.
- *Serializable* is modelled from how PostgreSQL decides it: a row changed meanwhile refuses the update
  (`changed`), and a transaction that missed a committed write and writes what a concurrent one reads is refused
  (`missed`, `read`). What else PostgreSQL aborts, to be safe, is `Fail`.
- *A match ends never.* No code sets `COMPLETED`, `CANCELLED` or `LEFT`; every match is active and every participant
  in it. `waiting` tells `WAITING` from every later status, which is all the lobby asks.
- *Loading is one step*: the page can ask for nothing while it loads, and a room it was not told of is polled.
  A load that fails leaves the page with its error and the button that loads again: it is still loading.
- What a reloaded page had under way goes on as a request of another client.

`MCAuctionRoom` adds the symmetry set.
`MCSquadPhase` gives formations, owners and drafts their values, and a behaviour either pages and clients served in one step or transactions.
`MCFeed` gives a behaviour the page of a host or of a guest, as `Pages` does with its parts.
`WalletProofs`, `AuctionRoomProofs`, `SquadDraftProofs`, `SquadPhaseProofs`, `SessionProofs`,
`RoomFeedProofs`, `LobbyProofs` and `PagesProofs` hold the theorems.

Definitions whose comment begins with "Mutant" are deliberately wrong variants of the definition
below them. They are used by no action: substituting one must break the property
`PROJECT.json` names beside it, which shows that the property can fail.

## 3. Runs

| Run | Instance | Question |
|---|---|---|
| `room_bidding` (`RoomBidding.cfg`) | one player, two keys, amounts 1 to 4 over a budget of 3, commit delay 1, clock to 5, fair; 105,250 states | Do money, history and time stay right under rival bids, raises, retries, late commits, stale passes, cancellation and crashes, is it an English auction, and does every started auction end? |
| `room_sales` (`RoomSales.cfg`) | two players, two managers and a formation, budget 3, `SquadSize` 1, clock to 2; 3,042,704 states | Through several auctions and the end of the phase: can the leader always be released and charged although one manager and one formation is the limit, is every sale told alike, is what was spent what is owned, and does squad building start settled and stay so? |
| `room_lobby` (`RoomLobby.cfg`) | two managers and a formation, clock to 4 | Does the room wait for the opponent? It does not (section 6). |
| `squad_phase` (`SquadPhase.cfg`) | sides of two with a bench of one, seven drafts, three formations, one page of the host beside other clients of both, or three transactions, versions adding up to 3; 747,460 states | Under lost and late requests, stale pages and reloads: are locked squads legal, final and what their page was given, and is the match READY when it should be? Does every commit of an overlapping save or lock do what it would do alone? |
| `squad_unsaved` (`SquadUnsaved.cfg`) | as `squad_phase`, versions to 2 | Is a change that was not saved flagged? It is not (section 6). |
| `session` (`Session.cfg`) | two sessions, two tabs, access tokens of one and refresh tokens of two ticks, clock to 3; 2,191,252 states | Under racing refreshes, logouts, expiry and lost answers: is one token good at a time, does revocation stay, is every refusal deserved? |
| `session_tabs` (`SessionTabs.cfg`) | the same, clock to 2 | Is an expired access token refreshed? Not in two tabs (section 6). |
| `feed` (`Feed.cfg`) | a host's page with one auction of one change and a history under way, or a guest's with two auctions and no history, fair; 1,969,096 states | Over a socket that drops, with late broadcasts, failing joins, late answers over HTTP and a user who looks at the one auction and the other: is what the page shows, and every result it shows, what the auction is or was? Does it place one bid at a time, and learn what became of it? |
| `feed_result` (`FeedResult.cfg`) | one auction of one change | Does a result on display stay? It does not (section 6). |
| `lobby` (`Lobby.cfg`) | three users, two room codes, two requests at a time, one lobby card, fair; 325,114 states | Does every user stay in one match, is the card true, and does it see the opponent? |
| `pages` (`Pages.cfg`) | two callers of seven operations; catalogs of two rows and pages of one; two clients and four words; a limit of 2 in a window of 3, clock to 7; four players, three starter slots, one substitute, one reserve; 501,879 states | Do the ledger, the wallet page, the catalogs, the seed, the nomination form, the draft, registration and the limiter each keep their promise? |
| `nominate` (`Nominate.cfg`) | the same | Is the price of the form that of the asset selected in it? It is not (section 6). |

The properties, and the hazard each is for:

- `TypeOK` (of `AuctionRoom`): rows have their types, so no guarded update takes a wallet
  column below zero. The type invariants of the other modules are in the proofs.
- `LedgerExplainsWallet`, `SpentBuysOwnership`: the money is
  always all there, follows from the ledger, and what was spent is the price of
  what is owned.
- `ReservedBacksLeader`: reserved is exactly the leading bid.
- `HeldFundsCanMove`: outbidding, cancelling and settling never fail on money
  or on ownership, under keys the ledger does not hold.
- `RunsEnglishAuction` (refinement): one lot at a time, bids only rise, nobody leads with money it paid
  elsewhere, and the winner pays what it bid last, whatever is retried, late, stale or crashes.
- `SaleIsConsistent`, `HistoryExplainsAuction`: one story in all tables.
- `FinishedIsFinal`, `SettledOnTime`, `SquadPhaseIsFrozen` (about steps):
  nothing changes a finished auction, sells before the end on the
  present clock, or moves money in the squad phase.
- `NothingHeldInSquadPhase`: the phase starts with both participants, no
  open auction and nothing reserved.
- `StartedAuctionFinishes` (liveness).
- `DraftIsValid`, and about steps `CaptainKeepsArmband` and `SwapsLoseNobody`: what
  edits must not break, however players are moved between eleven, bench and
  reserves.
- `LockedSquadIsLegal`: a locked squad is a full side of owned players, one keeper
  in the formation's keeper slot, one captain, although locking reads only rows that an
  earlier save placed.
- `ReadyWhenBothLocked`: statuses of match, participants and squads agree, also when two locks read the squads before either
  commits.
- `CommitsAsIfAlone` (about steps): what a save or a lock checked on its snapshot holds of the rows it writes.
- `VersionNamesSquad`, and about steps `LocksWhatWasGiven` and `LockingIsFinal`: the
  version a request names is enough to tell what its author saw.
- `OneTokenIsCurrent`: of two refreshes that read the same row one rotates; a token in a cookie or in
  a request is the stored one or was rotated.
- `RevokedIsFinal` (about steps): a refresh that read the row before a logout does not undo it.
- `ShownIsTrue`: snapshots come late, twice, by four ways and out of order; the page still shows no version
  and no result that was not.
- `OneBidAtATime`, `BidIsAnswered` (liveness): an error of something else, a broadcast, or a
  selection must not free the bid button early, and an answer must.
- `OneActiveMatch`: two transactions of one user both find no match; one must not commit.
- `ShownRoomIsSo`, `OpponentIsSeen` (liveness): a code found free may be taken when it is
  used, and poll answers come late, lost and out of order, before and after the effect
  that sent them ended.
- `RefusalHasReason`: a refusal decided on a row read earlier is still deserved when it is sent.
- `LedgerReplays`, `AnswersAreTrue`: operations that all found nothing recorded meet at one row; each entry still
  follows from the one before, and each caller is told what happened.
- `HistoryExplainsWallet`: three queries at three moments make one page.
- `PageAnswersQuery`: a filter, a page or a retry while an answer is under way; the form's own error.
- `PagesPartition`, `SeedConverges`: rows that tie; a seed that crashed, ran twice, or found the one formation an older seed named otherwise.
- `NominatesOfItsType`: the type is changed at any moment, also while catalogs load or a nomination is sent.
- `IdentifiersFindTheirOwner`: two registrations find no conflict and hash.
- `BidsAreLimited`: attempts as old as the window, refused attempts, bids before the identity is known.

Bounds. The clock stops at `MaxTime`, and `StartAuction` refuses an auction that
would outlast it: this is the one guard that is not in the code. The run
therefore stops when the time is up and all auctions ended, hence
`CHECK_DEADLOCK FALSE`. A budget of 3 with amounts up to one more than
the budget reach every border: the last unit reserved, a bid above the budget, a raise
for which only the difference is available, and in `room_bidding` an opening price
and increment that lift the minimum bid above `MaxPrice`. Two keys let a client
repeat a bid after another one. The five assets of `room_sales` let a participant win one auction
while a second of the same kind goes on. `SquadSize` is 1 where the code has 11.
Keys, players and managers are symmetric: nothing orders them.

In the draft of `pages` the side has more slots than any edit looks at (an edit concerns one
player, the one it displaces, the captain and the free slots of a role), and a bench and
reserves of one fill up, so `SetPlayerRole` also meets a role with no free slot. In
`squad_phase` the keeper slot differs between two formations and the shape of the third
is malformed; the drafts hold a legal side for each participant, one without a
captain, one without its second starter, one with the captain on the bench and one with
the opponent's player; one keeper keeps by its secondary position. `SaveSquad` stops when the versions
add up to `MaxVersions`, the one guard here that is not in the code: three saves
let one page go stale, be saved over and save again before or between locks. Locking itself is not
bounded, so each squad's version ends at most one above its saves.
Three transactions are two of one participant beside one of the other: a lock and a save that read one version, a lock
of the other side, and what aborts; where both squads are locked transactions have nothing left to do, hence `CHECK_DEADLOCK FALSE`.
Pages of one participant influence each other through the server only, and `OtherSave` and
`OtherLock` do whatever a second page could do to the first.

In `session` two tabs are two requests at every stage of `refresh` at once, or a refresh and
a logout; a clock of 3 lets a pair be renewed and its successor expire as well; two sessions let a
user log in again while a request of the old session is under way. `SendRefresh`
stops when a session issued `MaxIssued` pairs, which with `MaxTime` is what is not in the code, and
why the run may stop (`CHECK_DEADLOCK FALSE`).

The seven operations of `pages` reuse a key with another amount, overdraw, release what was not reserved, buy one item twice
under two keys, and name another match's auction or more than the budget; two callers are enough
for a race, since one holds the row. Catalogs have two rows, which tie in one of them, and pages of one: two pages, and an
empty one behind them. Their requests are not bounded. Two clients and two names of each kind race for one name or for two.
A window of 3 with a clock to 7 has every position of two windows that overlap; the clock is the only bound there,
besides `MaxTime`. The form finds its catalogs before the seed, after the players only, and complete.
Parts of `pages` may stop (a draft cannot always be edited, a clock ends), hence `CHECK_DEADLOCK FALSE`.

In the feed runs `MaxVersion` and `MaxAuctions` bound the commits, which is why the runs may stop, and
`MaxUnderWay` what is committed and not delivered when the next commit comes. One change lets the snapshot before it
come after it. The host's page of `feed`, and `feed_result`, have one auction, where the list offers no choice and nothing is selected; the
guest's has a second, for which it gives up the host's requests and the histories. More auctions and changes than a run can
take are in the theorems, for any number. `Replay`
happens only while nothing else is on its way; without this the wire could grow without a commit.

In `lobby` two requests are enough for every race, since a conflict is between two transactions; a third user
comes to a room that is full or was closed; two codes let one be taken while it is chosen, and a user be about to enter two
rooms. Nothing is cut off: the state space is finite, and since a page may always reload there is no deadlock.

Fairness. `FairSpec` of `AuctionRoom` assumes the clock ticks and the timer fires (weak fairness
of `Tick` and `StartPass`: `setInterval` with 1000 ms), a pass works through
its list (weak fairness of `PassStep`: a loop with a `try` around each auction), and
an auction's transaction does not fail in every pass (strong fairness of
`AdvanceAuction`: failures the code retries are conflicts and lost connections).
That no failure is deterministic is not assumed: it is `HeldFundsCanMove`. No
fairness is asked of users, and `Crash` may happen again and again. `FairSpec` of `RoomFeed` assumes that a handler
of a bid goes on after its `await` (accepting or refusing it, then broadcasting the result) and that a
connected socket delivers, both weak, and `MCSpec` of `MCFeed` the same of either page. The connection may drop
at any time, and then the answer is not owed. `FairSpec` of `Lobby` assumes that effects run and the interval fires
(weak), and that not every poll is lost (strong fairness of receiving one): a failed poll is ignored and the next one
follows in three seconds.

## 4. Proofs

All theorems hold for every value of the constants that satisfies
`MatchBudgetAssumption` (a positive budget) and `RoomAssumption` (host and guest
differ, the asset kinds are disjoint, amounts and durations are positive, other
numbers natural). The sets of assets and keys need not be finite.

`WalletProofs`: what a permitted operation returns. It keeps every wallet's type and
conservation, changes one wallet in the stated way, and adds one ledger row;
an unused key is never a replay. And sums: `SumOf` folds the amounts of a set of rows, taking one
element after another as `CHOOSE` picks them, and no induction theorem can be cited about it. That such a fold
exists (`AddsExists`) and depends on its values only (`AddsAgree`) is shown from a smallest
counterexample: strict inclusion among finite sets is well-founded. `SumGrows`, an element more adds its value
whatever the order of picking, is what the room needs of it.

`AuctionRoomProofs`: `RoomInv` is inductive (`RoomInvInit`, `RoomInvStep`,
`RoomInvariant`), and from it

| Theorem | Property |
|---|---|
| `TypeCorrect` | `TypeOK` |
| `BudgetStaysConserved` | `BudgetConserved` |
| `ReserveBacksLeader` | `ReservedBacksLeader` |
| `FundsAlwaysMove` | `HeldFundsCanMove` |
| `LedgerAlwaysExplains` | `LedgerExplainsWallet` |
| `SpendingAlwaysBuys` | `SpentBuysOwnership` |
| `SalesAreConsistent` | `SaleIsConsistent` |
| `HistoryAlwaysExplains` | `HistoryExplainsAuction` |
| `SquadPhaseIsSettled` | `NothingHeldInSquadPhase` |
| `FinishedStaysFinal` | `FinishedIsFinal` |
| `SettlementIsOnTime` | `SettledOnTime` |
| `SquadPhaseStaysFrozen` | `SquadPhaseIsFrozen` |
| `RoomRunsEnglishAuction` | `RunsEnglishAuction`, the refinement of `EnglishAuction` |

Why the strengthening is needed:

- `OneUnfinished`: `ReservedBacksLeader` equates a wallet with the bid of *one*
  auction. With two open auctions a step of one would disturb the equation of the other.
- `BidsNeedStart`: a started or cancelled auction that waited must be known to
  have no leader, or no reservation would back it.
- `DueWasStarted`: the code only looks whether a listed auction is finished. That
  it never settles one that was not started follows from the list having been
  read from live auctions and statuses never going back.
- `LedgerKeysSpent`: every ledger row has the key of a step already taken. A
  step's own key is therefore new, the operation is applied and is never mistaken
  for a replay. Without it nothing says that the money moved.
- `LeaderMayOwn`: ownership is checked at the bid and again at the settlement. It
  cannot change in between because only one auction is open.

The proof of `RoomInvStep` has a lemma per kind of action (`CreateStep`,
`StartStep`, `PlaceBidStep`, `CancelStep`, `SettleSoldStep`, `AdvanceStep`,
`IdleStep`, `RestStep`), and under each a step per conjunct. `SettledOnTime`
also needs that the clock reading of a pass is never ahead of the clock.

`RoomRunsEnglishAuction` maps the initial state and every step. The abstract guards follow from `RoomInv`: a raise
beats the last bid because `PriceIsLastBid` says that the price column is the last bid; it can be paid because what
the leader of the one open auction has reserved is its bid (`ReservedBacksLeader`) and a wallet is conserved;
the winner pays the abstract price because the operation of the settlement is not a replay (`LedgerKeysSpent`). Joining,
ticking, passes, last calls, crashes and the start of squad building are stutters.

Three more theorems have an invariant of their own beside it, each with a lemma on what a step does to the tables it is about:

- `LedgerAlwaysExplains`: every step leaves the books, or executes one or two operations on them one after the other
  (`StepApplies`). An operation that is executed adds a row of its type (`ExecuteAccounted`, by `SumGrows`) and moves
  the columns by the same amount; a replay does neither.
- `SpendingAlwaysBuys`: a sale charges the last bid and adds the ownership row of that price (`SaleBuys`); a bid or a
  cancellation releases and reserves, which spends nothing. That the charge is not taken for a replay is `LedgerKeysSpent` again.
- `HistoryAlwaysExplains`: every step is one `Mutation` of one auction, with one event of the new version and the new status,
  and a bid exactly if the event is one (`StepMutates`), or it leaves all logs. `Replays` is kept by the three kinds of mutation
  (`ReplayBegins`, `ReplayGrows`, `ReplayBids`); the price part is `PriceIsLastBid`.

Model-checked only: `StartedAuctionFinishes` (liveness under fairness is out of the prover's reach).

The squad theorems hold under `SquadRulesAssumption` (slot numbers are natural, at least one
starter, formations are sequences of slots) and `SquadPhaseAssumption` (host and guest differ and
share no player, what is offered is of its type): for any number of pages, any side
and any set of drafts.

`SquadDraftProofs`: each edit keeps a valid draft valid (`AssignStarterValid`,
`SetPlayerRoleValid`, `RemovePlayerValid`, `ArmbandValid`), hence `DraftStaysValid`.
From the valid draft follow two facts about its steps: `SwapsNeverLose` (a placement
keeps every player, as the one it displaces takes the place left behind) and
`ArmbandStays` (only the choice of another captain, or of none, takes the armband from
a starter who is still one).
The proof for the swap splits on who leaves and who enters a slot; `RoleSlots` says that the
slots of different roles are disjoint, `SmallestOfNat` that the first free slot exists.

`SquadPhaseProofs`:

| Theorem | Property |
|---|---|
| `TypesAreCorrect` | `TypeOK` |
| `SquadsStaySound` | `SquadsAreSound`, the strengthening below |
| `LockedSquadsAreLegal` | `LockedSquadIsLegal` |
| `ReadyExactlyWhenLocked` | `ReadyWhenBothLocked` |
| `LockIsFinal` | `LockingIsFinal` |
| `VersionsNameSquads` | `VersionNamesSquad` |
| `LockedAsGiven` | `LocksWhatWasGiven` |
| `TransactionsCommitAsIfAlone` | `CommitsAsIfAlone` |
| `TransactionsRunSquadPhase` | `RunsSquadPhase`, the refinement of `SquadPhase` by `SquadLocks` |
| `ReadyUnderTransactions` | `ReadyWhenBothLocked`, of `SquadLocks` |

- `SquadsAreSound`: every stored squad has a valid draft of owned players, an offered
  formation of a good shape, and the positions that formation gives. `lockSquad`
  looks at none of this again, so legality of the locked squad needs it of every
  squad saved before.
- `ReadyWhenBothLocked` is inductive with the types. The code counts locked squads; `BothParticipants`
  turns a count of two into "both".
- `VersionNamesSquad` is inductive because each step that changes a squad raises its version.
  `LocksWhatWasGiven` needs besides that a page waiting for a lock still has in its
  hands the version its request names (`CallFromPage`).
- `DecisionsStand` is the strengthening for any number of transactions: one that may still commit decided what the rows
  of now would make it decide. After a commit those that may (`OthersAfterCommit`) are of the other participant, and do not lock
  if this one did; what is left is a save whose squad is not locked, so this lock was not the second.

`PagesProofs` holds for any number of callers, operations, participants, rows, assets, clients, names and sockets, under
`MatchBudgetAssumption`, `RequestsAssumption`, `WalletViewAssumption`, `CatalogsAssumption`, and

- `CatalogAssumption`: no code is twice in one catalog of the seed, and a name that older seeds used is none of its formations
  and becomes one of them. `seed.ts` writes the rows out: the codes are literals or a club's name with a running number, and its one
  renaming is from `4-3-3-attack` to `4-3-3` (lines 690 to 697). Pages have a positive size.
- `SocketGateAssumption`: the limit and the window are positive (8 and 2000 in `auction.constants.ts`).

| Theorem | Property |
|---|---|
| `LedgerAlwaysReplays` | `LedgerReplays` |
| `AnswersStayTrue` | `AnswersAreTrue` |
| `HistoryAlwaysExplainsWallet` | `HistoryExplainsWallet` |
| `PagesAnswerTheirQuery` | `PageAnswersQuery` |
| `SeedAlwaysConverges` | `SeedConverges` |
| `PagesAlwaysPartition` | `PagesPartition` |
| `NominationsAreOfTheirType` | `NominatesOfItsType` |
| `IdentifiersAlwaysFindTheirOwner` | `IdentifiersFindTheirOwner` |
| `BidsAlwaysLimited` | `BidsAreLimited` |

Each part has an invariant of its own, which the steps of the others leave alone (`StepsOfParts`).

- `BudgetsInv`: one transaction holds the row of a participant and found the funds there (`HoldersAreFunded`), so what
  it writes follows from the last entry; the ledger has a row per key (`RowsHaveKeys`), so a replay is of the row found.
- `ViewInv`: the page read the wallet when the ledger had some length, the rows when it was as long or longer, the number
  not before. If the number is no more than the rows shown, the rows are the whole ledger of that moment, and the wallet
  is what one of its entries left.
- `CatalogInv`: every request under way asks for the query of the page, because each new one aborts the others.
- `SeedInv`: rows have unique identifiers and codes, and the rows before the seed's next one are written; a row of an older
  seed is alone, and only before the first formation is written. An upsert keeps that and every row of another code (`UpsertKeeps`), a crash
  only sends the seed back to its first row. When it is done, the numbers of the data are in bijection with the rows (`SeededTable`).
- `PagesPartition` follows from `SeedInv`, in any state of the table: number and identifier order the rows totally (`RowsAreOrdered`), so
  ranks are different and below the number of rows; as many numbers as there are rows is a bijection, so every rank is one of them
  (`RanksNumberRows`), a page has as many rows as ranks (`RanksCountRows`), and the rest is arithmetic of `TotalPages` (`LastPage`, `PageBounds`).
- `FormInv`: nothing is selected before the catalogs are there, and what is sent is of what the form still has.
- `AccountsInv`: identifiers, emails and names are unique among the accounts, and who was told that it is registered is there.

- `GateInv`: of a socket that is there, the attempts the limiter keeps are the last of the bids it passed on, and those it
  dropped are older than the window (`Remembers`); a bid is a window later than the one as many before it as the limit (`Spaced`),
  so no window holds more than the limit wherever it begins; and what a refused bid was told is the end of the window
  of the first of the last bids (`WaitsForOldest`). The filter is a recursive function of the length: what it gives of times in
  their order (`FilterOfSorted`) is shown by naming such a function and, by a smallest counterexample, that there is no other.

`SessionProofs` holds under `SessionAssumption` (lifetimes are positive), for any number of
sessions and tabs:

| Theorem | Property |
|---|---|
| `TypesHold` | `TypeOK` |
| `OneTokenStaysCurrent` | `OneTokenIsCurrent` |
| `RefusalsHaveReasons` | `RefusalHasReason` |
| `RevocationIsFinal` | `RevokedIsFinal` |

The strengthening `IInv` adds `RowsMatchTokens` (a stored token is of its session, numbered by what was
issued, and expires with the row, so a new token is none that was rotated) and `RequestsAreFounded`
(what a request saw is a past state of the row: if the token it saw is no longer the stored one, it was
rotated; if the row it saw was revoked, the row is). Every step does one of four things to
the rows: leaves them, revokes one, creates one or renews one; the proof has a lemma for each and
a case per action.

`RoomFeedProofs` holds under `RoomFeedAssumption` (numbers are positive) and `NoAuctionAssumption`, for any
number of auctions, versions, requests and messages:

| Theorem | Property |
|---|---|
| `StaysTrue` | `TrueState`, the strengthening below |
| `TypesStay` | `TypeOK` |
| `PagesShowTruth` | `ShownIsTrue` |
| `OneBidOnly` | `OneBidAtATime` |

- `TrueState` types every variable over `Truth`, the snapshots that are or were so, instead of over all
  snapshots: the outbox, answers not sent, messages on the wire, results of requests and the page. A
  commit enlarges `Truth` (`AdvanceGrows`: a finished auction is not changed, so what was true of a
  result stays true), and every other step only moves what is in it.
- `BidsArePaired` says more than `OneBidAtATime`: unless a join failed, there is one reply on the wire at most,
  none while the bid is at the server, and a bid or a reply means submitting. Without "at most one" the
  delivery of a reply could leave another behind while the page is no longer submitting.

Model-checked only: `BidIsAnswered` (liveness).

`LobbyProofs` holds under `LobbyAssumption` and `NoRoomAssumption` (`None` is no user, code, request or room), for any sets of
users, codes and requests:

| Theorem | Property |
|---|---|
| `RoomsStayTyped` | `TypeOK` |
| `OneMatchEach` | `OneActiveMatch` |
| `RoomsStayKept` | `RoomsAreKept` |
| `CardIsTrue` | `ShownRoomIsSo` |

- `DecisionHolds` is what makes `OneActiveMatch` inductive: what an open transaction decided is still so, or it is
  doomed (it missed a write and is read) or its row was changed. `CreatedRoom`, `JoinedRoom` and `StartedRoom` say what a step
  does to everybody's rooms, `OthersDecisionHolds` what a commit does to another open transaction: if it is of the same user, each
  reads what the other writes, so the second to commit is refused.
- `PageIsSound` extends `ShownRoomIsSo` to what was polled, to what the effect is for and to the request the page waits
  for; that what is so stays so is `RoomsAreKept`.

Model-checked only: `OpponentIsSeen` (liveness).

## 5. What is not modelled, and the plan

Not modelled, because it changes no state and has nothing to interleave: `prisma/verify.ts` (one reading of the
database against fixed expectations), configuration and HTTP set-up, the lists of filter options and the
single rows of the catalogs, layout and wording. Left out of modelled parts:

- what happens inside a transaction of the auction engine: that its writes (a sale's purchase, ownership, row and event) are
  applied together or not at all is the database's promise, and `SaleIsConsistent` assumes it;
- the number of an auction event, which is its place in the sequence of events: that numbers have no gap cannot be said;
- a formation that an older seed left beside the one of its new name, over which the seed would throw;
- `auction:leave` and `match:leave` of the gateway, which the web client never sends;
- the wallet that the room page fetches with each history, in `RoomFeed`;
- league and clubs, which the seed writes once, before everything else, as it writes the rest;
- the filter of the wallet page by type, which hides rows;
- statuses of accounts, `lastSeenAt` and the roles of the API, which no operation here changes.

What could be added, most important first:

1. **Match**: `AuctionRoom` and `SquadPhase` composed, for what concerns both: participants
   whose money is spent on fewer than eleven players, or on eleven without a goalkeeper.
2. **Transactions**: what `Lobby` and `SquadLocks` do for theirs, for the others: what the Serializable level contributes
   to nominations, bids, settlements and `startSquadBuilding`.
3. **Scheduler** over more due auctions than a pass takes, which needs more than a hundred matches at once.
4. Theorems about `EnglishAuction` itself (that nobody pays more than the budget follows from its guards alone), and the draft,
   the squads and the room joined as one refinement, once **Match** is written.

## 6. Findings

`room_lobby` checks `RoomWaitsForOpponent`, the lobby's words to the host of a
room that is not full: "Share the room code and wait for your opponent to join."
(`apps/web/src/components/dashboard/match-lobby-card.tsx:357`). The run
violates it in four steps: the host nominates an asset and starts the auction alone,
`startAuction` sets the match to `AUCTION` (`auctions.service.ts:898`), and `joinMatch`
accepts guests only while the match is `WAITING`. The room can then never fill.

`squad_unsaved` checks `UnsavedChangesAreFlagged`, the page's line "You have unsaved
squad changes." (`apps/web/src/components/squads/squad-builder-view.tsx:907`). A save is
sent; while it is under way the user chooses another formation, which nothing disables;
the answer clears the dirty flag and replaces the assignments and the name, but
not the formation or the manager (lines 389 to 410). The page then shows a formation that is not
stored, without the line, with "Save draft" disabled and "Lock squad" enabled. The squad
locked is the stored one (`LocksWhatWasGiven` holds of the squad the page was given, not of what it
displays). An assignment edited in the same interval is silently replaced by the
saved one.

`session_tabs` checks `ExpiredAccessIsRefreshed`, which `getCurrentUser`'s test calls "refreshes an
expired access session" (`apps/web/src/lib/api-client.spec.ts:68`): a tab with an unexpired refresh
token is refused only after a logout. Two tabs are answered 401 and both send the cookie they share.
The first rotates it. The second is refused: if it read the row before the rotation its
update finds another hash (`auth.service.ts:214`), if after, the token counts as replayed and the session is
revoked (line 168), which ends the first tab's renewed session too. A refresh whose answer was lost and that is
tried again takes the second way. Refusing a replayed token is meant (`RefusalHasReason` holds, and
`apps/api/test/app.e2e-spec.ts:125` asks for it); that the web client produces replays by itself is not.

`nominate` checks `SelectedAssetIsPriced`, the form's line "The selected asset's market value is used initially."
(`apps/web/src/components/auctions/auction-nomination-form.tsx:392`). The fields of the form are disabled while the catalogs load,
the three buttons above them are not (lines 300 to 337). A host who chooses "Managers" before the answers come is shown the
managers, but `loadAssets` ends with the first player selected and its price (lines 122 to 127): the list, whose value is none
of its options, displays its first manager, and a nomination sends the player's identifier as a manager's. The API answers
that there is no such manager. `NominatesOfItsType` shows that this first player is the only exception.

`feed_result` checks `ResultStaysShown`, which the page promises as "immutable auction results"
(`apps/web/src/components/auctions/auction-room-view.tsx:945`). The page takes whatever snapshot
comes last. `runOnce` (`auctions.scheduler.ts:53`) commits the auctions of a pass one by one and
broadcasts after the whole pass, so a cancellation by the host between can be broadcast before the older
snapshot: CANCELLED goes back to LAST_CALL, with an open bid control, until a reload. In the run, which has no passes, the older snapshot
is any that is committed and not broadcast: an auction is nominated and then finished, the page loads it finished, its socket
joins, and the broadcast of the nomination comes last.

Four more things the model of the page can do, which no run states because the code makes no attempt
to prevent them (lines of `auction-room-view.tsx`):

- A connection that drops while a bid is under way leaves `bidSubmitting` set: only the acknowledgement or
  an error clears it, Socket.IO calls back neither, and the bid button of the reconnected page stays disabled (773).
- `joinMatch` reads before it enters the room (`auctions.gateway.ts:161`): a nomination broadcast between reaches
  the page neither way, and a page that had none goes on saying that there are no auctions (980).
- A history is stored when it arrives, for whatever auction it was asked, and can stand under another (864).
- The acknowledgement of `match:join` holds the newest 20 auctions and replaces a list of up to 100 (655).

And five about the other parts:

- The limiter forgets a socket when it disconnects. A bid whose identity is still being looked up then is counted afterwards, for
  a socket that is gone: the entry stays for ever (`socket-rate-limiter.service.ts:46`), and `BidsAreLimited` is stated for sockets
  that are connected. The limit is per socket, so a reconnection starts anew.
- A socket keeps its identity: it goes on bidding after its session was revoked (`socket-auth.service.ts:15`).
- No operation ends a match: COMPLETED, CANCELLED and LEFT are never set, so the first match of a user stays its only one
  (`matches.service.ts:119`, `OneActiveMatch`).
- The player page keeps an error of its form when results arrive meanwhile, so it shows "Minimum overall cannot be greater than
  maximum overall." in place of results that are there; the other two pages clear it (`player-catalog.tsx:109`).
- Rows and their number are two queries: a catalog or a history read during a change can have a number that does not fit
  its rows. The wallet page then says, at worst, that it shows the latest entries only.
