-------------------------------- MODULE Lobby --------------------------------
(***************************************************************************)
(* The rooms of all matches, the requests to create and to join one, and   *)
(* the lobby card on one user's dashboard.                                 *)
(*                                                                         *)
(* createMatch and joinMatch are Serializable transactions without retry.  *)
(* Here such a transaction takes two steps: it reads a snapshot and        *)
(* decides, and it commits.  In between others commit.  PostgreSQL lets it *)
(* commit unless a row it updates was changed, or it both missed a write   *)
(* of a committed transaction and writes what a concurrent one has read.   *)
(*                                                                         *)
(* Nothing ends a match or makes a participant leave it, so a match is     *)
(* active for ever.  waiting tells WAITING from every later status.        *)
(***************************************************************************)
CONSTANTS
    Users,
    Codes,      \* room codes
    Requests,   \* requests that may be under way
    Viewer,     \* whose dashboard is looked at
    None

ASSUME LobbyAssumption ==
    /\ Viewer \in Users
    /\ None \notin Users
    /\ None \notin Codes
    /\ None \notin Requests

\* Nobody plays against itself, and a full room is no longer WAITING.
Room ==
    {m \in [host : Users, guest : Users \cup {None}, waiting : BOOLEAN] :
        m.host # m.guest /\ (m.waiting => m.guest = None)}

ASSUME NoRoomAssumption == None \notin Room

VARIABLES
    match,      \* Match rows by room code, with their participants
    request,    \* requests to create or to join
    page        \* the lobby card of the viewer

vars == <<match, request, page>>

\* missed: it did not see what a committed transaction wrote.  read: it writes
\* what a committed one read.  changed: the row it updates was changed.
Request ==
    [stage : {"idle", "asked", "coded", "open", "answered"},
     kind : {"create", "join"}, user : Users \cup {None}, code : Codes \cup {None},
     full : BOOLEAN, missed : BOOLEAN, read : BOOLEAN, changed : BOOLEAN]
Idle ==
    [stage |-> "idle", kind |-> "create", user |-> None, code |-> None,
     full |-> FALSE, missed |-> FALSE, read |-> FALSE, changed |-> FALSE]

\* What the page knows of its room, and what its effect was run for.
Seen == [code : Codes \cup {None}, full : BOOLEAN]
Page ==
    [loaded : BOOLEAN, shown : Seen, effect : Seen, polls : SUBSET Seen,
     request : Requests \cup {None}]
Nothing == [code |-> None, full |-> FALSE]
NewPage ==
    [loaded |-> FALSE, shown |-> Nothing, effect |-> Nothing, polls |-> {},
     request |-> None]

Rooms == {c \in Codes : match[c] # None}
Members(c) == {match[c].host, match[c].guest} \ {None}
RoomsOf(u) == {c \in Rooms : u \in Members(c)}
IsFull(c) == match[c].guest # None

-----------------------------------------------------------------------------
(* Transactions.                                                           *)

Open == {r \in Requests : request[r].stage = "open"}

\* Each reads where its user takes part, and a join reads its room; each
\* writes a participant of its user in its room.
Reads(a, b) ==
    \/ a.user = b.user
    \/ a.kind = "join" /\ a.code = b.code

\* Mutant: the isolation level is left at its default.
AnySerial(r) == TRUE

Serializable(r) ==
    ~ /\ request[r].missed
      /\ \/ request[r].read
         \/ \E q \in Open \ {r} : Reads(request[q], request[r])

Answer(r, code, full) ==
    [request[r] EXCEPT !.stage = "answered", !.code = code, !.full = full]

\* Open transactions when q commits as well.
AfterCommit(a, b) ==
    IF a.stage # "open" THEN a
    ELSE [a EXCEPT !.missed = @ \/ Reads(a, b),
                   !.read = @ \/ Reads(b, a),
                   !.changed = @ \/ (a.kind = "join" /\ b.kind = "join" /\ a.code = b.code)]

Committed(r, full) ==
    request' = [q \in Requests |->
        IF q = r THEN Answer(r, request[r].code, full)
        ELSE AfterCommit(request[q], request[r])]

-----------------------------------------------------------------------------
(* createMatch and joinMatch.                                              *)

\* generateUniqueRoomCode, outside of the transaction.
PickCode(r) ==
    /\ request[r].stage = "asked" /\ request[r].kind = "create"
    /\ \E c \in Codes \ Rooms :
           request' = [request EXCEPT ![r].stage = "coded", ![r].code = c]
    /\ UNCHANGED <<match, page>>

BeginCreate(r) ==
    /\ request[r].stage = "coded"
    /\ RoomsOf(request[r].user) = {}
    /\ request' = [request EXCEPT ![r].stage = "open"]
    /\ UNCHANGED <<match, page>>

Joinable(u, c) ==
    /\ c \in Rooms
    /\ u \notin Members(c)
    /\ match[c].waiting
    /\ ~IsFull(c)
    /\ RoomsOf(u) \ {c} = {}

BeginJoin(r) ==
    /\ request[r].stage = "asked" /\ request[r].kind = "join"
    /\ Joinable(request[r].user, request[r].code)
    /\ request' = [request EXCEPT ![r].stage = "open"]
    /\ UNCHANGED <<match, page>>

\* A participant joins again and is told how its room is.
JoinAgain(r) ==
    LET c == request[r].code
    IN  /\ request[r].stage = "asked" /\ request[r].kind = "join"
        /\ c \in RoomsOf(request[r].user)
        /\ request' = [request EXCEPT ![r] = Answer(r, c, IsFull(c))]
        /\ UNCHANGED <<match, page>>

\* Mutant: a room code is not unique in the table.
CommitCreateAnyCode(r) ==
    /\ r \in Open /\ request[r].kind = "create"
    /\ Serializable(r)
    /\ match' = [match EXCEPT ![request[r].code] =
                     [host |-> request[r].user, guest |-> None, waiting |-> TRUE]]
    /\ Committed(r, FALSE)
    /\ UNCHANGED page

\* The unique index refuses a code that was taken meanwhile.
CommitCreate(r) ==
    /\ r \in Open /\ request[r].kind = "create"
    /\ Serializable(r)
    /\ request[r].code \notin Rooms
    /\ match' = [match EXCEPT ![request[r].code] =
                     [host |-> request[r].user, guest |-> None, waiting |-> TRUE]]
    /\ Committed(r, FALSE)
    /\ UNCHANGED page

CommitJoin(r) ==
    /\ r \in Open /\ request[r].kind = "join"
    /\ Serializable(r)
    /\ ~request[r].changed
    /\ match' = [match EXCEPT ![request[r].code].guest = request[r].user,
                              ![request[r].code].waiting = FALSE]
    /\ Committed(r, TRUE)
    /\ UNCHANGED page

\* It is refused, its transaction is aborted, or its answer is lost.
Fail(r) ==
    /\ request[r].stage # "idle"
    /\ request' = [request EXCEPT ![r] = [Idle EXCEPT !.stage = "answered"]]
    /\ UNCHANGED <<match, page>>

\* startAuction of the auctions service: a host needs no guest for it.
StartAuction(c) ==
    /\ c \in Rooms
    /\ match[c].waiting
    /\ match' = [match EXCEPT ![c].waiting = FALSE]
    /\ request' = [q \in Requests |->
           IF q \in Open /\ request[q].kind = "join" /\ request[q].code = c
             THEN [request[q] EXCEPT !.changed = TRUE] ELSE request[q]]
    /\ UNCHANGED page

-----------------------------------------------------------------------------
(* The lobby card, and other clients.                                      *)

Ask(r, u) ==
    /\ request[r] = Idle
    /\ \/ request' = [request EXCEPT ![r].stage = "asked", ![r].user = u]
       \/ \E c \in Codes :
              request' = [request EXCEPT ![r].stage = "asked", ![r].user = u,
                                         ![r].kind = "join", ![r].code = c]

OtherAsk(r) ==
    /\ \E u \in Users : Ask(r, u)
    /\ UNCHANGED <<match, page>>

\* createRoom and joinRoom, offered while the page has no room.
AskFromPage(r) ==
    /\ page.loaded /\ page.shown = Nothing /\ page.request = None
    /\ Ask(r, Viewer)
    /\ page' = [page EXCEPT !.request = r]
    /\ UNCHANGED match

Receive(r) ==
    /\ request[r].stage = "answered"
    /\ request' = [request EXCEPT ![r] = Idle]
    /\ page' = IF page.request # r THEN page
               ELSE [page EXCEPT !.request = None,
                         !.shown = IF request[r].code = None THEN @
                                   ELSE [code |-> request[r].code, full |-> request[r].full]]
    /\ UNCHANGED match

\* getCurrentMatch.
LoadCurrentMatch ==
    /\ ~page.loaded
    /\ \/ RoomsOf(Viewer) = {} /\ page' = [page EXCEPT !.loaded = TRUE]
       \/ \E c \in RoomsOf(Viewer) :
              page' = [page EXCEPT !.loaded = TRUE,
                                   !.shown = [code |-> c, full |-> IsFull(c)]]
    /\ UNCHANGED <<match, request>>

\* Its dependencies are matchId and matchIsFull.  What was polled before is
\* ignored from now on.
RunEffect ==
    /\ page.loaded /\ page.effect # page.shown
    /\ page' = [page EXCEPT !.effect = page.shown, !.polls = {}]
    /\ UNCHANGED <<match, request>>

\* Mutant: the lobby card asks once.
PollOnce ==
    /\ page.effect.code # None /\ ~page.effect.full
    /\ page.effect = page.shown /\ ~IsFull(page.effect.code)
    /\ page' = [page EXCEPT !.polls =
                    @ \cup {[page.effect EXCEPT !.full = IsFull(page.effect.code)]}]
    /\ UNCHANGED <<match, request>>

\* refreshLobby, every three seconds.
Poll ==
    /\ page.effect.code # None /\ ~page.effect.full
    /\ page' = [page EXCEPT !.polls =
                    @ \cup {[page.effect EXCEPT !.full = IsFull(page.effect.code)]}]
    /\ UNCHANGED <<match, request>>

ReceivePoll(a) ==
    /\ a \in page.polls
    /\ page' = [page EXCEPT !.shown = a, !.polls = @ \ {a}]
    /\ UNCHANGED <<match, request>>

LosePoll(a) ==
    /\ a \in page.polls
    /\ page' = [page EXCEPT !.polls = @ \ {a}]
    /\ UNCHANGED <<match, request>>

\* What was under way goes on as another client's.
Reload ==
    /\ page.loaded
    /\ page' = NewPage
    /\ UNCHANGED <<match, request>>

-----------------------------------------------------------------------------
Init ==
    /\ match = [c \in Codes |-> None]
    /\ request = [r \in Requests |-> Idle]
    /\ page = NewPage

Transaction(r) ==
    \/ PickCode(r) \/ BeginCreate(r) \/ BeginJoin(r) \/ JoinAgain(r)
    \/ CommitCreate(r) \/ CommitJoin(r) \/ Fail(r)

Next ==
    \/ \E r \in Requests : Transaction(r) \/ OtherAsk(r) \/ AskFromPage(r) \/ Receive(r)
    \/ \E c \in Codes : StartAuction(c)
    \/ LoadCurrentMatch \/ RunEffect \/ Poll \/ Reload
    \/ \E a \in page.polls : ReceivePoll(a) \/ LosePoll(a)

Spec == Init /\ [][Next]_vars

\* Effects run, the timer fires, and not every answer is lost.
FairSpec ==
    /\ Spec
    /\ WF_vars(RunEffect)
    /\ WF_vars(Poll)
    /\ SF_vars(\E a \in page.polls : ReceivePoll(a))

-----------------------------------------------------------------------------
\* Every room holds a host, at most one other user as a guest, and closes with
\* the guest: what createMatch and joinMatch write, in whichever order.
TypeOK ==
    /\ match \in [Codes -> Room \cup {None}]
    /\ request \in [Requests -> Request]
    /\ page \in Page

\* "Leave or finish your current match before creating another one.": however
\* requests of one user race, it takes part in one match.
OneActiveMatch == \A u \in Users : \A c, d \in RoomsOf(u) : c = d

\* Nobody is thrown out of a room: a second room with its code, or a second
\* guest, comes too late.
RoomsAreKept ==
    [][\A c \in Rooms : Members(c) \subseteq Members(c)']_vars

\* What the card says of its room is so: the viewer is in it, and an opponent
\* it announces is there.
IsSo(seen) ==
    seen.code # None =>
        /\ seen.code \in RoomsOf(Viewer)
        /\ seen.full => IsFull(seen.code)
ShownRoomIsSo == IsSo(page.shown)

\* "Checking for your opponent": a page that stays open finds out that its
\* room is full.
Opponent(c) == page.shown.code = c /\ c \in Rooms /\ IsFull(c)
OpponentIsSeen ==
    \A c \in Codes : Opponent(c) ~> page.shown.full \/ ~page.loaded

=============================================================================
