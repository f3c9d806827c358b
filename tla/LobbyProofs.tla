----------------------------- MODULE LobbyProofs -----------------------------
(***************************************************************************)
(* Theorems about Lobby, for any sets of users, room codes and requests.   *)
(***************************************************************************)
EXTENDS Lobby, TLAPS

-----------------------------------------------------------------------------
(* The inductive invariant.                                                *)

\* The serialization check is going to refuse it.
Doomed(r) == request[r].missed /\ request[r].read

\* A transaction under way still may do what it decided, or will not commit.
DecisionHolds(r) ==
    /\ request[r].kind = "create" =>
           Doomed(r) \/ RoomsOf(request[r].user) = {}
    /\ request[r].kind = "join" =>
           \/ Doomed(r) \/ request[r].changed
           \/ Joinable(request[r].user, request[r].code)

\* A request names its user and, once chosen, its room; an answer with a room
\* is as true as the page that will show it.
RequestIsSound(r) ==
    /\ request[r].stage \in {"asked", "coded", "open"} => request[r].user \in Users
    /\ request[r].stage = "asked" /\ request[r].kind = "join" => request[r].code \in Codes
    /\ request[r].stage = "coded" => request[r].kind = "create"
    /\ request[r].stage \in {"coded", "open"} => request[r].code \in Codes
    /\ request[r].stage = "open" => DecisionHolds(r)
    /\ request[r].stage = "answered" /\ request[r].code # None =>
           /\ request[r].code \in RoomsOf(request[r].user)
           /\ request[r].full => IsFull(request[r].code)

\* The page waits for nobody else's request.
Waits(wanted, requests) ==
    wanted # None =>
        /\ requests[wanted].stage # "idle"
        /\ \/ requests[wanted].user = Viewer
           \/ requests[wanted].stage = "answered" /\ requests[wanted].code = None

PageIsSound ==
    /\ IsSo(page.shown)
    /\ IsSo(page.effect)
    /\ \A a \in page.polls : IsSo(a)
    /\ Waits(page.request, request)

IInv ==
    /\ TypeOK
    /\ OneActiveMatch
    /\ \A r \in Requests : RequestIsSound(r)
    /\ PageIsSound

-----------------------------------------------------------------------------
(* Types.                                                                  *)

LEMMA RoomType ==
    ASSUME TypeOK, NEW c \in Rooms
    PROVE  /\ match[c] \in Room /\ c \in Codes
           /\ match[c].host \in Users
           /\ match[c].guest \in Users \cup {None}
           /\ match[c].host # match[c].guest
           /\ match[c].waiting \in BOOLEAN
           /\ match[c].waiting => ~IsFull(c)
  BY DEF TypeOK, Rooms, Room, IsFull

LEMMA InitInv == Init => IInv
<1>1. Idle \in Request /\ NewPage \in Page
  BY DEF Idle, Request, NewPage, Nothing, Page, Seen
<1>2. ASSUME Init  PROVE TypeOK /\ Rooms = {}
  BY <1>1, <1>2 DEF Init, TypeOK, Rooms
<1>3. ASSUME Init  PROVE OneActiveMatch
  BY <1>2, <1>3 DEF OneActiveMatch, RoomsOf
<1>4. ASSUME Init, NEW r \in Requests  PROVE RequestIsSound(r)
  BY <1>4 DEF Init, RequestIsSound, Idle
<1>5. ASSUME Init  PROVE PageIsSound
  BY <1>5 DEF Init, PageIsSound, Waits, IsSo, NewPage, Nothing
<1> QED  BY <1>2, <1>3, <1>4, <1>5 DEF IInv

\* What an action makes of one request.
LEMMA AnswerType ==
    ASSUME TypeOK, NEW r \in Requests, NEW c \in Codes, NEW full \in BOOLEAN
    PROVE  Answer(r, c, full) \in Request
<1>1. request[r] \in Request
  BY DEF TypeOK
<1> QED  BY <1>1 DEF Answer, Request

LEMMA AfterCommitType ==
    ASSUME NEW a \in Request, NEW b \in Request
    PROVE  /\ AfterCommit(a, b) \in Request
           /\ AfterCommit(a, b).stage = a.stage
           /\ AfterCommit(a, b).kind = a.kind
           /\ AfterCommit(a, b).user = a.user
           /\ AfterCommit(a, b).code = a.code
           /\ AfterCommit(a, b).full = a.full
<1>1. Reads(a, b) \in BOOLEAN /\ Reads(b, a) \in BOOLEAN
  BY DEF Reads
<1>2. (a.missed \/ Reads(a, b)) \in BOOLEAN /\ (a.read \/ Reads(b, a)) \in BOOLEAN
      /\ (a.changed \/ (a.kind = "join" /\ b.kind = "join" /\ a.code = b.code)) \in BOOLEAN
  BY <1>1 DEF Request
<1>3. CASE a.stage # "open"
  BY <1>3 DEF AfterCommit
<1>4. CASE a.stage = "open"
  <2> DEFINE m == a.missed \/ Reads(a, b)
             d == a.read \/ Reads(b, a)
             h == a.changed \/ (a.kind = "join" /\ b.kind = "join" /\ a.code = b.code)
  <2>1. AfterCommit(a, b) = [a EXCEPT !.missed = m, !.read = d, !.changed = h]
    BY <1>4, Zenon DEF AfterCommit
  <2>2. m \in BOOLEAN /\ d \in BOOLEAN /\ h \in BOOLEAN
    BY <1>2
  <2> HIDE DEF m, d, h
  <2> QED  BY <2>1, <2>2 DEF Request
<1> QED  BY <1>3, <1>4

LEMMA CommittedType ==
    ASSUME TypeOK, NEW r \in Requests, request[r].code \in Codes, NEW full \in BOOLEAN,
           Committed(r, full)
    PROVE  request' \in [Requests -> Request]
<1>1. \A q \in Requests : request[q] \in Request
  BY DEF TypeOK
<1>2. Answer(r, request[r].code, full) \in Request
  BY AnswerType
<1>3. \A q \in Requests : AfterCommit(request[q], request[r]) \in Request
  BY <1>1, AfterCommitType
<1> QED  BY <1>2, <1>3 DEF Committed

\* A new room, and a guest in one that waits.
LEMMA NewRoomType ==
    ASSUME NEW u \in Users
    PROVE  [host |-> u, guest |-> None, waiting |-> TRUE] \in Room
  BY LobbyAssumption DEF Room

LEMMA JoinedRoomType ==
    ASSUME TypeOK, NEW c \in Rooms, NEW u \in Users, Joinable(u, c)
    PROVE  [match[c] EXCEPT !.guest = u, !.waiting = FALSE] \in Room
<1>1. match[c].host # u
  BY RoomType, LobbyAssumption DEF Joinable, Members
<1> QED  BY <1>1, RoomType DEF Room

-----------------------------------------------------------------------------
(* What a transaction that commits decided still holds.                    *)

LEMMA CommitterCreates ==
    ASSUME NEW r \in Requests, RequestIsSound(r), CommitCreate(r)
    PROVE  /\ request[r].user \in Users /\ request[r].code \in Codes \ Rooms
           /\ RoomsOf(request[r].user) = {}
<1>1. request[r].stage = "open" /\ request[r].kind = "create" /\ ~Doomed(r)
  BY DEF CommitCreate, Open, Serializable, Doomed
<1> QED  BY <1>1 DEF RequestIsSound, DecisionHolds, CommitCreate

LEMMA CommitterJoins ==
    ASSUME NEW r \in Requests, RequestIsSound(r), CommitJoin(r)
    PROVE  /\ request[r].user \in Users /\ request[r].code \in Codes
           /\ Joinable(request[r].user, request[r].code)
<1>1. request[r].stage = "open" /\ request[r].kind = "join" /\ ~Doomed(r)
      /\ ~request[r].changed
  BY DEF CommitJoin, Open, Serializable, Doomed
<1> QED  BY <1>1 DEF RequestIsSound, DecisionHolds

\* Every step keeps the types.
LEMMA TypeStep == IInv /\ [Next]_vars => TypeOK'
<1> SUFFICES ASSUME IInv, [Next]_vars  PROVE TypeOK'
  OBVIOUS
<1>1. TypeOK /\ PageIsSound /\ \A r \in Requests : RequestIsSound(r)
  BY DEF IInv
<1>2. \A r \in Requests : request[r] \in Request
  BY <1>1 DEF TypeOK
<1>3. page \in Page /\ page.shown \in Seen /\ page.effect \in Seen
  BY <1>1 DEF TypeOK, Page
<1>4. ASSUME NEW r \in Requests, PickCode(r)  PROVE TypeOK'
  <2>1. PICK c \in Codes : request' = [request EXCEPT ![r].stage = "coded", ![r].code = c]
    BY <1>4 DEF PickCode
  <2>2. [request[r] EXCEPT !.stage = "coded", !.code = c] \in Request
    BY <1>2 DEF Request
  <2> QED  BY <1>1, <1>4, <2>1, <2>2 DEF PickCode, TypeOK
<1>5. ASSUME NEW r \in Requests, BeginCreate(r) \/ BeginJoin(r)  PROVE TypeOK'
  <2>1. [request[r] EXCEPT !.stage = "open"] \in Request
    BY <1>2 DEF Request
  <2> QED  BY <1>1, <1>5, <2>1 DEF BeginCreate, BeginJoin, TypeOK
<1>6. ASSUME NEW r \in Requests, JoinAgain(r)  PROVE TypeOK'
  <2>1. request[r].code \in Codes /\ IsFull(request[r].code) \in BOOLEAN
    BY <1>6 DEF JoinAgain, RoomsOf, Rooms, IsFull
  <2>2. Answer(r, request[r].code, IsFull(request[r].code)) \in Request
    BY <1>1, <2>1, AnswerType
  <2> QED  BY <1>1, <1>6, <2>2 DEF JoinAgain, TypeOK
<1>7. ASSUME NEW r \in Requests, CommitCreate(r)  PROVE TypeOK'
  <2>1. request[r].code \in Codes /\ request[r].user \in Users
    BY <1>1, <1>7 DEF CommitCreate, Open, RequestIsSound
  <2>2. request' \in [Requests -> Request]
    BY <1>1, <1>7, <2>1, CommittedType DEF CommitCreate
  <2>3. match' \in [Codes -> Room \cup {None}]
    BY <1>1, <1>7, <2>1, NewRoomType DEF CommitCreate, TypeOK
  <2> QED  BY <1>1, <1>7, <2>2, <2>3 DEF CommitCreate, TypeOK
<1>8. ASSUME NEW r \in Requests, CommitJoin(r)  PROVE TypeOK'
  <2> DEFINE u == request[r].user
             c == request[r].code
  <2>1. c \in Codes /\ u \in Users /\ Joinable(u, c)
    BY <1>1, <1>8, CommitterJoins
  <2>2. request' \in [Requests -> Request]
    BY <1>1, <1>8, <2>1, CommittedType DEF CommitJoin
  <2>3. c \in Rooms
    BY <2>1 DEF Joinable
  <2>4. [match[c] EXCEPT !.guest = u, !.waiting = FALSE] \in Room
    BY <1>1, <2>1, <2>3, JoinedRoomType
  <2>5. match' = [match EXCEPT ![c] = [match[c] EXCEPT !.guest = u, !.waiting = FALSE]]
    BY <1>1, <1>8, <2>1 DEF CommitJoin, TypeOK
  <2>6. match' \in [Codes -> Room \cup {None}]
    BY <1>1, <2>4, <2>5 DEF TypeOK
  <2> QED  BY <1>1, <1>8, <2>2, <2>6 DEF CommitJoin, TypeOK
<1>9. ASSUME NEW r \in Requests, Fail(r)  PROVE TypeOK'
  <2>1. [Idle EXCEPT !.stage = "answered"] \in Request
    BY DEF Idle, Request
  <2> QED  BY <1>1, <1>9, <2>1 DEF Fail, TypeOK
<1>10. ASSUME NEW r \in Requests, NEW u \in Users, Ask(r, u)
       PROVE  request' \in [Requests -> Request]
  <2>1. [request[r] EXCEPT !.stage = "asked", !.user = u] \in Request
    BY <1>2 DEF Request
  <2>2. \A c \in Codes :
            [request[r] EXCEPT !.stage = "asked", !.user = u, !.kind = "join", !.code = c]
                \in Request
    BY <1>2 DEF Request
  <2> QED  BY <1>1, <1>10, <2>1, <2>2 DEF Ask, TypeOK
<1>11. ASSUME NEW r \in Requests, OtherAsk(r)  PROVE TypeOK'
  BY <1>1, <1>10, <1>11 DEF OtherAsk, TypeOK
<1>12. ASSUME NEW r \in Requests, AskFromPage(r)  PROVE TypeOK'
  <2>1. request' \in [Requests -> Request]
    BY <1>10, <1>12, LobbyAssumption DEF AskFromPage
  <2>2. page' \in Page
    BY <1>3, <1>12 DEF AskFromPage, Page
  <2> QED  BY <1>1, <1>12, <2>1, <2>2 DEF AskFromPage, TypeOK
<1>13. ASSUME NEW r \in Requests, Receive(r)  PROVE TypeOK'
  <2>1. Idle \in Request
    BY DEF Idle, Request
  <2>2. [code |-> request[r].code, full |-> request[r].full] \in Seen
    BY <1>2 DEF Request, Seen
  <2>3. page' \in Page
    BY <1>3, <1>13, <2>2 DEF Receive, Page
  <2> QED  BY <1>1, <1>13, <2>1, <2>3 DEF Receive, TypeOK
<1>14. ASSUME NEW c \in Codes, StartAuction(c)  PROVE TypeOK'
  <2>1. [match[c] EXCEPT !.waiting = FALSE] \in Room
    BY <1>1, <1>14, RoomType DEF StartAuction, Room
  <2>2. \A q \in Requests : [request[q] EXCEPT !.changed = TRUE] \in Request
    BY <1>2 DEF Request
  <2> QED  BY <1>1, <1>2, <1>14, <2>1, <2>2 DEF StartAuction, TypeOK
<1>15. ASSUME LoadCurrentMatch  PROVE TypeOK'
  <2>1. \A c \in RoomsOf(Viewer) : [code |-> c, full |-> IsFull(c)] \in Seen
    BY DEF RoomsOf, Rooms, Seen, IsFull
  <2>2. page' \in Page
    BY <1>3, <1>15, <2>1 DEF LoadCurrentMatch, Page
  <2> QED  BY <1>1, <1>15, <2>2 DEF LoadCurrentMatch, TypeOK
<1>16. ASSUME RunEffect \/ Reload  PROVE TypeOK'
  <2>1. NewPage \in Page
    BY DEF NewPage, Nothing, Page, Seen
  <2>2. [page EXCEPT !.effect = page.shown, !.polls = {}] \in Page
    BY <1>3 DEF Page
  <2> QED  BY <1>1, <1>16, <2>1, <2>2 DEF RunEffect, Reload, TypeOK
<1>17. ASSUME Poll  PROVE TypeOK'
  <2>1. [page.effect EXCEPT !.full = IsFull(page.effect.code)] \in Seen
    BY <1>3 DEF Seen, IsFull
  <2>2. page' \in Page
    BY <1>3, <1>17, <2>1 DEF Poll, Page
  <2> QED  BY <1>1, <1>17, <2>2 DEF Poll, TypeOK
<1>18. ASSUME NEW a \in page.polls, ReceivePoll(a) \/ LosePoll(a)  PROVE TypeOK'
  <2>1. page' \in Page
    BY <1>3, <1>18 DEF ReceivePoll, LosePoll, Page
  <2> QED  BY <1>1, <1>18, <2>1 DEF ReceivePoll, LosePoll, TypeOK
<1>19. CASE UNCHANGED vars
  BY <1>1, <1>19 DEF vars, TypeOK
<1> QED  BY <1>4, <1>5, <1>6, <1>7, <1>8, <1>9, <1>11, <1>12, <1>13, <1>14, <1>15, <1>16,
            <1>17, <1>18, <1>19 DEF Next, Transaction

-----------------------------------------------------------------------------
(* Rooms.                                                                  *)

\* Only three kinds of steps touch a match.
LEMMA MatchSteps ==
    ASSUME [Next]_vars
    PROVE  \/ match' = match
           \/ \E r \in Requests : CommitCreate(r) \/ CommitJoin(r)
           \/ \E c \in Codes : StartAuction(c)
  BY DEF Next, Transaction, vars, PickCode, BeginCreate, BeginJoin, JoinAgain, Fail,
         OtherAsk, AskFromPage, Receive, LoadCurrentMatch, RunEffect, Poll, ReceivePoll,
         LosePoll, Reload

\* A commit adds its room to those of its user and leaves everybody else's.
LEMMA CreatedRoom ==
    ASSUME IInv, NEW r \in Requests, CommitCreate(r),
           NEW u, u = request[r].user, NEW c, c = request[r].code
    PROVE  /\ u \in Users /\ c \in Codes \ Rooms
           /\ Rooms' = Rooms \cup {c} /\ Members(c)' = {u}
           /\ \A d \in Rooms : match'[d] = match[d]
           /\ RoomsOf(u)' = {c}
           /\ \A v \in Users \ {u} : RoomsOf(v)' = RoomsOf(v)
<1> DEFINE room == [host |-> u, guest |-> None, waiting |-> TRUE]
<1>1. TypeOK /\ u \in Users /\ c \in Codes \ Rooms /\ RoomsOf(u) = {}
  BY CommitterCreates DEF IInv
<1>2. room # None /\ room.host = u /\ room.guest = None
  BY <1>1, NewRoomType, NoRoomAssumption
<1>3. match' = [match EXCEPT ![c] = room]
  BY DEF CommitCreate
<1> HIDE DEF room
<1>4. match'[c] = room /\ \A d \in Codes \ {c} : match'[d] = match[d]
  BY <1>1, <1>3 DEF TypeOK
<1>5. Rooms' = Rooms \cup {c} /\ c \notin Rooms
  BY <1>1, <1>2, <1>4 DEF Rooms
<1>6. \A d \in Rooms : d # c /\ match'[d] = match[d]
  BY <1>1, <1>4 DEF Rooms
<1>7. Members(c)' = {u}
  BY <1>1, <1>2, <1>4, LobbyAssumption DEF Members
<1>8. \A v \in Users, d \in Rooms : v \in Members(d)' <=> v \in Members(d)
  BY <1>6 DEF Members
<1>9. RoomsOf(u)' = {c} /\ \A v \in Users \ {u} : RoomsOf(v)' = RoomsOf(v)
  BY <1>1, <1>5, <1>7, <1>8 DEF RoomsOf
<1> QED  BY <1>5, <1>6, <1>1, <1>7, <1>9, <1>6

LEMMA JoinedRoom ==
    ASSUME IInv, NEW r \in Requests, CommitJoin(r),
           NEW u, u = request[r].user, NEW c, c = request[r].code
    PROVE  /\ u \in Users
           /\ Rooms' = Rooms /\ c \in Rooms
           /\ Members(c)' = Members(c) \cup {u} /\ IsFull(c)'
           /\ \A d \in Codes \ {c} : match'[d] = match[d]
           /\ RoomsOf(u)' = {c}
           /\ \A v \in Users \ {u} : RoomsOf(v)' = RoomsOf(v)
<1> DEFINE room == [match[c] EXCEPT !.guest = u, !.waiting = FALSE]
<1>1. TypeOK /\ u \in Users /\ c \in Codes /\ Joinable(u, c)
  BY CommitterJoins DEF IInv
<1>2. c \in Rooms /\ RoomsOf(u) \subseteq {c} /\ match[c].guest = None /\ match[c] \in Room
  BY <1>1, RoomType DEF Joinable, IsFull
<1>3. room \in Room
  BY <1>1, <1>2, JoinedRoomType
<1>4. room # None /\ room.host = match[c].host /\ room.guest = u /\ u # None
  BY <1>1, <1>2, <1>3, NoRoomAssumption, LobbyAssumption DEF Room
<1>5. match' = [match EXCEPT ![c] = room]
  BY <1>1 DEF CommitJoin, TypeOK
<1> HIDE DEF room
<1>6. match'[c] = room /\ \A d \in Codes \ {c} : match'[d] = match[d]
  BY <1>1, <1>5 DEF TypeOK
<1>7. Rooms' = Rooms
  BY <1>1, <1>2, <1>4, <1>6 DEF Rooms
<1>8. Members(c)' = Members(c) \cup {u} /\ IsFull(c)'
  BY <1>1, <1>2, <1>4, <1>6, LobbyAssumption DEF Members, IsFull
<1>9. \A v \in Users, d \in Rooms \ {c} : v \in Members(d)' <=> v \in Members(d)
  BY <1>6 DEF Members, Rooms
<1>10. \A v \in Users \ {u} : RoomsOf(v)' = RoomsOf(v)
  BY <1>1, <1>7, <1>8, <1>9 DEF RoomsOf
<1>11. RoomsOf(u)' = {c}
  BY <1>1, <1>2, <1>7, <1>8, <1>9 DEF RoomsOf
<1> QED  BY <1>2, <1>6, <1>7, <1>8, <1>10, <1>11, <1>1

LEMMA StartedRoom ==
    ASSUME IInv, NEW c \in Codes, StartAuction(c)
    PROVE  /\ Rooms' = Rooms
           /\ \A d \in Rooms : Members(d)' = Members(d) /\ (IsFull(d)' <=> IsFull(d))
           /\ \A d \in Codes \ {c} : match'[d] = match[d]
           /\ \A v \in Users : RoomsOf(v)' = RoomsOf(v)
<1> DEFINE room == [match[c] EXCEPT !.waiting = FALSE]
<1>1. TypeOK /\ c \in Rooms /\ match[c] \in Room
  BY RoomType DEF IInv, StartAuction
<1>2. room \in Room /\ room.host = match[c].host /\ room.guest = match[c].guest
  BY <1>1, RoomType DEF Room
<1>3. room # None
  BY <1>2, NoRoomAssumption
<1>4. match' = [match EXCEPT ![c] = room]
  BY <1>1 DEF StartAuction, TypeOK
<1> HIDE DEF room
<1>5. match'[c] = room /\ \A d \in Codes \ {c} : match'[d] = match[d]
  BY <1>1, <1>4 DEF TypeOK
<1>6. Rooms' = Rooms
  BY <1>1, <1>3, <1>5 DEF Rooms
<1>7. \A d \in Rooms : match'[d].host = match[d].host /\ match'[d].guest = match[d].guest
  BY <1>2, <1>5 DEF Rooms
<1>8. \A d \in Rooms : Members(d)' = Members(d) /\ (IsFull(d)' <=> IsFull(d))
  BY <1>7 DEF Members, IsFull
<1>9. \A v \in Users : RoomsOf(v)' = RoomsOf(v)
  BY <1>6, <1>8 DEF RoomsOf
<1> QED  BY <1>5, <1>6, <1>8, <1>9

\* Rooms and their members stay, and so does a full room.
LEMMA KeptStep ==
    ASSUME IInv, [Next]_vars
    PROVE  \A c \in Rooms : /\ c \in Rooms' /\ Members(c) \subseteq Members(c)'
                            /\ IsFull(c) => IsFull(c)'
<1>1. CASE match' = match
  BY <1>1 DEF Rooms, Members, IsFull
<1>2. ASSUME NEW r \in Requests, CommitCreate(r)
      PROVE  \A c \in Rooms : /\ c \in Rooms' /\ Members(c) \subseteq Members(c)'
                              /\ IsFull(c) => IsFull(c)'
  <2>1. PICK u, c : u = request[r].user /\ c = request[r].code
    OBVIOUS
  <2>2. \A d \in Rooms : d \in Rooms' /\ match'[d] = match[d]
    BY <1>2, <2>1, CreatedRoom
  <2> QED  BY <2>2 DEF Members, IsFull
<1>3. ASSUME NEW r \in Requests, CommitJoin(r)
      PROVE  \A c \in Rooms : /\ c \in Rooms' /\ Members(c) \subseteq Members(c)'
                              /\ IsFull(c) => IsFull(c)'
  <2>1. PICK u, c : u = request[r].user /\ c = request[r].code
    OBVIOUS
  <2>2. /\ Rooms' = Rooms /\ Members(c) \subseteq Members(c)' /\ IsFull(c)'
        /\ \A d \in Codes \ {c} : match'[d] = match[d]
    BY <1>3, <2>1, JoinedRoom
  <2>3. ASSUME NEW d \in Rooms \ {c}
        PROVE  Members(d)' = Members(d) /\ (IsFull(d)' <=> IsFull(d))
    BY <2>2 DEF Members, IsFull, Rooms
  <2> QED  BY <2>2, <2>3
<1>4. ASSUME NEW c \in Codes, StartAuction(c)
      PROVE  \A d \in Rooms : /\ d \in Rooms' /\ Members(d) \subseteq Members(d)'
                              /\ IsFull(d) => IsFull(d)'
  BY <1>4, StartedRoom
<1> QED  BY <1>1, <1>2, <1>3, <1>4, MatchSteps

LEMMA OneActiveStep == IInv /\ [Next]_vars => OneActiveMatch'
<1> SUFFICES ASSUME IInv, [Next]_vars  PROVE OneActiveMatch'
  OBVIOUS
<1>1. OneActiveMatch
  BY DEF IInv
<1>2. CASE match' = match
  BY <1>1, <1>2 DEF OneActiveMatch, RoomsOf, Rooms, Members
<1>3. ASSUME NEW r \in Requests, CommitCreate(r)  PROVE OneActiveMatch'
  <2>1. PICK u, c : u = request[r].user /\ c = request[r].code
    OBVIOUS
  <2>2. RoomsOf(u)' = {c} /\ \A v \in Users \ {u} : RoomsOf(v)' = RoomsOf(v)
    BY <1>3, <2>1, CreatedRoom
  <2> QED  BY <1>1, <2>2 DEF OneActiveMatch
<1>4. ASSUME NEW r \in Requests, CommitJoin(r)  PROVE OneActiveMatch'
  <2>1. PICK u, c : u = request[r].user /\ c = request[r].code
    OBVIOUS
  <2>2. RoomsOf(u)' = {c} /\ \A v \in Users \ {u} : RoomsOf(v)' = RoomsOf(v)
    BY <1>4, <2>1, JoinedRoom
  <2> QED  BY <1>1, <2>2 DEF OneActiveMatch
<1>5. ASSUME NEW c \in Codes, StartAuction(c)  PROVE OneActiveMatch'
  BY <1>1, <1>5, StartedRoom DEF OneActiveMatch
<1> QED  BY <1>2, <1>3, <1>4, <1>5, MatchSteps

-----------------------------------------------------------------------------
(* Requests.                                                               *)

\* What a commit leaves of an open transaction.
LEMMA AfterCommitFlags ==
    ASSUME NEW a \in Request, NEW b \in Request, a.stage = "open"
    PROVE  /\ a.user = b.user => AfterCommit(a, b).missed /\ AfterCommit(a, b).read
           /\ a.missed => AfterCommit(a, b).missed
           /\ a.read => AfterCommit(a, b).read
           /\ a.changed \/ (a.kind = "join" /\ b.kind = "join" /\ a.code = b.code) =>
                  AfterCommit(a, b).changed
<1> DEFINE m == a.missed \/ Reads(a, b)
           d == a.read \/ Reads(b, a)
           h == a.changed \/ (a.kind = "join" /\ b.kind = "join" /\ a.code = b.code)
<1>1. AfterCommit(a, b) = [a EXCEPT !.missed = m, !.read = d, !.changed = h]
  BY Zenon DEF AfterCommit
<1>2. a.user = b.user => Reads(a, b) /\ Reads(b, a)
  BY DEF Reads
<1> HIDE DEF m, d, h
<1>3. /\ AfterCommit(a, b).missed = m /\ AfterCommit(a, b).read = d
      /\ AfterCommit(a, b).changed = h
  BY <1>1 DEF Request
<1> QED  BY <1>2, <1>3, Zenon DEF m, d, h

\* An answer in hand stays true.
LEMMA AnswerStaysSo ==
    ASSUME IInv, [Next]_vars, NEW q \in Requests, RequestIsSound(q),
           request[q].stage = "answered",
           /\ request'[q].stage = "answered" /\ request'[q].user = request[q].user
           /\ request'[q].code = request[q].code /\ request'[q].full = request[q].full
    PROVE  RequestIsSound(q)'
<1>1. CASE request[q].code = None
  BY <1>1 DEF RequestIsSound
<1>2. CASE request[q].code # None
  <2>1. PICK u, c : u = request[q].user /\ c = request[q].code
    OBVIOUS
  <2>2. c \in RoomsOf(u) /\ (request[q].full => IsFull(c))
    BY <1>2, <2>1 DEF RequestIsSound
  <2>3. c \in RoomsOf(u)' /\ (request[q].full => IsFull(c)')
    BY <2>2, KeptStep DEF RoomsOf
  <2>4. u = request'[q].user /\ c = request'[q].code
    BY <2>1
  <2>5. /\ request'[q].code \in RoomsOf(request[q].user)'
        /\ request'[q].full => IsFull(request[q].code)'
    BY <2>3, <2>4 DEF RoomsOf, Members, IsFull
  <2> QED  BY <2>5 DEF RequestIsSound
<1> QED  BY <1>1, <1>2

\* Two transactions: one commits, one stays open.
LEMMA OthersDecisionHolds ==
    ASSUME IInv, [Next]_vars, NEW r \in Requests, NEW q \in Requests \ {r},
           request[q].stage = "open", RequestIsSound(q),
           CommitCreate(r) \/ CommitJoin(r)
    PROVE  RequestIsSound(q)'
<1>1. request[q] \in Request /\ request[r] \in Request /\ TypeOK
  BY DEF IInv, TypeOK
<1>2. request'[q] = AfterCommit(request[q], request[r])
  BY DEF CommitCreate, CommitJoin, Committed
<1>3. /\ request'[q].stage = "open" /\ request'[q].kind = request[q].kind
      /\ request'[q].user = request[q].user /\ request'[q].code = request[q].code
  BY <1>1, <1>2, AfterCommitType
<1>4. PICK u, c : u = request[q].user /\ c = request[q].code
  OBVIOUS
<1>5. PICK v, d : v = request[r].user /\ d = request[r].code
  OBVIOUS
<1>6. Doomed(q) => Doomed(q)'
  BY <1>1, <1>2, AfterCommitFlags DEF Doomed
<1>7. u = v => Doomed(q)'
  BY <1>1, <1>2, <1>4, <1>5, AfterCommitFlags DEF Doomed
<1>8. request[q].changed => request'[q].changed
  BY <1>1, <1>2, AfterCommitFlags
<1>9. u \in Users /\ c \in Codes
  BY <1>4 DEF RequestIsSound
<1>10. ASSUME u # v  PROVE RoomsOf(u)' = RoomsOf(u)
  BY <1>5, <1>9, <1>10, CreatedRoom, JoinedRoom
<1>11. ASSUME u # v, request[q].kind = "join", Joinable(u, c)
       PROVE  request'[q].changed \/ Joinable(u, c)'
  <2>1. CASE CommitCreate(r)
    <3>1. c \in Rooms' /\ match'[c] = match[c]
      BY <1>5, <1>11, <2>1, CreatedRoom DEF Joinable
    <3> QED  BY <1>10, <1>11, <3>1 DEF Joinable, Members, IsFull
  <2>2. CASE CommitJoin(r) /\ c = d
    <3>1. request[r].kind = "join"
      BY <2>2 DEF CommitJoin
    <3> QED  BY <1>1, <1>2, <1>4, <1>5, <1>11, <2>2, <3>1, AfterCommitFlags
  <2>3. CASE CommitJoin(r) /\ c # d
    <3>1. Rooms' = Rooms /\ match'[c] = match[c]
      BY <1>5, <1>9, <2>3, JoinedRoom
    <3> QED  BY <1>10, <1>11, <3>1 DEF Joinable, Members, IsFull
  <2> QED  BY <2>1, <2>2, <2>3
<1>12. u = request'[q].user /\ c = request'[q].code
  BY <1>3, <1>4
<1>13. request[q].kind = "create" => Doomed(q)' \/ RoomsOf(u)' = {}
  BY <1>4, <1>6, <1>7, <1>10 DEF RequestIsSound, DecisionHolds
<1>14. request[q].kind = "join" => Doomed(q)' \/ request'[q].changed \/ Joinable(u, c)'
  BY <1>4, <1>6, <1>7, <1>8, <1>11 DEF RequestIsSound, DecisionHolds
<1>15. /\ request'[q].kind = "create" => Doomed(q)' \/ RoomsOf(request[q].user)' = {}
       /\ request'[q].kind = "join" =>
              Doomed(q)' \/ request'[q].changed \/ Joinable(request[q].user, request[q].code)'
  BY <1>3, <1>12, <1>13, <1>14 DEF Joinable, RoomsOf, Members, IsFull
<1>16. DecisionHolds(q)'
  BY <1>15 DEF DecisionHolds
<1> QED  BY <1>3, <1>9, <1>12, <1>16 DEF RequestIsSound

LEMMA CommitStep ==
    ASSUME IInv, [Next]_vars, NEW r \in Requests, CommitCreate(r) \/ CommitJoin(r),
           NEW q \in Requests
    PROVE  RequestIsSound(q)'
<1>1. request[q] \in Request /\ request[r] \in Request /\ RequestIsSound(q)
  BY DEF IInv, TypeOK
<1>2. CASE q = r
  <2>1. PICK u, c : u = request[r].user /\ c = request[r].code
    OBVIOUS
  <2>2. PICK full \in BOOLEAN : Committed(r, full) /\ (full => CommitJoin(r))
    BY DEF CommitCreate, CommitJoin
  <2>3. request'[r] = [request[r] EXCEPT !.stage = "answered", !.code = c, !.full = full]
    BY <2>1, <2>2 DEF Committed, Answer
  <2>4. /\ request'[r].stage = "answered" /\ request'[r].user = u
        /\ request'[r].code = c /\ request'[r].full = full
    BY <1>1, <1>2, <2>1, <2>3 DEF Request
  <2>5. c \in RoomsOf(u)' /\ (full => IsFull(c)')
    BY <2>1, <2>2, CreatedRoom, JoinedRoom
  <2>6. /\ request'[r].code \in RoomsOf(request[r].user)'
        /\ request'[r].full => IsFull(request[r].code)'
    BY <2>4, <2>5 DEF RoomsOf, Members, IsFull
  <2> QED  BY <1>2, <2>4, <2>6 DEF RequestIsSound
<1>3. CASE q # r
  <2>1. request'[q] = AfterCommit(request[q], request[r])
    BY <1>3 DEF CommitCreate, CommitJoin, Committed
  <2>2. /\ request'[q].stage = request[q].stage /\ request'[q].kind = request[q].kind
        /\ request'[q].user = request[q].user /\ request'[q].code = request[q].code
        /\ request'[q].full = request[q].full
    BY <1>1, <2>1, AfterCommitType
  <2>3. CASE request[q].stage = "open"
    BY <1>1, <1>3, <2>3, OthersDecisionHolds
  <2>4. CASE request[q].stage = "answered"
    BY <1>1, <2>2, <2>4, AnswerStaysSo
  <2>5. CASE request[q].stage \notin {"open", "answered"}
    BY <1>1, <2>2, <2>5 DEF RequestIsSound
  <2> QED  BY <2>3, <2>4, <2>5
<1> QED  BY <1>2, <1>3

LEMMA StartStep ==
    ASSUME IInv, [Next]_vars, NEW c \in Codes, StartAuction(c), NEW q \in Requests
    PROVE  RequestIsSound(q)'
<1>1. request[q] \in Request /\ RequestIsSound(q)
  BY DEF IInv, TypeOK
<1>2. /\ request'[q].stage = request[q].stage /\ request'[q].kind = request[q].kind
      /\ request'[q].user = request[q].user /\ request'[q].code = request[q].code
      /\ request'[q].full = request[q].full /\ request'[q].missed = request[q].missed
      /\ request'[q].read = request[q].read
      /\ request[q].changed => request'[q].changed
      /\ q \in Open /\ request[q].kind = "join" /\ request[q].code = c =>
             request'[q].changed
  BY <1>1 DEF StartAuction, Request
<1>3. CASE request[q].stage = "answered"
  BY <1>1, <1>2, <1>3, AnswerStaysSo
<1>4. CASE request[q].stage \notin {"open", "answered"}
  BY <1>1, <1>2, <1>4 DEF RequestIsSound
<1>5. CASE request[q].stage = "open"
  <2>1. PICK u, d : u = request[q].user /\ d = request[q].code
    OBVIOUS
  <2>2. u \in Users /\ d \in Codes /\ u = request'[q].user /\ d = request'[q].code
    BY <1>1, <1>2, <1>5, <2>1 DEF RequestIsSound
  <2>3. Doomed(q)' <=> Doomed(q)
    BY <1>2 DEF Doomed
  <2>4. RoomsOf(u)' = RoomsOf(u)
    BY <2>2, StartedRoom
  <2>5. request[q].kind = "create" => Doomed(q)' \/ RoomsOf(u)' = {}
    BY <1>1, <1>5, <2>1, <2>3, <2>4 DEF RequestIsSound, DecisionHolds
  <2>6. ASSUME request[q].kind = "join", Joinable(u, d)
        PROVE  request'[q].changed \/ Joinable(u, d)'
    <3>1. CASE d = c
      BY <1>2, <1>5, <2>1, <2>6, <3>1 DEF Open
    <3>2. CASE d # c
      <4>1. Rooms' = Rooms /\ match'[d] = match[d]
        BY <2>2, <3>2, StartedRoom
      <4> QED  BY <2>4, <2>6, <4>1 DEF Joinable, Members, IsFull
    <3> QED  BY <3>1, <3>2
  <2>7. request[q].kind = "join" => Doomed(q)' \/ request'[q].changed \/ Joinable(u, d)'
    BY <1>1, <1>2, <1>5, <2>1, <2>3, <2>6 DEF RequestIsSound, DecisionHolds
  <2>8. /\ request'[q].kind = "create" => Doomed(q)' \/ RoomsOf(request[q].user)' = {}
        /\ request'[q].kind = "join" =>
               Doomed(q)' \/ request'[q].changed \/ Joinable(request[q].user, request[q].code)'
    BY <1>2, <2>2, <2>5, <2>7 DEF Joinable, RoomsOf, Members, IsFull
  <2>9. DecisionHolds(q)'
    BY <2>8 DEF DecisionHolds
  <2> QED  BY <1>2, <1>5, <2>2, <2>9 DEF RequestIsSound
<1> QED  BY <1>3, <1>4, <1>5

\* A step that touches no match: one request at most goes on.
LEMMA QuietStep ==
    ASSUME IInv, match' = match, NEW q \in Requests, request'[q] = request[q]
    PROVE  RequestIsSound(q)'
<1>1. RequestIsSound(q)
  BY DEF IInv
<1> QED  BY <1>1 DEF RequestIsSound, DecisionHolds, Doomed, Joinable, RoomsOf, Rooms, Members,
                     IsFull

LEMMA RequestsStep ==
    ASSUME IInv, [Next]_vars, NEW q \in Requests
    PROVE  RequestIsSound(q)'
<1>1. TypeOK /\ request[q] \in Request /\ RequestIsSound(q)
  BY DEF IInv, TypeOK
<1>2. ASSUME NEW r \in Requests, PickCode(r)  PROVE RequestIsSound(q)'
  <2>1. CASE q = r
    BY <1>1, <1>2, <2>1 DEF PickCode, RequestIsSound, Request, TypeOK
  <2>2. CASE q # r
    <3>1. request'[q] = request[q] /\ match' = match
      BY <1>1, <1>2, <2>2 DEF PickCode, TypeOK
    <3> QED  BY <3>1, QuietStep
  <2> QED  BY <2>1, <2>2
<1>3. ASSUME NEW r \in Requests, BeginCreate(r)  PROVE RequestIsSound(q)'
  <2>1. CASE q = r
    <3>1. RoomsOf(request[q].user)' = {} /\ request'[q].kind = "create"
      BY <1>1, <1>3, <2>1 DEF BeginCreate, RequestIsSound, RoomsOf, Rooms, Members, Request,
                              TypeOK
    <3>2. DecisionHolds(q)'
      BY <3>1 DEF DecisionHolds
    <3> QED  BY <1>1, <1>3, <2>1, <3>2 DEF BeginCreate, RequestIsSound, Request, TypeOK
  <2>2. CASE q # r
    BY <1>3, <2>2, QuietStep DEF BeginCreate
  <2> QED  BY <2>1, <2>2
<1>4. ASSUME NEW r \in Requests, BeginJoin(r)  PROVE RequestIsSound(q)'
  <2>1. CASE q = r
    <3>1. Joinable(request[q].user, request[q].code)' /\ request'[q].kind = "join"
      BY <1>1, <1>4, <2>1 DEF BeginJoin, Joinable, IsFull, RoomsOf, Rooms, Members, Request,
                              TypeOK
    <3>2. DecisionHolds(q)'
      BY <3>1 DEF DecisionHolds
    <3> QED  BY <1>1, <1>4, <2>1, <3>2 DEF BeginJoin, RequestIsSound, Request, TypeOK
  <2>2. CASE q # r
    BY <1>4, <2>2, QuietStep DEF BeginJoin
  <2> QED  BY <2>1, <2>2
<1>5. ASSUME NEW r \in Requests, JoinAgain(r)  PROVE RequestIsSound(q)'
  <2>1. CASE q = r
    <3>1. /\ request'[q].stage = "answered" /\ request'[q].user = request[q].user
          /\ request'[q].code = request[q].code
          /\ request'[q].full = IsFull(request[q].code)
      BY <1>1, <1>5, <2>1 DEF JoinAgain, Answer, Request, TypeOK
    <3>2. /\ request[q].code \in RoomsOf(request[q].user) /\ match' = match
      BY <1>5, <2>1 DEF JoinAgain
    <3>3. /\ request[q].code' \in RoomsOf(request[q].user)'
          /\ request[q].full' => IsFull(request[q].code)'
      BY <3>1, <3>2 DEF RoomsOf, Rooms, Members, IsFull
    <3> QED  BY <3>1, <3>3 DEF RequestIsSound
  <2>2. CASE q # r
    BY <1>5, <2>2, QuietStep DEF JoinAgain
  <2> QED  BY <2>1, <2>2
<1>6. ASSUME NEW r \in Requests, Fail(r)  PROVE RequestIsSound(q)'
  <2>1. CASE q = r
    BY <1>1, <1>6, <2>1 DEF Fail, Idle, RequestIsSound, TypeOK
  <2>2. CASE q # r
    BY <1>6, <2>2, QuietStep DEF Fail
  <2> QED  BY <2>1, <2>2
<1>7. ASSUME NEW r \in Requests, NEW u \in Users, Ask(r, u), match' = match
      PROVE  RequestIsSound(q)'
  <2>1. CASE q = r
    BY <1>1, <1>7, <2>1 DEF Ask, Idle, RequestIsSound, TypeOK
  <2>2. CASE q # r
    <3>1. request'[q] = request[q] /\ match' = match
      BY <1>1, <1>7, <2>2 DEF Ask, TypeOK
    <3> QED  BY <3>1, QuietStep
  <2> QED  BY <2>1, <2>2
<1>8. ASSUME NEW r \in Requests, OtherAsk(r) \/ AskFromPage(r)  PROVE RequestIsSound(q)'
  BY <1>7, <1>8, LobbyAssumption DEF OtherAsk, AskFromPage
<1>9. ASSUME NEW r \in Requests, Receive(r)  PROVE RequestIsSound(q)'
  <2>1. CASE q = r
    BY <1>1, <1>9, <2>1 DEF Receive, Idle, RequestIsSound, TypeOK
  <2>2. CASE q # r
    BY <1>9, <2>2, QuietStep DEF Receive
  <2> QED  BY <2>1, <2>2
<1>10. CASE match' = match /\ request' = request
  BY <1>10, QuietStep
<1>11. ASSUME NEW r \in Requests, CommitCreate(r) \/ CommitJoin(r)  PROVE RequestIsSound(q)'
  BY <1>11, CommitStep
<1>12. ASSUME NEW c \in Codes, StartAuction(c)  PROVE RequestIsSound(q)'
  BY <1>12, StartStep
<1>13. ASSUME LoadCurrentMatch \/ RunEffect \/ Poll \/ Reload \/ UNCHANGED vars
       PROVE  match' = match /\ request' = request
  BY <1>13 DEF LoadCurrentMatch, RunEffect, Poll, Reload, vars
<1>14. ASSUME NEW a \in page.polls, ReceivePoll(a) \/ LosePoll(a)
       PROVE  match' = match /\ request' = request
  BY <1>14 DEF ReceivePoll, LosePoll
<1> QED  BY <1>2, <1>3, <1>4, <1>5, <1>6, <1>8, <1>9, <1>10, <1>11, <1>12, <1>13, <1>14
            DEF Next, Transaction

-----------------------------------------------------------------------------
(* The page.                                                               *)

\* What is so stays so.
SoNext(seen) ==
    seen.code # None =>
        /\ seen.code \in Rooms' /\ Viewer \in Members(seen.code)'
        /\ seen.full => IsFull(seen.code)'

LEMMA SoStays ==
    ASSUME IInv, [Next]_vars, NEW seen, IsSo(seen)
    PROVE  SoNext(seen)
<1>1. CASE seen.code = None
  BY <1>1 DEF SoNext
<1>2. CASE seen.code # None
  <2>1. PICK c : c = seen.code
    OBVIOUS
  <2>2. c \in Rooms /\ Viewer \in Members(c) /\ (seen.full => IsFull(c))
    BY <1>2, <2>1 DEF IsSo, RoomsOf
  <2>3. c \in Rooms' /\ Viewer \in Members(c)' /\ (seen.full => IsFull(c)')
    BY <2>2, KeptStep
  <2> QED  BY <2>1, <2>3 DEF SoNext
<1> QED  BY <1>1, <1>2

\* Whatever the page is told is so when it is told.
LEMMA ToldIsSo ==
    ASSUME IInv, [Next]_vars
    PROVE  IsSo(page'.shown) /\ IsSo(page'.effect) /\ \A a \in page'.polls : IsSo(a)
<1> DEFINE P == IsSo(page'.shown) /\ IsSo(page'.effect) /\ \A a \in page'.polls : IsSo(a)
<1> SUFFICES P
  OBVIOUS
<1>1. /\ page \in Page /\ \A r \in Requests : RequestIsSound(r)
      /\ IsSo(page.shown) /\ IsSo(page.effect) /\ \A a \in page.polls : IsSo(a)
      /\ page.request # None => request[page.request].user = Viewer
                                \/ request[page.request].code = None
  BY DEF IInv, TypeOK, PageIsSound, Waits
<1>2. CASE page' = page
  BY <1>1, <1>2
<1>3. ASSUME NEW r \in Requests, AskFromPage(r)  PROVE P
  <2>1. page'.shown = page.shown /\ page'.effect = page.effect /\ page'.polls = page.polls
    BY <1>1, <1>3 DEF AskFromPage, Page
  <2> QED  BY <1>1, <2>1
<1>4. ASSUME NEW r \in Requests, Receive(r)  PROVE P
  <2>1. CASE page.request # r
    BY <1>1, <1>4, <2>1 DEF Receive
  <2>2. CASE page.request = r
    <3> DEFINE seen == [code |-> request[r].code, full |-> request[r].full]
    <3>1. /\ page'.effect = page.effect /\ page'.polls = page.polls
          /\ page'.shown = IF request[r].code = None THEN page.shown ELSE seen
      BY <1>1, <1>4, <2>2 DEF Receive, Page
    <3>2. ASSUME request[r].code # None  PROVE IsSo(seen)
      <4>1. r # None
        BY LobbyAssumption
      <4>2. request[r].user = Viewer
        BY <1>1, <2>2, <3>2, <4>1
      <4> QED  BY <1>1, <1>4, <3>2, <4>2 DEF Receive, RequestIsSound, IsSo
    <3> HIDE DEF seen
    <3> QED  BY <1>1, <3>1, <3>2
  <2> QED  BY <2>1, <2>2
<1>5. IsSo(Nothing)
  BY DEF IsSo, Nothing
<1>6. ASSUME LoadCurrentMatch  PROVE P
  <2>1. ASSUME NEW c \in RoomsOf(Viewer)  PROVE IsSo([code |-> c, full |-> IsFull(c)])
    BY DEF IsSo
  <2>2. page'.effect = page.effect /\ page'.polls = page.polls
    BY <1>1, <1>6 DEF LoadCurrentMatch, Page
  <2>3. \/ page'.shown = page.shown
        \/ \E c \in RoomsOf(Viewer) : page'.shown = [code |-> c, full |-> IsFull(c)]
    BY <1>1, <1>6 DEF LoadCurrentMatch, Page
  <2> QED  BY <1>1, <2>1, <2>2, <2>3
<1>7. ASSUME RunEffect  PROVE P
  <2>1. page'.shown = page.shown /\ page'.effect = page.shown /\ page'.polls = {}
    BY <1>1, <1>7 DEF RunEffect, Page
  <2> QED  BY <1>1, <2>1
<1>8. ASSUME Poll  PROVE P
  <2> DEFINE polled == [page.effect EXCEPT !.full = IsFull(page.effect.code)]
  <2>1. polled.code = page.effect.code /\ polled.full = IsFull(page.effect.code)
    BY <1>1 DEF Page, Seen
  <2>2. /\ page'.shown = page.shown /\ page'.effect = page.effect
        /\ page'.polls = page.polls \cup {polled}
    BY <1>1, <1>8 DEF Poll, Page
  <2> HIDE DEF polled
  <2>3. IsSo(polled)
    BY <1>1, <2>1 DEF IsSo
  <2> QED  BY <1>1, <2>2, <2>3
<1>9. ASSUME NEW a \in page.polls, ReceivePoll(a) \/ LosePoll(a)  PROVE P
  <2>1. /\ page'.shown \in {page.shown, a} /\ page'.effect = page.effect
        /\ page'.polls \subseteq page.polls
    BY <1>1, <1>9 DEF ReceivePoll, LosePoll, Page
  <2> QED  BY <1>1, <2>1
<1>10. ASSUME Reload  PROVE P
  <2>1. page'.shown = Nothing /\ page'.effect = Nothing /\ page'.polls = {}
    BY <1>10 DEF Reload, NewPage
  <2> QED  BY <1>5, <2>1
<1>11. ASSUME NEW r \in Requests, Transaction(r) \/ OtherAsk(r)  PROVE page' = page
  BY <1>11 DEF Transaction, PickCode, BeginCreate, BeginJoin, JoinAgain, CommitCreate,
               CommitJoin, Fail, OtherAsk
<1>12. ASSUME NEW c \in Codes, StartAuction(c)  PROVE page' = page
  BY <1>12 DEF StartAuction
<1>13. CASE UNCHANGED vars
  BY <1>2, <1>13 DEF vars
<1> HIDE DEF P
<1> QED  BY <1>2, <1>3, <1>4, <1>6, <1>7, <1>8, <1>9, <1>10, <1>11, <1>12, <1>13 DEF Next

LEMMA WaitsOn ==
    ASSUME IInv, [Next]_vars
    PROVE  Waits(page'.request, request')
<1>1. /\ TypeOK /\ page \in Page /\ Waits(page.request, request)
      /\ \A r \in Requests : request[r] \in Request
  BY DEF IInv, TypeOK, PageIsSound
<1>2. page.request \in Requests \cup {None} /\ None \notin Requests
  BY <1>1, LobbyAssumption DEF Page
<1>3. ASSUME page'.request = page.request,
             \A q \in Requests :
                 \/ request'[q] = request[q]
                 \/ /\ request'[q].stage # "idle" /\ request[q].stage # "answered"
                    /\ request'[q].user = request[q].user
                 \/ request'[q].stage = "answered" /\ request'[q].code = None
                 \/ request[q].stage = "idle"
      PROVE  Waits(page'.request, request')
  BY <1>1, <1>2, <1>3 DEF Waits
<1>4. ASSUME NEW r \in Requests, PickCode(r) \/ BeginCreate(r) \/ BeginJoin(r)
      PROVE  Waits(page'.request, request')
  <2>1. \A q \in Requests : request'[q] = request[q] \/
            (/\ request'[q].stage # "idle" /\ request[q].stage # "answered"
             /\ request'[q].user = request[q].user)
    BY <1>1, <1>4 DEF PickCode, BeginCreate, BeginJoin, TypeOK, Request
  <2> QED  BY <1>3, <1>4, <2>1 DEF PickCode, BeginCreate, BeginJoin
<1>5. ASSUME NEW r \in Requests, JoinAgain(r)  PROVE Waits(page'.request, request')
  <2>1. \A q \in Requests : request'[q] = request[q] \/
            (/\ request'[q].stage # "idle" /\ request[q].stage # "answered"
             /\ request'[q].user = request[q].user)
    BY <1>1, <1>5 DEF JoinAgain, Answer, TypeOK, Request
  <2> QED  BY <1>3, <1>5, <2>1 DEF JoinAgain
<1>6. ASSUME NEW r \in Requests, CommitCreate(r) \/ CommitJoin(r)
      PROVE  Waits(page'.request, request')
  <2>1. request'[r].stage = "answered" /\ request[r].stage = "open"
        /\ request'[r].user = request[r].user
    BY <1>1, <1>6 DEF CommitCreate, CommitJoin, Open, Committed, Answer, Request
  <2>2. ASSUME NEW q \in Requests \ {r}
        PROVE  \/ request'[q] = request[q]
               \/ /\ request'[q].stage # "idle" /\ request[q].stage # "answered"
                  /\ request'[q].user = request[q].user
    <3>1. request'[q] = AfterCommit(request[q], request[r])
      BY <1>6 DEF CommitCreate, CommitJoin, Committed
    <3>2. CASE request[q].stage # "open"
      BY <3>1, <3>2 DEF AfterCommit
    <3>3. CASE request[q].stage = "open"
      BY <1>1, <3>1, <3>3, AfterCommitType
    <3> QED  BY <3>2, <3>3
  <2>3. page'.request = page.request
    BY <1>6 DEF CommitCreate, CommitJoin
  <2>4. \A q \in Requests : request'[q] = request[q] \/
            (/\ request'[q].stage # "idle" /\ request[q].stage # "answered"
             /\ request'[q].user = request[q].user)
    BY <2>1, <2>2
  <2> QED  BY <1>3, <2>3, <2>4
<1>7. ASSUME NEW r \in Requests, Fail(r)  PROVE Waits(page'.request, request')
  <2>1. \A q \in Requests : request'[q] = request[q] \/
            (request'[q].stage = "answered" /\ request'[q].code = None)
    BY <1>1, <1>7 DEF Fail, Idle, TypeOK
  <2> QED  BY <1>3, <1>7, <2>1 DEF Fail
<1>8. ASSUME NEW r \in Requests, NEW u \in Users, Ask(r, u)
      PROVE  /\ \A q \in Requests : request'[q] = request[q] \/ request[q].stage = "idle"
             /\ request'[r].stage = "asked" /\ request'[r].user = u
  BY <1>1, <1>8 DEF Ask, Idle, TypeOK, Request
<1>9. ASSUME NEW r \in Requests, OtherAsk(r)  PROVE Waits(page'.request, request')
  BY <1>3, <1>8, <1>9 DEF OtherAsk
<1>10. ASSUME NEW r \in Requests, AskFromPage(r)  PROVE Waits(page'.request, request')
  <2>1. page'.request = r
    BY <1>1, <1>10 DEF AskFromPage, Page
  <2>2. request'[r].stage = "asked" /\ request'[r].user = Viewer
    BY <1>8, <1>10, LobbyAssumption DEF AskFromPage
  <2> QED  BY <2>1, <2>2 DEF Waits
<1>11. ASSUME NEW r \in Requests, Receive(r)  PROVE Waits(page'.request, request')
  <2>1. CASE page.request = r
    <3>1. page'.request = None
      BY <1>1, <1>11, <2>1 DEF Receive, Page
    <3> QED  BY <3>1 DEF Waits
  <2>2. CASE page.request # r
    <3>1. page'.request = page.request /\ (page.request # None =>
              request'[page.request] = request[page.request])
      BY <1>1, <1>2, <1>11, <2>2 DEF Receive, TypeOK
    <3> QED  BY <1>1, <3>1 DEF Waits
  <2> QED  BY <2>1, <2>2
<1>12. ASSUME NEW c \in Codes, StartAuction(c)  PROVE Waits(page'.request, request')
  <2>1. \A q \in Requests : request'[q] = request[q] \/
            (/\ request'[q].stage # "idle" /\ request[q].stage # "answered"
             /\ request'[q].user = request[q].user)
    BY <1>1, <1>12 DEF StartAuction, Open, Request
  <2> QED  BY <1>3, <1>12, <2>1 DEF StartAuction
<1>13. ASSUME LoadCurrentMatch \/ RunEffect \/ Poll \/ UNCHANGED vars
              \/ \E a \in page.polls : ReceivePoll(a) \/ LosePoll(a)
       PROVE  Waits(page'.request, request')
  <2>1. page'.request = page.request /\ request' = request
    BY <1>1, <1>13 DEF LoadCurrentMatch, RunEffect, Poll, ReceivePoll, LosePoll, vars, Page
  <2> QED  BY <1>3, <2>1
<1>14. ASSUME Reload  PROVE Waits(page'.request, request')
  BY <1>14 DEF Reload, NewPage, Waits
<1> QED  BY <1>4, <1>5, <1>6, <1>7, <1>9, <1>10, <1>11, <1>12, <1>13, <1>14
            DEF Next, Transaction

LEMMA PageStep == IInv /\ [Next]_vars => PageIsSound'
<1> SUFFICES ASSUME IInv, [Next]_vars  PROVE PageIsSound'
  OBVIOUS
<1>1. ASSUME NEW seen, IsSo(seen)  PROVE SoNext(seen)
  BY <1>1, SoStays
<1>2. PICK shown, effect : shown = page'.shown /\ effect = page'.effect
  OBVIOUS
<1>3. SoNext(shown) /\ SoNext(effect) /\ \A a \in page'.polls : SoNext(a)
  BY <1>1, <1>2, ToldIsSo
<1>4. IsSo(page.shown)' /\ IsSo(page.effect)'
  BY <1>2, <1>3 DEF SoNext, IsSo, RoomsOf, Members, IsFull
<1>5. \A a \in page'.polls : IsSo(a)'
  BY <1>3 DEF SoNext, IsSo, RoomsOf
<1>6. Waits(page'.request, request')
  BY WaitsOn
<1> QED  BY <1>4, <1>5, <1>6 DEF PageIsSound

-----------------------------------------------------------------------------
(* The theorems.                                                           *)

LEMMA Invariance == Spec => []IInv
<1>1. IInv /\ [Next]_vars => IInv'
  <2> SUFFICES ASSUME IInv, [Next]_vars  PROVE IInv'
    OBVIOUS
  <2>1. TypeOK' /\ OneActiveMatch' /\ PageIsSound'
    BY TypeStep, OneActiveStep, PageStep
  <2>2. \A r \in Requests : RequestIsSound(r)'
    BY RequestsStep
  <2> QED  BY <2>1, <2>2 DEF IInv
<1> QED  BY InitInv, <1>1, PTL DEF Spec

\* createMatch and joinMatch leave rooms of one host and at most one guest,
\* another user, and a room with a guest is closed.
THEOREM RoomsStayTyped == Spec => []TypeOK
<1>1. IInv => TypeOK
  BY DEF IInv
<1> QED  BY <1>1, Invariance, PTL

\* However many requests of one user race, to whatever rooms, it takes part in
\* one match: the check of createMatch and joinMatch under Serializable.
THEOREM OneMatchEach == Spec => []OneActiveMatch
<1>1. IInv => OneActiveMatch
  BY DEF IInv
<1> QED  BY <1>1, Invariance, PTL

\* No create takes a room's code and no join its guest's place.
THEOREM RoomsStayKept == Spec => RoomsAreKept
<1>1. IInv /\ [Next]_vars => [\A c \in Rooms : Members(c) \subseteq Members(c)']_vars
  BY KeptStep
<1> QED  BY <1>1, Invariance, PTL DEF Spec, RoomsAreKept

\* The lobby card shows a room of its viewer, and an opponent who is there.
THEOREM CardIsTrue == Spec => []ShownRoomIsSo
<1>1. IInv => ShownRoomIsSo
  BY DEF IInv, PageIsSound, ShownRoomIsSo
<1> QED  BY <1>1, Invariance, PTL

=============================================================================
