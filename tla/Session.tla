------------------------------ MODULE Session ------------------------------
(***************************************************************************)
(* Authentication sessions: the rows of AuthSession, the handlers of       *)
(* apps/api/src/auth/auth.service.ts that create, rotate and revoke them,  *)
(* and one browser, whose tabs share a cookie jar and refresh on their own *)
(* (apps/web/src/lib/api-client.ts).                                       *)
(*                                                                         *)
(* login, register and logout write once.  refresh reads the session,      *)
(* decides, and writes with a guard: between any two of these steps other  *)
(* handlers run and time passes.                                           *)
(*                                                                         *)
(* Tokens are random, so a hash is as good as its token.  Passwords, roles *)
(* and client metadata are left out; no handler changes an account's       *)
(* status.  MaxTime and MaxIssued are bounds of the model.                 *)
(***************************************************************************)
EXTENDS Integers

CONSTANTS
    Sid,            \* session ids
    Tabs,           \* requests the browser can have under way
    AccessTtl, RefreshTtl,
    MaxTime,
    MaxIssued,      \* no refresh is asked for once a session issued as many
    NoPair, NoRow   \* no cookies; a session not created yet

\* An access and a refresh token, issued together and set as cookies together.
Pair == [session : Sid, nr : Nat, accessUntil : Nat, refreshUntil : Nat]

\* hash stands for refreshTokenHash.
Row == [hash : Pair, expiresAt : Nat, revoked : BOOLEAN]

ASSUME SessionAssumption ==
    /\ AccessTtl \in Nat \ {0}
    /\ RefreshTtl \in Nat \ {0}
    /\ MaxTime \in Nat
    /\ MaxIssued \in Nat
    /\ NoPair \notin Pair
    /\ NoRow \notin Row

VARIABLES
    clock,
    row,        \* AuthSession rows
    jar,        \* the browser's cookies
    request,    \* the request of each tab, as far as it got
    issued,     \* how many pairs each session's handlers have issued
    rotated,    \* history: every rotation, as the pair presented and its successor
    loggedOut   \* history: sessions a logout was served for

vars == <<clock, row, jar, request, issued, rotated, loggedOut>>

-----------------------------------------------------------------------------
Time == 0 .. MaxTime

IssuePair(s, issuedAt) ==
    [session |-> s, nr |-> issued[s] + 1, accessUntil |-> issuedAt + AccessTtl,
     refreshUntil |-> issuedAt + RefreshTtl]

Live(r, now) == ~r.revoked /\ r.expiresAt > now

Stage == {"idle", "unauthorized", "refreshing", "looked", "revoking",
          "rotating", "granted", "refused", "loggingOut", "cleared"}
Request == [stage : Stage, pair : Pair \cup {NoPair}, seen : Row \cup {NoRow},
            now : Nat]
Idle == [stage |-> "idle", pair |-> NoPair, seen |-> NoRow, now |-> 0]

Goes(t, stage) == request' = [request EXCEPT ![t].stage = stage]

-----------------------------------------------------------------------------
(* Handlers of the server.                                                 *)

\* createAuthenticatedSession, at the end of login and of register.
Login(t) ==
    /\ request[t] = Idle
    /\ \E s \in Sid :
        LET pair == IssuePair(s, clock)
        IN  /\ row[s] = NoRow
            /\ row' = [row EXCEPT ![s] = [hash |-> pair, revoked |-> FALSE,
                                          expiresAt |-> pair.refreshUntil]]
            /\ issued' = [issued EXCEPT ![s] = @ + 1]
            /\ request' = [request EXCEPT ![t] =
                   [Idle EXCEPT !.stage = "granted", !.pair = pair]]
    /\ UNCHANGED <<clock, jar, rotated, loggedOut>>

\* validateAccessToken accepts.
AccessAccepted(pair) ==
    /\ pair # NoPair
    /\ clock < pair.accessUntil
    /\ Live(row[pair.session], clock)

\* refresh, up to its first await: the token's own expiry, then the row.
LookUp(t) ==
    /\ request[t].stage = "refreshing"
    /\ IF clock < request[t].pair.refreshUntil
         THEN request' = [request EXCEPT ![t].stage = "looked",
                                         ![t].seen = row[request[t].pair.session]]
         ELSE Goes(t, "refused")
    /\ UNCHANGED <<clock, row, jar, issued, rotated, loggedOut>>

\* Mutant: a session lasts as long as its access token.
JudgeByAccess(t) ==
    LET seen == request[t].seen
        live == ~seen.revoked /\ seen.hash.accessUntil > clock
    IN  /\ request[t].stage = "looked"
        /\ \/ ~live /\ Goes(t, "refused")
           \/ /\ live
              /\ request' = [request EXCEPT ![t].now = clock,
                     ![t].stage = IF seen.hash = request[t].pair
                                    THEN "rotating" ELSE "revoking"]
        /\ UNCHANGED <<clock, row, jar, issued, rotated, loggedOut>>

\* refresh reads the clock and decides on the row it saw.
Judge(t) ==
    LET seen == request[t].seen
    IN  /\ request[t].stage = "looked"
        /\ \/ ~Live(seen, clock) /\ Goes(t, "refused")
           \/ /\ Live(seen, clock)
              /\ request' = [request EXCEPT ![t].now = clock,
                     ![t].stage = IF seen.hash = request[t].pair
                                    THEN "rotating" ELSE "revoking"]
        /\ UNCHANGED <<clock, row, jar, issued, rotated, loggedOut>>

\* A token rotated earlier was presented: the session ends.
Revoke(t) ==
    /\ request[t].stage = "revoking"
    /\ row' = [row EXCEPT ![request[t].pair.session].revoked = TRUE]
    /\ Goes(t, "refused")
    /\ UNCHANGED <<clock, jar, issued, rotated, loggedOut>>

\* Mutant: the update does not look at the hash again.
RotatesAnyHash(t) ==
    LET r == row[request[t].pair.session]
    IN  ~r.revoked /\ r.expiresAt > request[t].now

\* Mutant: the update does not look for a revocation again.
RotatesRevoked(t) ==
    LET r == row[request[t].pair.session]
    IN  r.hash = request[t].pair /\ r.expiresAt > request[t].now

\* The guard of the rotating updateMany.
Rotates(t) ==
    LET r == row[request[t].pair.session]
    IN  r.hash = request[t].pair /\ ~r.revoked /\ r.expiresAt > request[t].now

\* The tokens are issued between the reading of the clock and the update.
Rotate(t) ==
    LET old == request[t].pair
    IN  /\ request[t].stage = "rotating"
        /\ \/ /\ Rotates(t)
              /\ \E issuedAt \in request[t].now .. clock :
                  LET new == IssuePair(old.session, issuedAt)
                  IN  /\ row' = [row EXCEPT ![old.session].hash = new,
                                     ![old.session].expiresAt = new.refreshUntil]
                      /\ request' = [request EXCEPT ![t].stage = "granted",
                                                    ![t].pair = new]
                      /\ rotated' = rotated \cup {<<old, new>>}
              /\ issued' = [issued EXCEPT ![old.session] = @ + 1]
           \/ /\ ~Rotates(t)
              /\ Goes(t, "refused")
              /\ UNCHANGED <<row, issued, rotated>>
        /\ UNCHANGED <<clock, jar, loggedOut>>

\* logout also takes expired tokens, and ones rotated since.
ServeLogout(t) ==
    LET s == request[t].pair.session
    IN  /\ request[t].stage = "loggingOut"
        /\ row' = [row EXCEPT ![s].revoked = TRUE]
        /\ loggedOut' = loggedOut \cup {s}
        /\ Goes(t, "cleared")
        /\ UNCHANGED <<clock, jar, issued, rotated>>

-----------------------------------------------------------------------------
(* The browser.                                                            *)

\* getCurrentUser asks for /me and is answered 401.
FindUnauthorized(t) ==
    /\ request[t] = Idle
    /\ ~AccessAccepted(jar)
    /\ Goes(t, "unauthorized")
    /\ UNCHANGED <<clock, row, jar, issued, rotated, loggedOut>>

\* The cookie of the refresh token is sent until it expires.
CookieSent == jar # NoPair /\ clock < jar.refreshUntil

\* getCurrentUser then asks to refresh, with the cookie of that moment.
SendRefresh(t) ==
    /\ request[t].stage = "unauthorized"
    /\ \/ /\ CookieSent
          /\ issued[jar.session] < MaxIssued
          /\ request' = [request EXCEPT ![t].stage = "refreshing", ![t].pair = jar]
       \/ /\ ~CookieSent
          /\ request' = [request EXCEPT ![t] = Idle]
    /\ UNCHANGED <<clock, row, jar, issued, rotated, loggedOut>>

\* Without a cookie the server changes nothing and the jar stays empty.
SendLogout(t) ==
    /\ request[t] = Idle
    /\ CookieSent
    /\ request' = [request EXCEPT ![t].stage = "loggingOut", ![t].pair = jar]
    /\ UNCHANGED <<clock, row, jar, issued, rotated, loggedOut>>

\* An answer arrives and sets the cookies, clears them, or does neither.
Receive(t) ==
    /\ request[t].stage \in {"granted", "cleared", "refused"}
    /\ jar' = CASE request[t].stage = "granted" -> request[t].pair
                [] request[t].stage = "cleared" -> NoPair
                [] request[t].stage = "refused" -> jar
    /\ request' = [request EXCEPT ![t] = Idle]
    /\ UNCHANGED <<clock, row, issued, rotated, loggedOut>>

\* A request does not reach the server, or its answer not the browser.
Lose(t) ==
    /\ request[t].stage \in {"refreshing", "loggingOut", "granted", "cleared", "refused"}
    /\ request' = [request EXCEPT ![t] = Idle]
    /\ UNCHANGED <<clock, row, jar, issued, rotated, loggedOut>>

Tick ==
    /\ clock < MaxTime
    /\ clock' = clock + 1
    /\ UNCHANGED <<row, jar, request, issued, rotated, loggedOut>>

-----------------------------------------------------------------------------
Init ==
    /\ clock = 0
    /\ row = [s \in Sid |-> NoRow]
    /\ jar = NoPair
    /\ request = [t \in Tabs |-> Idle]
    /\ issued = [s \in Sid |-> 0]
    /\ rotated = {}
    /\ loggedOut = {}

Next ==
    \/ \E t \in Tabs :
           \/ Login(t)
           \/ LookUp(t) \/ Judge(t) \/ Revoke(t) \/ Rotate(t)
           \/ ServeLogout(t)
           \/ FindUnauthorized(t) \/ SendRefresh(t) \/ SendLogout(t)
           \/ Receive(t) \/ Lose(t)
    \/ Tick

Spec == Init /\ [][Next]_vars

-----------------------------------------------------------------------------
TypeOK ==
    /\ clock \in Time
    /\ row \in [Sid -> Row \cup {NoRow}]
    /\ jar \in Pair \cup {NoPair}
    /\ request \in [Tabs -> Request]
    /\ issued \in [Sid -> Nat]
    /\ rotated \subseteq Pair \X Pair
    /\ loggedOut \subseteq Sid

Presented == {r[1] : r \in rotated}
Circulating == ({jar} \cup {request[t].pair : t \in Tabs}) \ {NoPair}

\* A token of its session: the stored one, or one that was rotated.
Known(pair) ==
    /\ row[pair.session] # NoRow
    /\ pair = row[pair.session].hash \/ pair \in Presented

\* Of all the tokens a session issued exactly one can be used next: no token
\* is rotated twice, and one in circulation is either the stored one or was
\* rotated already.
OneTokenIsCurrent ==
    /\ \A a, b \in rotated : a[1] = b[1] => a = b
    /\ \A s \in Sid : row[s] # NoRow => row[s].hash \notin Presented
    /\ \A pair \in Circulating : Known(pair)

\* A refresh that read the session before it was revoked does not bring it
\* back: a revoked session never changes again, whatever is under way.
RevokedIsFinal ==
    [][\A s \in Sid : row[s] # NoRow /\ row[s].revoked => row'[s] = row[s]]_vars

\* A refresh is refused for a reason only: its session is over, or its token
\* was rotated.
RefusalHasReason ==
    \A t \in Tabs :
        LET pair == request[t].pair
        IN  request[t].stage = "refused" =>
                ~Live(row[pair.session], clock) \/ pair \in Presented

\* "refreshes an expired access session" (api-client.spec.ts): a tab whose
\* refresh token has not expired is refused only after a logout.
ExpiredAccessIsRefreshed ==
    \A t \in Tabs :
        LET pair == request[t].pair
        IN  request[t].stage = "refused" =>
                pair.session \in loggedOut \/ pair.refreshUntil <= clock

=============================================================================
