----------------------------- MODULE SocketGate -----------------------------
(***************************************************************************)
(* What a bid passes before the auction engine sees it: the identity of    *)
(* its socket (socket-auth.service.ts, handleConnection) and the sliding   *)
(* window of the rate limiter (socket-rate-limiter.service.ts, placeBid).  *)
(*                                                                         *)
(* Time passes in steps of the model; the window is a number of them.  The *)
(* identity of a socket is looked up once and kept.  A bid that comes      *)
(* before it is known has its own look-up, during which the socket may be  *)
(* gone and the limiter have forgotten it.                                 *)
(***************************************************************************)
EXTENDS Integers, Sequences, FiniteSets

CONSTANTS
    Sockets,
    Limit,      \* AUCTION_SOCKET_BID_LIMIT, 8
    Window,     \* AUCTION_SOCKET_BID_WINDOW_MS, 2 000
    MaxTime     \* bound on the clock

ASSUME SocketGateAssumption ==
    /\ Limit \in Nat \ {0}
    /\ Window \in Nat \ {0}
    /\ MaxTime \in Nat

VARIABLES
    now,
    stage,      \* of each socket: "connecting", "ready" or "gone"
    waiting,    \* sockets with a bid whose identity is being looked up
    attempts,   \* attempts, the limiter's map
    taken,      \* when bids of the socket were passed on: what the limiter is for
    retryAt     \* when a bid refused last may be tried again, or NoRetry

gate == <<now, stage, waiting, attempts, taken, retryAt>>

NoRetry == 0

-----------------------------------------------------------------------------
\* The filter: the times after one of them, in their order.
After(times, cutoff) ==
    LET kept[n \in 0 .. Len(times)] ==
            IF n = 0 THEN <<>>
            ELSE IF times[n] > cutoff THEN Append(kept[n - 1], times[n])
            ELSE kept[n - 1]
    IN  kept[Len(times)]

\* Mutant: an attempt as old as the window still counts.
RecentWithCutoff(s) == After(attempts[s], now - Window - 1)

\* recentAttempts.
Recent(s) == After(attempts[s], now - Window)

\* consume, and what placeBid makes of it.
Consume(s) ==
    IF Len(Recent(s)) >= Limit
      THEN /\ attempts' = [attempts EXCEPT ![s] = Recent(s)]
           /\ retryAt' = [retryAt EXCEPT ![s] =
                  now + LET wait == Head(Recent(s)) + Window - now
                        IN  IF wait > 1 THEN wait ELSE 1]
           /\ UNCHANGED taken
      ELSE /\ attempts' = [attempts EXCEPT ![s] = Append(Recent(s), now)]
           /\ retryAt' = [retryAt EXCEPT ![s] = NoRetry]
           /\ taken' = [taken EXCEPT ![s] = Append(@, now)]

\* handleConnection finds the session of the access cookie.
Authenticate(s) ==
    /\ stage[s] = "connecting"
    /\ stage' = [stage EXCEPT ![s] = "ready"]
    /\ UNCHANGED <<now, waiting, attempts, taken, retryAt>>

\* The connection ends, or handleConnection ends it: handleDisconnect.
Disconnect(s) ==
    /\ stage[s] # "gone"
    /\ stage' = [stage EXCEPT ![s] = "gone"]
    /\ attempts' = [attempts EXCEPT ![s] = <<>>]
    /\ UNCHANGED <<now, waiting, taken, retryAt>>

\* placeBid of a socket whose identity is known runs through to the limiter.
PlaceBid(s) ==
    /\ stage[s] = "ready"
    /\ Consume(s)
    /\ UNCHANGED <<now, stage, waiting>>

\* placeBid of one whose identity is not known looks it up itself,
AskIdentity(s) ==
    /\ stage[s] = "connecting"
    /\ waiting' = waiting \cup {s}
    /\ UNCHANGED <<now, stage, attempts, taken, retryAt>>

\* and goes on, whether the socket is still there or not, or is refused.
LearnIdentity(s) ==
    /\ s \in waiting
    /\ waiting' = waiting \ {s}
    /\ \/ /\ Consume(s)
          /\ stage' = [stage EXCEPT ![s] = IF @ = "gone" THEN @ ELSE "ready"]
       \/ UNCHANGED <<stage, attempts, taken, retryAt>>
    /\ UNCHANGED now

Tick ==
    /\ now < MaxTime
    /\ now' = now + 1
    /\ UNCHANGED <<stage, waiting, attempts, taken, retryAt>>

-----------------------------------------------------------------------------
GateInit ==
    /\ now = 1
    /\ stage = [s \in Sockets |-> "connecting"]
    /\ waiting = {}
    /\ attempts = [s \in Sockets |-> <<>>]
    /\ taken = [s \in Sockets |-> <<>>]
    /\ retryAt = [s \in Sockets |-> NoRetry]

GateNext ==
    \/ Tick
    \/ \E s \in Sockets :
           \/ Authenticate(s) \/ Disconnect(s) \/ PlaceBid(s)
           \/ AskIdentity(s) \/ LearnIdentity(s)

-----------------------------------------------------------------------------
TakenWithin(s, t) == {n \in DOMAIN taken[s] : taken[s][n] \in t - Window + 1 .. t}

\* No window of time, wherever it begins, sees more bids of a connected socket
\* than the limit; and the time a refused bid is told to wait is as long as it
\* takes and no longer.
BidsAreLimited ==
    \A s \in Sockets :
        stage[s] # "gone" =>
            /\ \A t \in 1 .. MaxTime : Cardinality(TakenWithin(s, t)) <= Limit
            /\ retryAt[s] # NoRetry =>
                   (Cardinality(TakenWithin(s, now)) < Limit <=> now >= retryAt[s])

=============================================================================
