--------------------------- MODULE SessionProofs ---------------------------
(***************************************************************************)
(* Theorems about Session, for any numbers of sessions, tabs and rotations *)
(* and any lifetimes.                                                      *)
(***************************************************************************)
EXTENDS Session, TLAPS

-----------------------------------------------------------------------------
(* Types.                                                                  *)

LEMMA IssuedPairs ==
    ASSUME TypeOK, NEW s \in Sid, NEW at \in Nat
    PROVE  /\ IssuePair(s, at) \in Pair
           /\ IssuePair(s, at).session = s
           /\ IssuePair(s, at).nr = issued[s] + 1
           /\ IssuePair(s, at).refreshUntil = at + RefreshTtl
  BY SessionAssumption DEF IssuePair, Pair, TypeOK

LEMMA IdleType == Idle \in Request
  BY DEF Idle, Request, Stage

\* A request that goes on keeps its type.
LEMMA GoesType ==
    ASSUME request \in [Tabs -> Request], NEW t \in Tabs, NEW stage \in Stage,
           Goes(t, stage)
    PROVE  request' \in [Tabs -> Request]
<1>1. [request[t] EXCEPT !.stage = stage] \in Request
  BY DEF Request
<1> QED  BY <1>1 DEF Goes

\* The session a request under way is about.
LEMMA PairOfRequest ==
    ASSUME TypeOK, NEW t \in Tabs, request[t].pair # NoPair
    PROVE  request[t].pair \in Pair /\ request[t].pair.session \in Sid
<1>1. request[t] \in Request
  BY DEF TypeOK
<1>2. request[t].pair \in Pair
  BY <1>1 DEF Request
<1> QED  BY <1>2 DEF Pair

-----------------------------------------------------------------------------
(* The inductive invariant.                                                *)

\* A stored row is about its own session, and expires when its token does.
\* Nothing was presented that its session did not issue.
RowsMatchTokens ==
    /\ \A s \in Sid : row[s] # NoRow =>
           /\ row[s].hash.session = s
           /\ row[s].hash.nr <= issued[s]
           /\ row[s].expiresAt = row[s].hash.refreshUntil
    /\ \A r \in rotated : r[1].nr <= issued[r[1].session]

\* What a refresh saw is the session's row, or its token was rotated since.
SeenIsPast(t) ==
    LET pair == request[t].pair
        r == row[pair.session]
    IN  /\ request[t].seen \in Row
        /\ \/ pair \in Presented
           \/ /\ request[t].seen.hash = pair
              /\ r.hash = pair
              /\ r.expiresAt = request[t].seen.expiresAt
              /\ request[t].seen.revoked => r.revoked

RequestsAreFounded ==
    \A t \in Tabs :
        /\ request[t].stage \notin {"idle", "unauthorized"} => request[t].pair # NoPair
        /\ request[t].stage = "looked" => SeenIsPast(t)
        /\ request[t].stage = "revoking" => request[t].pair \in Presented
        /\ request[t].stage = "rotating" => request[t].now <= clock

IInv == TypeOK /\ OneTokenIsCurrent /\ RowsMatchTokens /\ RequestsAreFounded
        /\ RefusalHasReason

-----------------------------------------------------------------------------
(* What the steps do to the rows.                                          *)

\* A session's row is revoked, whoever does it.
Revokes(s) ==
    /\ row[s] # NoRow
    /\ row' = [row EXCEPT ![s].revoked = TRUE]
    /\ UNCHANGED <<clock, issued, rotated>>

Creates(s) ==
    /\ row[s] = NoRow
    /\ row' = [row EXCEPT ![s] = [hash |-> IssuePair(s, clock), revoked |-> FALSE,
                   expiresAt |-> IssuePair(s, clock).refreshUntil]]
    /\ issued' = [issued EXCEPT ![s] = @ + 1]
    /\ UNCHANGED <<clock, rotated>>

\* The stored token gives way to one issued at the given time.
Renews(s, at) ==
    LET new == IssuePair(s, at)
    IN  /\ row[s] # NoRow
        /\ ~row[s].revoked
        /\ row' = [row EXCEPT ![s].hash = new, ![s].expiresAt = new.refreshUntil]
        /\ issued' = [issued EXCEPT ![s] = @ + 1]
        /\ rotated' = rotated \cup {<<row[s].hash, new>>}
        /\ UNCHANGED clock

LeavesRows ==
    /\ UNCHANGED <<row, issued, rotated>>
    /\ clock' \in Time
    /\ clock <= clock'

\* Every step is one of these four to the rows.
RowStep ==
    \/ LeavesRows
    \/ \E s \in Sid : Revokes(s) \/ Creates(s)
    \/ \E s \in Sid, at \in Nat : Renews(s, at)

LEMMA KnownRequests ==
    ASSUME IInv, NEW t \in Tabs, request[t].pair # NoPair
    PROVE  Known(request[t].pair)
  BY DEF IInv, OneTokenIsCurrent, Circulating

LEMMA StepsOfRows ==
    ASSUME IInv, [Next]_vars
    PROVE  RowStep
<1>1. clock \in Nat /\ clock \in Time /\ Time \subseteq Nat
  BY SessionAssumption DEF IInv, TypeOK, Time
<1>2. ASSUME UNCHANGED <<clock, row, issued, rotated>>
      PROVE  LeavesRows
  BY <1>1, <1>2 DEF LeavesRows, Time
<1>3. CASE UNCHANGED vars
  BY <1>2, <1>3 DEF vars, RowStep
<1>4. CASE Tick
  BY <1>1, <1>4, SessionAssumption DEF Tick, LeavesRows, RowStep, Time
<1>5. ASSUME NEW t \in Tabs, Login(t)
      PROVE  RowStep
  BY <1>5 DEF Login, Creates, RowStep
<1>6. ASSUME NEW t \in Tabs,
             LookUp(t) \/ Judge(t) \/ FindUnauthorized(t) \/ SendRefresh(t)
                 \/ SendLogout(t) \/ Receive(t) \/ Lose(t)
      PROVE  RowStep
  BY <1>2, <1>6 DEF LookUp, Judge, FindUnauthorized, SendRefresh, SendLogout,
     Receive, Lose, RowStep
<1>7. ASSUME NEW t \in Tabs, Revoke(t) \/ ServeLogout(t)
      PROVE  RowStep
  <2>1. request[t].pair # NoPair
    BY <1>7 DEF IInv, RequestsAreFounded, Revoke, ServeLogout
  <2>2. request[t].pair.session \in Sid
    BY <2>1, PairOfRequest DEF IInv
  <2>3. row[request[t].pair.session] # NoRow
    BY <2>1, KnownRequests DEF Known
  <2> QED  BY <1>7, <2>2, <2>3 DEF Revoke, ServeLogout, Revokes, RowStep
<1>8. ASSUME NEW t \in Tabs, Rotate(t)
      PROVE  RowStep
  <2> DEFINE old == request[t].pair
  <2>1. old # NoPair
    BY <1>8 DEF IInv, RequestsAreFounded, Rotate
  <2>2. old.session \in Sid
    BY <2>1, PairOfRequest DEF IInv
  <2>3. row[old.session] # NoRow
    BY <2>1, KnownRequests DEF Known
  <2>4. CASE ~Rotates(t)
    BY <1>2, <1>8, <2>4 DEF Rotate, RowStep
  <2>5. CASE Rotates(t)
    <3>1. PICK at \in request[t].now .. clock :
              LET new == IssuePair(old.session, at)
              IN  /\ row' = [row EXCEPT ![old.session].hash = new,
                                        ![old.session].expiresAt = new.refreshUntil]
                  /\ rotated' = rotated \cup {<<old, new>>}
      BY <1>8, <2>5 DEF Rotate
    <3>2. at \in Nat
      BY <1>1 DEF IInv, TypeOK, Request
    <3>3. /\ old = row[old.session].hash
          /\ ~row[old.session].revoked
      BY <2>5 DEF Rotates
    <3>4. issued' = [issued EXCEPT ![old.session] = @ + 1] /\ clock' = clock
      BY <1>8, <2>5 DEF Rotate
    <3>5. Renews(old.session, at)
      BY <2>3, <3>1, <3>3, <3>4 DEF Renews
    <3> QED  BY <2>2, <3>2, <3>5 DEF RowStep
  <2> QED  BY <2>4, <2>5
<1> QED  BY <1>3, <1>4, <1>5, <1>6, <1>7, <1>8 DEF Next

LEMMA RowTypes ==
    ASSUME IInv, RowStep
    PROVE  /\ clock' \in Time
           /\ row' \in [Sid -> Row \cup {NoRow}]
           /\ issued' \in [Sid -> Nat]
           /\ rotated' \subseteq Pair \X Pair
<1>1. TypeOK
  BY DEF IInv
<1>2. CASE LeavesRows
  BY <1>1, <1>2 DEF LeavesRows, TypeOK
<1>3. ASSUME NEW s \in Sid, Revokes(s)
      PROVE  row' \in [Sid -> Row \cup {NoRow}]
  <2>1. row[s] \in Row
    BY <1>1, <1>3 DEF Revokes, TypeOK
  <2>2. [row[s] EXCEPT !.revoked = TRUE] \in Row
    BY <2>1 DEF Row
  <2> QED  BY <1>1, <1>3, <2>2 DEF Revokes, TypeOK
<1>4. ASSUME NEW s \in Sid, Creates(s)
      PROVE  row' \in [Sid -> Row \cup {NoRow}] /\ issued' \in [Sid -> Nat]
  <2> DEFINE pair == IssuePair(s, clock)
  <2>1. clock \in Nat
    BY <1>1, SessionAssumption DEF TypeOK, Time
  <2>2. pair \in Pair
    BY <1>1, <2>1, IssuedPairs
  <2>3. pair.refreshUntil \in Nat
    BY <2>2 DEF Pair
  <2> HIDE DEF pair
  <2>4. [hash |-> pair, revoked |-> FALSE, expiresAt |-> pair.refreshUntil] \in Row
    BY <2>2, <2>3 DEF Row
  <2>5. row' = [row EXCEPT ![s] = [hash |-> pair, revoked |-> FALSE,
                                   expiresAt |-> pair.refreshUntil]]
    BY <1>4 DEF Creates, pair
  <2>6. row' \in [Sid -> Row \cup {NoRow}]
    BY <1>1, <2>4, <2>5 DEF TypeOK
  <2>7. issued' \in [Sid -> Nat]
    BY <1>1, <1>4 DEF Creates, TypeOK
  <2> QED  BY <2>6, <2>7
<1>5. ASSUME NEW s \in Sid, NEW at \in Nat, Renews(s, at)
      PROVE  /\ row' \in [Sid -> Row \cup {NoRow}]
             /\ issued' \in [Sid -> Nat]
             /\ rotated' \subseteq Pair \X Pair
  <2> DEFINE pair == IssuePair(s, at)
  <2>1. pair \in Pair
    BY <1>1, IssuedPairs
  <2>2. pair.refreshUntil \in Nat
    BY <2>1 DEF Pair
  <2>3. row' = [row EXCEPT ![s].hash = pair, ![s].expiresAt = pair.refreshUntil]
    BY <1>5 DEF Renews
  <2>4. rotated' = rotated \cup {<<row[s].hash, pair>>}
    BY <1>5 DEF Renews
  <2> HIDE DEF pair
  <2>5. row[s] \in Row
    BY <1>1, <1>5 DEF Renews, TypeOK
  <2>6. [row[s] EXCEPT !.hash = pair, !.expiresAt = pair.refreshUntil] \in Row
    BY <2>1, <2>2, <2>5 DEF Row
  <2>7. row[s].hash \in Pair
    BY <2>5 DEF Row
  <2>8. row' \in [Sid -> Row \cup {NoRow}]
    <3> DEFINE new == [row[s] EXCEPT !.hash = pair, !.expiresAt = pair.refreshUntil]
    <3>1. row' = [row EXCEPT ![s] = new]
      BY <1>1, <2>3 DEF TypeOK
    <3>2. new \in Row
      BY <2>6
    <3> HIDE DEF new
    <3> QED  BY <1>1, <3>1, <3>2 DEF TypeOK
  <2>9. issued' \in [Sid -> Nat]
    BY <1>1, <1>5 DEF Renews, TypeOK
  <2>10. <<row[s].hash, pair>> \in Pair \X Pair
    BY <2>1, <2>7
  <2>11. rotated' \subseteq Pair \X Pair
    BY <1>1, <2>4, <2>10 DEF TypeOK
  <2> QED  BY <2>8, <2>9, <2>11
<1> QED
  BY <1>1, <1>2, <1>3, <1>4, <1>5 DEF RowStep, Revokes, Creates, Renews, TypeOK

\* Time and presentations only grow; a row keeps token and expiry, and stays
\* revoked once it is, unless its token was presented in the meantime.
Onward ==
    /\ clock <= clock'
    /\ Presented \subseteq Presented'
    /\ \A s \in Sid : row[s] # NoRow =>
           /\ row'[s] # NoRow
           /\ \/ row[s].hash \in Presented'
              \/ /\ row'[s].hash = row[s].hash
                 /\ row'[s].expiresAt = row[s].expiresAt
                 /\ row[s].revoked => row'[s].revoked

LEMMA RowsGoOnward ==
    ASSUME IInv, RowStep
    PROVE  Onward
<1>1. TypeOK /\ clock \in Nat
  BY SessionAssumption DEF IInv, TypeOK, Time
<1>2. CASE LeavesRows
  BY <1>2 DEF LeavesRows, Onward, Presented
<1>3. ASSUME NEW s \in Sid, Revokes(s)
      PROVE  Onward
  <2>1. row[s] \in Row
    BY <1>1, <1>3 DEF Revokes, TypeOK
  <2>2. [row[s] EXCEPT !.revoked = TRUE] \in Row
    BY <2>1 DEF Row
  <2>3. row'[s] # NoRow /\ row'[s].revoked
        /\ row'[s].hash = row[s].hash /\ row'[s].expiresAt = row[s].expiresAt
    BY <1>1, <1>3, <2>1, <2>2, SessionAssumption DEF Revokes, TypeOK, Row
  <2>4. \A o \in Sid \ {s} : row'[o] = row[o]
    BY <1>1, <1>3 DEF Revokes, TypeOK
  <2> QED  BY <1>1, <1>3, <2>3, <2>4 DEF Revokes, Onward, Presented
<1>4. ASSUME NEW s \in Sid, Creates(s)
      PROVE  Onward
  <2>1. \A o \in Sid \ {s} : row'[o] = row[o]
    BY <1>1, <1>4 DEF Creates, TypeOK
  <2> QED  BY <1>1, <1>4, <2>1 DEF Creates, Onward, Presented
<1>5. ASSUME NEW s \in Sid, NEW at \in Nat, Renews(s, at)
      PROVE  Onward
  <2> DEFINE pair == IssuePair(s, at)
  <2>1. \A o \in Sid \ {s} : row'[o] = row[o]
    BY <1>1, <1>5 DEF Renews, TypeOK
  <2>2. rotated' = rotated \cup {<<row[s].hash, pair>>}
    BY <1>5 DEF Renews, pair
  <2> HIDE DEF pair
  <2>3. row[s].hash \in Presented' /\ Presented \subseteq Presented'
    <3> DEFINE renewal == <<row[s].hash, pair>>
    <3>1. renewal \in rotated' /\ renewal[1] = row[s].hash
      BY <2>2
    <3>2. rotated \subseteq rotated'
      BY <2>2
    <3> QED  BY <3>1, <3>2 DEF Presented
  <2>4. row'[s] # NoRow
    <3>1. row[s] \in Row /\ row[s] # NoRow
      BY <1>1, <1>5 DEF Renews, TypeOK
    <3>2. pair \in Pair /\ pair.refreshUntil \in Nat
      BY <1>1, IssuedPairs, SessionAssumption DEF pair
    <3>3. row'[s] = [row[s] EXCEPT !.hash = pair, !.expiresAt = pair.refreshUntil]
      BY <1>1, <1>5 DEF Renews, TypeOK, pair
    <3>4. row'[s] \in Row
      BY <3>1, <3>2, <3>3 DEF Row
    <3> QED  BY <3>4, SessionAssumption
  <2>5. clock' = clock
    BY <1>5 DEF Renews
  <2> QED  BY <1>1, <2>1, <2>3, <2>4, <2>5 DEF Onward
<1> QED  BY <1>2, <1>3, <1>4, <1>5 DEF RowStep

\* A token of now is known after the step.
KnownNext(pair) ==
    /\ row'[pair.session] # NoRow
    /\ pair = row'[pair.session].hash \/ pair \in Presented'

LEMMA KnownStays ==
    ASSUME Onward, NEW pair \in Pair, Known(pair)
    PROVE  KnownNext(pair)
<1>1. pair.session \in Sid
  BY DEF Pair
<1>2. row[pair.session] # NoRow /\ row'[pair.session] # NoRow
  BY <1>1 DEF Known, Onward
<1>3. pair = row[pair.session].hash \/ pair \in Presented
  BY DEF Known
<1>4. pair = row'[pair.session].hash \/ pair \in Presented'
  BY <1>1, <1>2, <1>3 DEF Onward
<1> QED  BY <1>2, <1>4 DEF KnownNext

-----------------------------------------------------------------------------
(* One token is current.                                                   *)

OneSuccessor == \A a, b \in rotated : a[1] = b[1] => a = b
StoredIsUnused == \A s \in Sid : row[s] # NoRow => row[s].hash \notin Presented

\* A token issued now is new: its number is higher than every one presented.
LEMMA FreshToken ==
    ASSUME IInv, NEW s \in Sid, NEW at \in Nat
    PROVE  IssuePair(s, at) \notin Presented
<1> DEFINE pair == IssuePair(s, at)
<1>1. pair.session = s /\ pair.nr = issued[s] + 1
  BY IssuedPairs DEF IInv
<1> HIDE DEF pair
<1>2. issued[s] \in Nat
  BY DEF IInv, TypeOK
<1>3. ASSUME NEW r \in rotated, r[1] = pair
      PROVE  FALSE
  <2>1. r[1].nr <= issued[r[1].session]
    BY DEF IInv, RowsMatchTokens
  <2> QED  BY <1>1, <1>2, <1>3, <2>1
<1> QED  BY <1>3 DEF Presented, pair

LEMMA RevokingKeepsTokens ==
    ASSUME IInv, NEW s \in Sid, Revokes(s)
    PROVE  OneSuccessor' /\ StoredIsUnused' /\ RowsMatchTokens'
<1>1. TypeOK /\ OneSuccessor /\ StoredIsUnused /\ RowsMatchTokens
  BY DEF IInv, OneTokenIsCurrent, OneSuccessor, StoredIsUnused
<1>2. row[s] \in Row /\ row[s] # NoRow
  BY <1>1 DEF Revokes, TypeOK
<1>3. row'[s].hash = row[s].hash /\ row'[s].expiresAt = row[s].expiresAt
  BY <1>1, <1>2 DEF Revokes, TypeOK, Row
<1>4. \A o \in Sid \ {s} : row'[o] = row[o]
  BY <1>1 DEF Revokes, TypeOK
<1>5. rotated' = rotated /\ issued' = issued
  BY DEF Revokes
<1>6. OneSuccessor'
  BY <1>1, <1>5 DEF OneSuccessor
<1>7. StoredIsUnused'
  BY <1>1, <1>2, <1>3, <1>4, <1>5 DEF StoredIsUnused, Presented
<1>8. RowsMatchTokens'
  BY <1>1, <1>2, <1>3, <1>4, <1>5 DEF RowsMatchTokens
<1> QED  BY <1>6, <1>7, <1>8

LEMMA CreatingKeepsTokens ==
    ASSUME IInv, NEW s \in Sid, Creates(s)
    PROVE  OneSuccessor' /\ StoredIsUnused' /\ RowsMatchTokens'
<1> DEFINE pair == IssuePair(s, clock)
<1>1. TypeOK /\ OneSuccessor /\ StoredIsUnused /\ RowsMatchTokens
  BY DEF IInv, OneTokenIsCurrent, OneSuccessor, StoredIsUnused
<1>2. clock \in Nat
  BY <1>1, SessionAssumption DEF TypeOK, Time
<1>3. pair \in Pair /\ pair.session = s /\ pair.nr = issued[s] + 1
  BY <1>1, <1>2, IssuedPairs
<1>4. pair \notin Presented
  BY <1>2, FreshToken
<1>5. row' = [row EXCEPT ![s] = [hash |-> pair, revoked |-> FALSE,
                                 expiresAt |-> pair.refreshUntil]]
  BY DEF Creates
<1> HIDE DEF pair
<1>6. row'[s].hash = pair /\ row'[s].expiresAt = pair.refreshUntil
  BY <1>1, <1>5 DEF TypeOK
<1>7. \A o \in Sid \ {s} : row'[o] = row[o] /\ issued'[o] = issued[o]
  BY <1>1, <1>5 DEF Creates, TypeOK
<1>8. rotated' = rotated /\ issued'[s] = issued[s] + 1 /\ issued[s] \in Nat
  BY <1>1 DEF Creates, TypeOK
<1>9. OneSuccessor'
  BY <1>1, <1>8 DEF OneSuccessor
<1>10. StoredIsUnused'
  BY <1>1, <1>4, <1>6, <1>7, <1>8 DEF StoredIsUnused, Presented
<1>11. RowsMatchTokens'
  <2>1. ASSUME NEW o \in Sid, row'[o] # NoRow
        PROVE  /\ row'[o].hash.session = o
               /\ row'[o].hash.nr <= issued'[o]
               /\ row'[o].expiresAt = row'[o].hash.refreshUntil
    <3>1. CASE o = s
      BY <1>3, <1>6, <1>8, <3>1
    <3>2. CASE o # s
      BY <1>1, <1>7, <2>1, <3>2 DEF RowsMatchTokens
    <3> QED  BY <3>1, <3>2
  <2>2. ASSUME NEW r \in rotated'
        PROVE  r[1].nr <= issued'[r[1].session]
    <3>1. r \in rotated /\ r[1].session \in Sid /\ r[1].nr \in Nat
      BY <1>1, <1>8 DEF TypeOK, Pair
    <3>2. r[1].nr <= issued[r[1].session]
      BY <1>1, <3>1 DEF RowsMatchTokens
    <3> QED  BY <1>7, <1>8, <3>1, <3>2
  <2> QED  BY <2>1, <2>2 DEF RowsMatchTokens
<1> QED  BY <1>9, <1>10, <1>11

LEMMA RenewingKeepsTokens ==
    ASSUME IInv, NEW s \in Sid, NEW at \in Nat, Renews(s, at)
    PROVE  OneSuccessor' /\ StoredIsUnused' /\ RowsMatchTokens'
<1> DEFINE pair == IssuePair(s, at)
           old == row[s].hash
<1>1. TypeOK /\ OneSuccessor /\ StoredIsUnused /\ RowsMatchTokens
  BY DEF IInv, OneTokenIsCurrent, OneSuccessor, StoredIsUnused
<1>2. pair \in Pair /\ pair.session = s /\ pair.nr = issued[s] + 1
  BY <1>1, IssuedPairs
<1>3. pair \notin Presented
  BY FreshToken
<1>4. row' = [row EXCEPT ![s].hash = pair, ![s].expiresAt = pair.refreshUntil]
      /\ rotated' = rotated \cup {<<old, pair>>}
  BY DEF Renews
<1> HIDE DEF pair
<1>5. row[s] \in Row /\ row[s] # NoRow /\ old \in Pair
  BY <1>1 DEF Renews, TypeOK, Row
<1>6. row'[s].hash = pair /\ row'[s].expiresAt = pair.refreshUntil
  BY <1>1, <1>4, <1>5 DEF TypeOK, Row
<1>7. \A o \in Sid \ {s} : row'[o] = row[o] /\ issued'[o] = issued[o]
  BY <1>1, <1>4 DEF Renews, TypeOK
<1>8. issued'[s] = issued[s] + 1 /\ issued[s] \in Nat
  BY <1>1 DEF Renews, TypeOK
<1>9. old \notin Presented /\ old.session = s /\ old.nr <= issued[s] /\ old.nr \in Nat
  BY <1>1, <1>5 DEF StoredIsUnused, RowsMatchTokens, Pair
<1>10. Presented' = Presented \cup {old}
  <2> DEFINE renewal == <<old, pair>>
  <2>1. renewal[1] = old /\ rotated' = rotated \cup {renewal}
    BY <1>4
  <2> HIDE DEF renewal
  <2> QED  BY <2>1 DEF Presented
<1>11. OneSuccessor'
  <2>1. ASSUME NEW a \in rotated', NEW b \in rotated', a[1] = b[1]
        PROVE  a = b
    <3>1. CASE a \in rotated /\ b \in rotated
      BY <1>1, <2>1, <3>1 DEF OneSuccessor
    <3>2. \A r \in rotated : r[1] # old
      BY <1>9 DEF Presented
    <3>3. \A r \in rotated' \ rotated : r = <<old, pair>> /\ r[1] = old
      BY <1>4
    <3> QED  BY <2>1, <3>1, <3>2, <3>3
  <2> QED  BY <2>1 DEF OneSuccessor
<1>12. StoredIsUnused'
  <2>1. ASSUME NEW o \in Sid, row'[o] # NoRow
        PROVE  row'[o].hash \notin Presented'
    <3>1. CASE o = s
      BY <1>2, <1>3, <1>6, <1>8, <1>9, <1>10, <3>1
    <3>2. CASE o # s
      <4>1. row'[o] = row[o] /\ row[o].hash \notin Presented
        BY <1>1, <1>7, <2>1, <3>2 DEF StoredIsUnused
      <4>2. row[o].hash.session = o
        BY <1>1, <2>1, <4>1 DEF RowsMatchTokens
      <4> QED  BY <1>9, <1>10, <3>2, <4>1, <4>2
    <3> QED  BY <3>1, <3>2
  <2> QED  BY <2>1 DEF StoredIsUnused
<1>13. RowsMatchTokens'
  <2>1. ASSUME NEW o \in Sid, row'[o] # NoRow
        PROVE  /\ row'[o].hash.session = o
               /\ row'[o].hash.nr <= issued'[o]
               /\ row'[o].expiresAt = row'[o].hash.refreshUntil
    <3>1. CASE o = s
      BY <1>2, <1>6, <1>8, <3>1
    <3>2. CASE o # s
      BY <1>1, <1>7, <2>1, <3>2 DEF RowsMatchTokens
    <3> QED  BY <3>1, <3>2
  <2>2. ASSUME NEW q \in Presented'
        PROVE  q.nr <= issued'[q.session]
    <3>1. CASE q = old
      BY <1>8, <1>9, <3>1
    <3>2. CASE q \in Presented
      <4>1. PICK r \in rotated : q = r[1]
        BY <3>2 DEF Presented
      <4>2. q.nr <= issued[q.session]
        BY <1>1, <4>1 DEF RowsMatchTokens
      <4>3. q.session \in Sid /\ q.nr \in Nat
        BY <1>1, <4>1 DEF TypeOK, Pair
      <4> QED  BY <1>7, <1>8, <4>2, <4>3
    <3> QED  BY <1>10, <3>1, <3>2
  <2> QED  BY <2>1, <2>2 DEF RowsMatchTokens, Presented
<1> QED  BY <1>11, <1>12, <1>13

LEMMA TokensStayUnique ==
    ASSUME IInv, RowStep
    PROVE  OneSuccessor' /\ StoredIsUnused' /\ RowsMatchTokens'
<1>1. CASE LeavesRows
  BY <1>1 DEF LeavesRows, IInv, OneTokenIsCurrent, OneSuccessor, StoredIsUnused,
     RowsMatchTokens, Presented
<1> QED
  BY <1>1, RevokingKeepsTokens, CreatingKeepsTokens, RenewingKeepsTokens DEF RowStep

-----------------------------------------------------------------------------
(* Requests and cookies.                                                   *)

\* All that is known of one request, and of the cookies.
Founded(t) ==
    LET pair == request[t].pair
    IN  /\ request[t] \in Request
        /\ pair # NoPair => Known(pair)
        /\ request[t].stage \notin {"idle", "unauthorized"} => pair # NoPair
        /\ request[t].stage = "looked" => SeenIsPast(t)
        /\ request[t].stage = "revoking" => pair \in Presented
        /\ request[t].stage = "rotating" => request[t].now <= clock
        /\ request[t].stage = "refused" =>
               ~Live(row[pair.session], clock) \/ pair \in Presented

JarIsKnown == jar \in Pair \cup {NoPair} /\ (jar # NoPair => Known(jar))

\* The invariant, request by request.
Parts ==
    /\ clock \in Time
    /\ row \in [Sid -> Row \cup {NoRow}]
    /\ issued \in [Sid -> Nat]
    /\ rotated \subseteq Pair \X Pair
    /\ loggedOut \subseteq Sid
    /\ OneSuccessor /\ StoredIsUnused /\ RowsMatchTokens
    /\ JarIsKnown
    /\ request = [t \in Tabs |-> request[t]]
    /\ \A t \in Tabs : Founded(t)

LEMMA InvByParts == IInv <=> Parts
<1>1. (\A pair \in Circulating : Known(pair)) <=>
          /\ jar # NoPair => Known(jar)
          /\ \A t \in Tabs : request[t].pair # NoPair => Known(request[t].pair)
  BY DEF Circulating
<1>2. request \in [Tabs -> Request] <=>
          request = [t \in Tabs |-> request[t]] /\ \A t \in Tabs : request[t] \in Request
  OBVIOUS
<1> QED
  BY <1>1, <1>2 DEF IInv, TypeOK, OneTokenIsCurrent, OneSuccessor, StoredIsUnused,
     JarIsKnown, Founded, RequestsAreFounded, RefusalHasReason, Parts

\* What is not over for a row, or for a token, was not over before.
LEMMA OverStaysOver ==
    ASSUME IInv, RowStep, Onward, NEW pair \in Pair, Known(pair),
           ~Live(row[pair.session], clock) \/ pair \in Presented
    PROVE  ~Live(row'[pair.session], clock') \/ pair \in Presented'
<1> DEFINE r == row[pair.session]
           q == row'[pair.session]
<1>1. pair.session \in Sid
  BY DEF Pair
<1>2. pair \in Presented => pair \in Presented'
  BY DEF Onward
<1>3. ASSUME pair = r.hash, ~Live(r, clock), pair \notin Presented'
      PROVE  ~Live(q, clock')
  <2>1. r # NoRow /\ q.expiresAt = r.expiresAt /\ (r.revoked => q.revoked)
    BY <1>1, <1>3 DEF Known, Onward
  <2>2. r \in Row /\ clock \in Nat /\ clock' \in Nat /\ clock <= clock'
    BY <1>1, <2>1, RowTypes, SessionAssumption DEF IInv, TypeOK, Time, Onward
  <2>3. r.expiresAt \in Nat
    BY <2>2 DEF Row
  <2> QED  BY <1>3, <2>1, <2>2, <2>3 DEF Live
<1> QED  BY <1>2, <1>3 DEF Known

LEMMA UntouchedStaysFounded ==
    ASSUME IInv, RowStep, Onward, NEW t \in Tabs, request'[t] = request[t]
    PROVE  Founded(t)'
<1> DEFINE pair == request[t].pair
<1>1. Founded(t)
  BY InvByParts DEF Parts
<1>2. request'[t] \in Request
  BY <1>1 DEF Founded
<1>3. pair # NoPair => pair \in Pair /\ pair.session \in Sid
  BY <1>1 DEF Founded, Request, Pair
<1>4. pair # NoPair => KnownNext(pair)
  BY <1>1, <1>3, KnownStays DEF Founded
<1>5. request[t].stage \notin {"idle", "unauthorized"} => pair # NoPair
  BY <1>1 DEF Founded
<1>6. Presented \subseteq Presented' /\ clock <= clock'
  BY DEF Onward
<1>7. request[t].stage = "looked" => SeenIsPast(t)'
  <2> SUFFICES ASSUME request[t].stage = "looked"
               PROVE  SeenIsPast(t)'
    OBVIOUS
  <2>1. SeenIsPast(t) /\ pair # NoPair /\ Known(pair)
    BY <1>1 DEF Founded
  <2> QED  BY <1>3, <1>6, <2>1 DEF SeenIsPast, Known, Onward
<1>8. request[t].stage = "rotating" => request[t].now <= clock'
  <2>1. request[t].now \in Nat /\ clock \in Nat /\ clock' \in Nat
    BY <1>1, RowTypes, SessionAssumption DEF Founded, Request, IInv, TypeOK, Time
  <2> QED  BY <1>1, <1>6, <2>1 DEF Founded
<1>9. request[t].stage = "refused" =>
          ~Live(row'[pair.session], clock') \/ pair \in Presented'
  BY <1>1, <1>3, OverStaysOver DEF Founded
<1> QED
  BY <1>1, <1>2, <1>4, <1>5, <1>6, <1>7, <1>8, <1>9 DEF Founded, Known, KnownNext

\* A step of one tab: the others' requests stay, and so do the cookies unless
\* an answer is received.
TabStep(t) ==
    /\ request' = [request EXCEPT ![t] = request'[t]]
    /\ \A o \in Tabs \ {t} : request'[o] = request[o]
    /\ loggedOut' \subseteq Sid
    /\ JarIsKnown'
    /\ Founded(t)'

LEMMA GoesOneTab ==
    ASSUME IInv, NEW t \in Tabs, NEW stage \in Stage, Goes(t, stage)
    PROVE  /\ request' = [request EXCEPT ![t] = request'[t]]
           /\ \A o \in Tabs \ {t} : request'[o] = request[o]
           /\ request'[t] = [request[t] EXCEPT !.stage = stage]
           /\ request'[t] \in Request
           /\ request'[t].stage = stage
           /\ request'[t].pair = request[t].pair
<1>1. request \in [Tabs -> Request]
  BY DEF IInv, TypeOK
<1> DEFINE new == [request[t] EXCEPT !.stage = stage]
<1>2. new \in Request /\ new.stage = stage /\ new.pair = request[t].pair
  BY <1>1 DEF Request
<1>3. request' = [request EXCEPT ![t] = new]
  BY <1>1 DEF Goes
<1> HIDE DEF new
<1>4. request'[t] = new /\ \A o \in Tabs \ {t} : request'[o] = request[o]
  BY <1>1, <1>3
<1>5. request' = [request EXCEPT ![t] = request'[t]]
  BY <1>3, <1>4
<1> QED  BY <1>2, <1>4, <1>5 DEF new

LEMMA JarStays ==
    ASSUME IInv, Onward, jar' = jar
    PROVE  JarIsKnown'
<1>1. JarIsKnown
  BY InvByParts DEF Parts
<1>2. jar # NoPair => KnownNext(jar)
  BY <1>1, KnownStays DEF JarIsKnown
<1> QED  BY <1>1, <1>2 DEF JarIsKnown, Known, KnownNext

\* A request that does not know a pair yet, or no longer, stands on nothing.
LEMMA IdleIsFounded ==
    ASSUME IInv, NEW t \in Tabs, request' = [request EXCEPT ![t] = Idle]
    PROVE  /\ request' = [request EXCEPT ![t] = request'[t]]
           /\ \A o \in Tabs \ {t} : request'[o] = request[o]
           /\ Founded(t)'
<1>1. request \in [Tabs -> Request]
  BY DEF IInv, TypeOK
<1>2. request'[t] = Idle /\ \A o \in Tabs \ {t} : request'[o] = request[o]
  BY <1>1
<1>3. Founded(t)'
  BY <1>2, IdleType DEF Founded, Idle
<1> QED  BY <1>2, <1>3

LEMMA LoginTab ==
    ASSUME IInv, RowStep, Onward, NEW t \in Tabs, Login(t)
    PROVE  TabStep(t)
<1>1. TypeOK
  BY DEF IInv
<1>2. PICK s \in Sid :
          LET pair == IssuePair(s, clock)
          IN  /\ row[s] = NoRow
              /\ row' = [row EXCEPT ![s] = [hash |-> pair, revoked |-> FALSE,
                                            expiresAt |-> pair.refreshUntil]]
              /\ request' = [request EXCEPT ![t] =
                     [Idle EXCEPT !.stage = "granted", !.pair = pair]]
  BY DEF Login
<1> DEFINE pair == IssuePair(s, clock)
           new == [Idle EXCEPT !.stage = "granted", !.pair = pair]
<1>3. pair \in Pair /\ pair.session = s
  BY <1>1, IssuedPairs, SessionAssumption DEF TypeOK, Time
<1> HIDE DEF pair
<1>4. new \in Request /\ new.stage = "granted" /\ new.pair = pair
  BY <1>3, IdleType DEF Request, Stage, Idle
<1>5. request' = [request EXCEPT ![t] = new]
  BY <1>2 DEF pair
<1> HIDE DEF new
<1>6. request'[t] = new /\ \A o \in Tabs \ {t} : request'[o] = request[o]
  BY <1>1, <1>5 DEF TypeOK
<1>7. KnownNext(pair)
  <2>1. row' = [row EXCEPT ![s] = [hash |-> pair, revoked |-> FALSE,
                                   expiresAt |-> pair.refreshUntil]]
    BY <1>2 DEF pair
  <2>2. row'[s] = [hash |-> pair, revoked |-> FALSE, expiresAt |-> pair.refreshUntil]
    BY <1>1, <2>1 DEF TypeOK
  <2>3. row'[s] \in Row
    BY <1>3, <2>2 DEF Row, Pair
  <2>4. row'[s] # NoRow
    BY <2>3, SessionAssumption
  <2>5. row'[s].hash = pair
    BY <2>2
  <2> QED  BY <1>3, <2>4, <2>5 DEF KnownNext
<1>8. Founded(t)'
  BY <1>3, <1>4, <1>6, <1>7, SessionAssumption DEF Founded, Known, KnownNext
<1>9. JarIsKnown' /\ loggedOut' \subseteq Sid
  BY <1>1, JarStays DEF Login, TypeOK
<1> QED  BY <1>5, <1>6, <1>8, <1>9 DEF TabStep

\* Steps that only move a request to a stage that asks for no more.
LEMMA PlainTab ==
    ASSUME IInv, RowStep, Onward, NEW t \in Tabs,
           NEW stage \in {"unauthorized", "cleared"}, Goes(t, stage), jar' = jar,
           loggedOut' \subseteq Sid,
           stage = "cleared" => request[t].pair # NoPair
    PROVE  TabStep(t)
<1> DEFINE pair == request[t].pair
<1>1. stage \in Stage
  BY DEF Stage
<1>2. Founded(t)
  BY InvByParts DEF Parts
<1>3. pair # NoPair => KnownNext(pair)
  BY <1>2, KnownStays DEF Founded, Request
<1>4. Founded(t)'
  BY <1>1, <1>2, <1>3, GoesOneTab DEF Founded, Known, KnownNext
<1> QED  BY <1>1, <1>4, GoesOneTab, JarStays DEF TabStep

\* A refusal for a reason.
LEMMA RefusedTab ==
    ASSUME IInv, RowStep, Onward, NEW t \in Tabs, Goes(t, "refused"), jar' = jar,
           loggedOut' \subseteq Sid, request[t].pair # NoPair,
           \/ ~Live(row[request[t].pair.session], clock)
           \/ request[t].pair \in Presented
    PROVE  TabStep(t)
<1> DEFINE pair == request[t].pair
<1>1. "refused" \in Stage
  BY DEF Stage
<1>2. Founded(t)
  BY InvByParts DEF Parts
<1>3. pair \in Pair /\ Known(pair)
  BY <1>2 DEF Founded, Request
<1>4. KnownNext(pair)
  BY <1>3, KnownStays
<1>5. ~Live(row'[pair.session], clock') \/ pair \in Presented'
  BY <1>3, OverStaysOver
<1>6. Founded(t)'
  BY <1>1, <1>4, <1>5, GoesOneTab DEF Founded, Known, KnownNext
<1> QED  BY <1>1, <1>6, GoesOneTab, JarStays DEF TabStep

LEMMA LookUpTab ==
    ASSUME IInv, RowStep, Onward, NEW t \in Tabs, LookUp(t)
    PROVE  TabStep(t)
<1> DEFINE pair == request[t].pair
           r == row[pair.session]
<1>1. Founded(t) /\ TypeOK /\ RowsMatchTokens
  BY InvByParts DEF IInv, Parts
<1>2. pair # NoPair /\ pair \in Pair /\ pair.session \in Sid /\ Known(pair)
  BY <1>1 DEF LookUp, Founded, Request, Pair
<1>3. r \in Row
  BY <1>1, <1>2 DEF Known, TypeOK
<1>4. jar' = jar /\ loggedOut' \subseteq Sid
  BY <1>1 DEF LookUp, TypeOK
<1>5. CASE ~(clock < pair.refreshUntil)
  <2>1. ASSUME pair = r.hash
        PROVE  ~Live(r, clock)
    <3>1. r.expiresAt = pair.refreshUntil
      BY <1>1, <1>2, <2>1 DEF RowsMatchTokens, Known
    <3>2. clock \in Nat /\ pair.refreshUntil \in Nat
      BY <1>1, <1>2, SessionAssumption DEF TypeOK, Time, Pair
    <3> QED  BY <1>5, <3>1, <3>2 DEF Live
  <2>2. ~Live(r, clock) \/ pair \in Presented
    BY <1>2, <2>1 DEF Known
  <2> QED  BY <1>2, <1>4, <1>5, <2>2, RefusedTab DEF LookUp
<1>6. CASE clock < pair.refreshUntil
  <2> DEFINE new == [request[t] EXCEPT !.stage = "looked", !.seen = r]
  <2>1. new \in Request /\ new.stage = "looked" /\ new.seen = r /\ new.pair = pair
    BY <1>1, <1>3 DEF Founded, Request, Stage
  <2>2. request' = [request EXCEPT ![t] = new]
    BY <1>1, <1>6 DEF LookUp, TypeOK
  <2> HIDE DEF new
  <2>3. request'[t] = new /\ \A o \in Tabs \ {t} : request'[o] = request[o]
    BY <1>1, <2>2 DEF TypeOK
  <2>4. UNCHANGED <<row, rotated>>
    BY DEF LookUp
  <2>5. SeenIsPast(t)'
    BY <1>2, <1>3, <2>1, <2>3, <2>4 DEF SeenIsPast, Known, Presented
  <2>6. Founded(t)'
    BY <1>2, <2>1, <2>3, <2>4, <2>5 DEF Founded, Known, Presented
  <2> QED  BY <1>4, <2>2, <2>3, <2>6, JarStays DEF TabStep
<1> QED  BY <1>5, <1>6

LEMMA JudgeTab ==
    ASSUME IInv, RowStep, Onward, NEW t \in Tabs, Judge(t)
    PROVE  TabStep(t)
<1> DEFINE pair == request[t].pair
           r == row[pair.session]
           seen == request[t].seen
<1>1. Founded(t) /\ TypeOK
  BY InvByParts DEF IInv, Parts
<1>2. pair # NoPair /\ Known(pair) /\ SeenIsPast(t)
  BY <1>1 DEF Judge, Founded
<1>3. jar' = jar /\ loggedOut' \subseteq Sid
  BY <1>1 DEF Judge, TypeOK
<1>4. CASE ~Live(seen, clock)
  <2>1. ~Live(r, clock) \/ pair \in Presented
    BY <1>2, <1>4 DEF SeenIsPast, Live
  <2> QED  BY <1>2, <1>3, <1>4, <2>1, RefusedTab DEF Judge
<1>5. CASE Live(seen, clock)
  <2> DEFINE stage == IF seen.hash = pair THEN "rotating" ELSE "revoking"
             new == [request[t] EXCEPT !.now = clock, !.stage = stage]
  <2>1. clock \in Nat
    BY <1>1, SessionAssumption DEF TypeOK, Time
  <2>2. new \in Request /\ new.stage = stage /\ new.now = clock /\ new.pair = pair
    BY <1>1, <2>1 DEF Founded, Request, Stage
  <2>3. request' = [request EXCEPT ![t] = new]
    BY <1>1, <1>5 DEF Judge, TypeOK
  <2> HIDE DEF new
  <2>4. request'[t] = new /\ \A o \in Tabs \ {t} : request'[o] = request[o]
    BY <1>1, <2>3 DEF TypeOK
  <2>5. UNCHANGED <<clock, row, rotated>>
    BY DEF Judge
  <2>6. seen.hash # pair => pair \in Presented
    BY <1>2 DEF SeenIsPast
  <2>7. Founded(t)'
    BY <1>2, <2>1, <2>2, <2>4, <2>5, <2>6 DEF Founded, Known, Presented
  <2> QED  BY <1>3, <2>3, <2>4, <2>7, JarStays DEF TabStep
<1> QED  BY <1>4, <1>5

LEMMA RevokeTab ==
    ASSUME IInv, RowStep, Onward, NEW t \in Tabs, Revoke(t)
    PROVE  TabStep(t)
<1>1. Founded(t) /\ TypeOK
  BY InvByParts DEF IInv, Parts
<1>2. request[t].pair # NoPair /\ request[t].pair \in Presented
  BY <1>1 DEF Founded, Revoke
<1> QED  BY <1>1, <1>2, RefusedTab DEF Revoke, TypeOK

LEMMA RotateTab ==
    ASSUME IInv, RowStep, Onward, NEW t \in Tabs, Rotate(t)
    PROVE  TabStep(t)
<1> DEFINE old == request[t].pair
           r == row[old.session]
<1>1. Founded(t) /\ TypeOK
  BY InvByParts DEF IInv, Parts
<1>2. old # NoPair /\ old \in Pair /\ old.session \in Sid /\ Known(old)
  BY <1>1 DEF Rotate, Founded, Request, Pair
<1>3. r \in Row
  BY <1>1, <1>2 DEF Known, TypeOK
<1>4. jar' = jar /\ loggedOut' \subseteq Sid
  BY <1>1 DEF Rotate, TypeOK
<1>5. CASE ~Rotates(t)
  <2>1. request[t].now \in Nat /\ request[t].now <= clock /\ clock \in Nat
    BY <1>1, SessionAssumption DEF Rotate, Founded, Request, TypeOK, Time
  <2>2. r.expiresAt \in Nat
    BY <1>3 DEF Row
  <2>3. ~Live(r, clock) \/ old \in Presented
    BY <1>2, <1>5, <2>1, <2>2 DEF Rotates, Live, Known
  <2> QED  BY <1>2, <1>4, <1>5, <2>3, RefusedTab DEF Rotate
<1>6. CASE Rotates(t)
  <2>1. PICK at \in request[t].now .. clock :
            LET new == IssuePair(old.session, at)
            IN  /\ row' = [row EXCEPT ![old.session].hash = new,
                                      ![old.session].expiresAt = new.refreshUntil]
                /\ request' = [request EXCEPT ![t].stage = "granted", ![t].pair = new]
    BY <1>6 DEF Rotate
  <2> DEFINE pair == IssuePair(old.session, at)
             new == [request[t] EXCEPT !.stage = "granted", !.pair = pair]
  <2>2. at \in Nat
    BY <1>1 DEF Founded, Request
  <2>3. pair \in Pair /\ pair.session = old.session
    BY <1>1, <1>2, <2>2, IssuedPairs
  <2>4. row' = [row EXCEPT ![old.session].hash = pair,
                           ![old.session].expiresAt = pair.refreshUntil]
    BY <2>1
  <2>5. request' = [request EXCEPT ![t] = new]
    BY <1>1, <2>1 DEF TypeOK
  <2> HIDE DEF pair
  <2>6. new \in Request /\ new.stage = "granted" /\ new.pair = pair
    BY <1>1, <2>3 DEF Founded, Request, Stage
  <2> HIDE DEF new
  <2>7. request'[t] = new /\ \A o \in Tabs \ {t} : request'[o] = request[o]
    BY <1>1, <2>5 DEF TypeOK
  <2>8. row'[old.session].hash = pair
    BY <1>1, <1>2, <1>3, <2>4 DEF TypeOK, Row
  <2>9. row'[old.session] # NoRow
    BY <1>2 DEF Onward, Known
  <2>10. KnownNext(pair)
    BY <2>3, <2>8, <2>9 DEF KnownNext
  <2>11. Founded(t)'
    BY <2>3, <2>6, <2>7, <2>10, SessionAssumption DEF Founded, Known, KnownNext
  <2> QED  BY <1>4, <2>5, <2>7, <2>11, JarStays DEF TabStep
<1> QED  BY <1>5, <1>6

LEMMA SendTab ==
    ASSUME IInv, RowStep, Onward, NEW t \in Tabs, SendRefresh(t) \/ SendLogout(t)
    PROVE  TabStep(t)
<1>1. Founded(t) /\ TypeOK /\ JarIsKnown
  BY InvByParts DEF IInv, Parts
<1>2. jar' = jar /\ loggedOut' \subseteq Sid /\ UNCHANGED <<row, rotated>>
  BY <1>1 DEF SendRefresh, SendLogout, TypeOK
<1>3. CASE request' = [request EXCEPT ![t] = Idle]
  BY <1>2, <1>3, IdleIsFounded, JarStays DEF TabStep
<1>4. ASSUME NEW stage \in {"refreshing", "loggingOut"}, CookieSent,
             request' = [request EXCEPT ![t].stage = stage, ![t].pair = jar]
      PROVE  TabStep(t)
  <2> DEFINE new == [request[t] EXCEPT !.stage = stage, !.pair = jar]
  <2>1. jar # NoPair /\ jar \in Pair /\ Known(jar)
    BY <1>1, <1>4 DEF CookieSent, JarIsKnown
  <2>2. new \in Request /\ new.stage = stage /\ new.pair = jar
    BY <1>1, <2>1 DEF Founded, Request, Stage
  <2>3. request' = [request EXCEPT ![t] = new]
    BY <1>1, <1>4 DEF TypeOK
  <2> HIDE DEF new
  <2>4. request'[t] = new /\ \A o \in Tabs \ {t} : request'[o] = request[o]
    BY <1>1, <2>3 DEF TypeOK
  <2>5. Founded(t)'
    BY <1>2, <1>4, <2>1, <2>2, <2>4 DEF Founded, Known, Presented
  <2> QED  BY <1>2, <2>3, <2>4, <2>5, JarStays DEF TabStep
<1>5. CASE SendRefresh(t)
  BY <1>3, <1>4, <1>5 DEF SendRefresh
<1>6. CASE SendLogout(t)
  BY <1>4, <1>6 DEF SendLogout
<1> QED  BY <1>5, <1>6

LEMMA AnswerTab ==
    ASSUME IInv, RowStep, Onward, NEW t \in Tabs, Receive(t) \/ Lose(t)
    PROVE  TabStep(t)
<1>1. Founded(t) /\ TypeOK /\ JarIsKnown
  BY InvByParts DEF IInv, Parts
<1>2. loggedOut' \subseteq Sid /\ UNCHANGED <<row, rotated>>
      /\ request' = [request EXCEPT ![t] = Idle]
  BY <1>1 DEF Receive, Lose, TypeOK
<1>3. jar' \in {jar, NoPair} \/ (request[t].stage = "granted" /\ jar' = request[t].pair)
  BY DEF Receive, Lose
<1>4. JarIsKnown'
  BY <1>1, <1>2, <1>3 DEF JarIsKnown, Founded, Request, Known, Presented
<1> QED  BY <1>2, <1>4, IdleIsFounded DEF TabStep

LEMMA OtherTab ==
    ASSUME IInv, RowStep, Onward, NEW t \in Tabs, FindUnauthorized(t) \/ ServeLogout(t)
    PROVE  TabStep(t)
<1>1. Founded(t) /\ TypeOK
  BY InvByParts DEF IInv, Parts
<1>2. CASE FindUnauthorized(t)
  BY <1>1, <1>2, PlainTab DEF FindUnauthorized, TypeOK
<1>3. CASE ServeLogout(t)
  <2>1. request[t].pair # NoPair /\ request[t].pair.session \in Sid
    BY <1>1, <1>3 DEF ServeLogout, Founded, Request, Pair
  <2> QED  BY <1>1, <1>3, <2>1, PlainTab DEF ServeLogout, TypeOK
<1> QED  BY <1>2, <1>3

-----------------------------------------------------------------------------
(* The invariant is inductive.                                             *)

LEMMA InvInit == Init => IInv
<1> SUFFICES ASSUME Init
             PROVE  IInv
  OBVIOUS
<1>1. clock \in Time
  BY SessionAssumption DEF Init, Time
<1>2. row \in [Sid -> Row \cup {NoRow}] /\ issued \in [Sid -> Nat]
  BY DEF Init
<1>3. rotated = {} /\ loggedOut = {} /\ jar = NoPair
  BY DEF Init
<1>4. OneSuccessor /\ StoredIsUnused /\ RowsMatchTokens
  BY <1>3 DEF Init, OneSuccessor, StoredIsUnused, RowsMatchTokens
<1>5. JarIsKnown
  BY <1>3 DEF JarIsKnown
<1>6. request = [t \in Tabs |-> request[t]] /\ \A t \in Tabs : Founded(t)
  BY IdleType DEF Init, Founded, Idle
<1> QED  BY <1>1, <1>2, <1>3, <1>4, <1>5, <1>6, InvByParts DEF Parts

LEMMA InvStep ==
    ASSUME IInv, [Next]_vars
    PROVE  IInv'
<1>1. RowStep
  BY StepsOfRows
<1>2. Onward
  BY <1>1, RowsGoOnward
<1>3. /\ clock' \in Time
      /\ row' \in [Sid -> Row \cup {NoRow}]
      /\ issued' \in [Sid -> Nat]
      /\ rotated' \subseteq Pair \X Pair
      /\ OneSuccessor' /\ StoredIsUnused' /\ RowsMatchTokens'
  BY <1>1, RowTypes, TokensStayUnique
<1>4. ASSUME JarIsKnown', loggedOut' \subseteq Sid,
             request' = [t \in Tabs |-> request'[t]], \A t \in Tabs : Founded(t)'
      PROVE  IInv'
  <2>1. Parts'
    BY <1>3, <1>4 DEF Parts
  <2> QED  BY <2>1, InvByParts, PTL
<1>5. request \in [Tabs -> Request] /\ loggedOut \subseteq Sid
  BY DEF IInv, TypeOK
<1>6. CASE UNCHANGED <<jar, request, loggedOut>>
  BY <1>1, <1>2, <1>4, <1>5, <1>6, JarStays, UntouchedStaysFounded
<1>7. ASSUME NEW t \in Tabs, TabStep(t)
      PROVE  IInv'
  <2>1. \A o \in Tabs : Founded(o)'
    BY <1>1, <1>2, <1>7, UntouchedStaysFounded DEF TabStep
  <2>2. request' = [o \in Tabs |-> request'[o]]
    BY <1>5, <1>7 DEF TabStep
  <2> QED  BY <1>4, <1>7, <2>1, <2>2 DEF TabStep
<1>8. CASE UNCHANGED vars \/ Tick
  BY <1>6, <1>8 DEF vars, Tick
<1>9. CASE \E t \in Tabs :
               \/ Login(t)
               \/ LookUp(t) \/ Judge(t) \/ Revoke(t) \/ Rotate(t)
               \/ ServeLogout(t)
               \/ FindUnauthorized(t) \/ SendRefresh(t) \/ SendLogout(t)
               \/ Receive(t) \/ Lose(t)
  BY <1>1, <1>2, <1>7, <1>9, LoginTab, LookUpTab, JudgeTab, RevokeTab, RotateTab,
     SendTab, AnswerTab, OtherTab
<1> QED  BY <1>8, <1>9 DEF Next

\* The strengthened invariant: tokens, rows and requests fit together.
THEOREM SessionInvariant == Spec => []IInv
  BY InvInit, InvStep, PTL DEF Spec

\* All variables keep their types: no row is written for a session that was
\* never created.
THEOREM TypesHold == Spec => []TypeOK
<1>1. IInv => TypeOK
  BY DEF IInv
<1> QED  BY <1>1, SessionInvariant, PTL

\* Of all tokens of a session one can be used next, however many refreshes run.
THEOREM OneTokenStaysCurrent == Spec => []OneTokenIsCurrent
<1>1. IInv => OneTokenIsCurrent
  BY DEF IInv
<1> QED  BY <1>1, SessionInvariant, PTL

\* No refresh is refused without a reason.
THEOREM RefusalsHaveReasons == Spec => []RefusalHasReason
<1>1. IInv => RefusalHasReason
  BY DEF IInv
<1> QED  BY <1>1, SessionInvariant, PTL

\* No handler under way changes a session after it was revoked.
THEOREM RevocationIsFinal == Spec => RevokedIsFinal
<1>1. ASSUME IInv, [Next]_vars, NEW s \in Sid, row[s] # NoRow, row[s].revoked
      PROVE  row'[s] = row[s]
  <2>1. row \in [Sid -> Row \cup {NoRow}]
    BY <1>1 DEF IInv, TypeOK
  <2>2. ASSUME NEW o \in Sid, Revokes(o)
        PROVE  row'[s] = row[s]
    <3>1. CASE o = s
      <4>1. row[s] \in Row
        BY <1>1, <2>1
      <4>2. row'[s] = [row[s] EXCEPT !.revoked = TRUE]
        BY <2>1, <2>2, <3>1 DEF Revokes
      <4>3. row[s].revoked = TRUE
        BY <1>1, <4>1 DEF Row
      <4> QED  BY <4>1, <4>2, <4>3 DEF Row
    <3> QED  BY <2>1, <2>2, <3>1 DEF Revokes
  <2>3. ASSUME NEW o \in Sid, Creates(o)
        PROVE  row'[s] = row[s]
    BY <1>1, <2>1, <2>3 DEF Creates
  <2>4. ASSUME NEW o \in Sid, NEW at \in Nat, Renews(o, at)
        PROVE  row'[s] = row[s]
    BY <1>1, <2>1, <2>4 DEF Renews
  <2> QED  BY <1>1, <2>2, <2>3, <2>4, StepsOfRows DEF RowStep, LeavesRows
<1>2. IInv /\ [Next]_vars =>
          [\A s \in Sid : row[s] # NoRow /\ row[s].revoked => row'[s] = row[s]]_vars
  BY <1>1
<1> QED  BY <1>2, SessionInvariant, PTL DEF Spec, RevokedIsFinal

=============================================================================
