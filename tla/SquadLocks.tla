----------------------------- MODULE SquadLocks -----------------------------
(***************************************************************************)
(* What SquadPhase takes for one step: saveSquad and lockSquad of          *)
(* apps/api/src/squads/squads.service.ts as the transactions they are.     *)
(* Each reads a snapshot and decides, and commits later; in between others *)
(* commit.  Both are Serializable and are not tried again.                 *)
(*                                                                         *)
(* PostgreSQL refuses a transaction at least if the row it updates was     *)
(* changed since its snapshot, or if it missed a write of one that is      *)
(* committed and writes what one that is committed has read.               *)
(*                                                                         *)
(* The clients are SquadPhase's OtherSave and OtherLock, which name the    *)
(* version of the snapshot: with any other a transaction decides to throw. *)
(***************************************************************************)
EXTENDS SquadPhase

CONSTANT Transactions   \* transactions that may be open at once

VARIABLE transaction

locks == <<vars, transaction>>

\* both: the match becomes READY.  missed: it did not see what a committed
\* transaction wrote.  read: it writes what a committed one has read.
\* changed: its row was changed.
Transaction ==
    [open : BOOLEAN, kind : {"save", "lock"}, by : Participant, request : Request,
     both : BOOLEAN, missed : BOOLEAN, read : BOOLEAN, changed : BOOLEAN]

Opened(kind, p, r, both) ==
    [open |-> TRUE, kind |-> kind, by |-> p, request |-> r, both |-> both,
     missed |-> FALSE, read |-> FALSE, changed |-> FALSE]
Closed == [Opened("save", Host, NoRequest, FALSE) EXCEPT !.open = FALSE]

-----------------------------------------------------------------------------
(* The snapshot, and what is decided on it.                                *)

BeginSave(t, p) ==
    /\ ~transaction[t].open
    /\ \E f \in Formations, m \in Managers, d \in Drafts :
           LET r == [version |-> squad[p].version, formation |-> f,
                     manager |-> m, draft |-> d]
           IN  /\ SaveAllowed(p, r)
               /\ transaction' = [transaction EXCEPT ![t] = Opened("save", p, r, FALSE)]
    /\ UNCHANGED vars

\* lockedSquadCount counts the squad that is locked now.
BothLocked(p) == \A q \in Participant \ {p} : squad[q].locked

BeginLock(t, p) ==
    LET r == [NoRequest EXCEPT !.version = squad[p].version]
    IN  /\ ~transaction[t].open
        /\ LockAllowed(p, r.version)
        /\ transaction' = [transaction EXCEPT ![t] = Opened("lock", p, r, BothLocked(p))]
        /\ UNCHANGED vars

-----------------------------------------------------------------------------
(* What the isolation level makes of the others.                           *)

\* Each reads its participant's squad and the status of the match; a lock
\* counts the locked squads of the match.
Reads(a, b) ==
    \/ a.by = b.by
    \/ b.both
    \/ a.kind = "lock" /\ b.kind = "lock"

\* Mutant: the isolation level is left at its default.
AnyLevel(t) == TRUE

Serializable(t) == ~(transaction[t].missed /\ transaction[t].read)

\* Another transaction when b has committed.
AfterCommit(a, b) ==
    IF ~a.open THEN a
    ELSE [a EXCEPT !.missed = @ \/ Reads(a, b),
                   !.read = @ \/ Reads(b, a),
                   !.changed = @ \/ a.by = b.by \/ (a.both /\ b.both)]

Ended(t) ==
    transaction' = [u \in Transactions |->
        IF u = t THEN Closed ELSE AfterCommit(transaction[u], transaction[t])]

MayCommit(t) ==
    /\ transaction[t].open
    /\ ~transaction[t].changed
    /\ Serializable(t)

-----------------------------------------------------------------------------
CommitSave(t) ==
    LET p == transaction[t].by
    IN  /\ MayCommit(t) /\ transaction[t].kind = "save"
        /\ squad[Host].version + squad[Guest].version < MaxVersions
        /\ squad' = [squad EXCEPT ![p] = SavedSquad(p, transaction[t].request)]
        /\ Ended(t)
        /\ UNCHANGED <<matchStatus, owned, ready, page, call>>

CommitLock(t) ==
    LET p == transaction[t].by
    IN  /\ MayCommit(t) /\ transaction[t].kind = "lock"
        /\ squad' = [squad EXCEPT ![p] = LockedSquad(p)]
        /\ ready' = ready \cup {p}
        /\ matchStatus' = IF transaction[t].both THEN "READY" ELSE matchStatus
        /\ Ended(t)
        /\ UNCHANGED <<owned, page, call>>

\* P2034, a lost connection, or the process stops.
Abort(t) ==
    /\ transaction[t].open
    /\ transaction' = [transaction EXCEPT ![t] = Closed]
    /\ UNCHANGED vars

-----------------------------------------------------------------------------
LocksInit == Init /\ transaction = [t \in Transactions |-> Closed]

LocksNext ==
    \/ StartSquadBuilding /\ UNCHANGED transaction
    \/ \E t \in Transactions :
           \/ \E p \in Participant : BeginSave(t, p) \/ BeginLock(t, p)
           \/ CommitSave(t) \/ CommitLock(t) \/ Abort(t)

LocksSpec == LocksInit /\ [][LocksNext]_locks

-----------------------------------------------------------------------------
\* However transactions overlap, each that commits does what saveSquad or
\* lockSquad does alone: what was checked on the snapshot holds of the rows
\* when they are written, and the match becomes READY with the second lock.
CommitsAsIfAlone ==
    [][\A t \in Transactions :
          LET p == transaction[t].by
          IN  /\ CommitSave(t) => OtherSave(p)
              /\ CommitLock(t) => OtherLock(p)]_locks

\* So transactions run the squad phase.
RunsSquadPhase == Spec

=============================================================================
