------------------------------ MODULE Budgets ------------------------------
(***************************************************************************)
(* The budget operations as the service offers them on their own           *)
(* (apps/api/src/budgets/budgets.service.ts): reserveFunds, releaseFunds   *)
(* and purchaseReservedFunds, each in a transaction that runs at the       *)
(* database's default isolation level, Read Committed.                     *)
(*                                                                         *)
(* Wallet gives executeOperation as one operator, which is what a caller   *)
(* sees that holds the match's row.  Here its queries are steps: others    *)
(* commit between the look for the idempotency key and the guarded update. *)
(* That update locks the participant's row until the transaction ends, and *)
(* looks at the row again once it has the lock; a second key or purchase   *)
(* is stopped by the ledger's unique indexes only.                         *)
(***************************************************************************)
EXTENDS Wallet, FiniteSets, Sequences

CONSTANTS
    Participants,
    Auctions,       \* auctions of the match
    Callers,        \* requests the service works on
    Requests        \* the operations asked for

OperationTypes == {"RESERVE", "RELEASE", "PURCHASE"}

ASSUME RequestsAssumption ==
    /\ Requests # {}
    /\ \A op \in Requests : /\ op.type \in OperationTypes
                            /\ op.participant \in Participants
                            /\ op.amount \in Int

VARIABLES
    joined,     \* participants that joined the match
    wallet,     \* MatchParticipant rows
    ledger,     \* BudgetTransaction rows of each participant, in their order
    call        \* how far each caller got, and what it was answered

budgets == <<joined, wallet, ledger, call>>

Results == {"none", "recorded", "replayed", "conflict", "alreadyRecorded",
            "refused", "failed"}

\* A transaction that holds the row of its participant has updated it.
Steps == {"idle", "asked", "new", "holding"}

Row == [op : Requests, after : WalletType]

-----------------------------------------------------------------------------
Rows(p) == {ledger[p][n] : n \in DOMAIN ledger[p]}

\* The unique index (participantId, idempotencyKey).
WithKey(op) == {e \in Rows(op.participant) : e.op.key = op.key}

\* The unique index (participantId, purchaseKey).
WithPurchase(op) ==
    {e \in Rows(op.participant) : /\ e.op.type = "PURCHASE" /\ op.type = "PURCHASE"
                                  /\ e.op.item = op.item}

Respond(c, result) ==
    call' = [call EXCEPT ![c] = [step |-> "idle", op |-> call[c].op, result |-> result]]

GoOn(c, step) ==
    call' = [call EXCEPT ![c] = [step |-> step, op |-> call[c].op, result |-> "none"]]

Join(p) ==
    /\ p \notin joined
    /\ joined' = joined \cup {p}
    /\ UNCHANGED <<wallet, ledger, call>>

\* validateOperation.
Ask(c, op) ==
    /\ call[c].step = "idle"
    /\ call' = [call EXCEPT ![c] =
           IF op.amount \in 1 .. MatchBudget
             THEN [step |-> "asked", op |-> op, result |-> "none"]
             ELSE [step |-> "idle", op |-> op, result |-> "refused"]]
    /\ UNCHANGED <<joined, wallet, ledger>>

\* Mutant: the amount is left out of the comparison.
SameButForAmount(e, op) == [e.op EXCEPT !.amount = op.amount] = op

SameOperation(e, op) == e.op = op

\* A recorded operation is answered again; its key for another is refused.
LookUpKey(c) ==
    LET op == call[c].op
    IN  /\ call[c].step = "asked"
        /\ IF WithKey(op) = {}
             THEN GoOn(c, "new")
             ELSE Respond(c, IF \A e \in WithKey(op) : SameOperation(e, op)
                              THEN "replayed" ELSE "conflict")
        /\ UNCHANGED <<joined, wallet, ledger>>

\* Mutant: the update does not wait for the row.
RowIsAlwaysFree(c) == call[c].step = "new"

RowIsFree(c) ==
    \A d \in Callers : ~ /\ call[d].step = "holding"
                         /\ call[d].op.participant = call[c].op.participant

\* The participant and the auction are looked up, and the update takes the
\* lock when it finds the funds.
TakeFunds(c) ==
    LET op == call[c].op
    IN  /\ call[c].step = "new"
        /\ IF op.participant \in joined /\ op.auction \in Auctions
             THEN /\ RowIsFree(c)
                  /\ IF Funded(wallet[op.participant], op)
                       THEN GoOn(c, "holding") ELSE Respond(c, "refused")
             ELSE Respond(c, "refused")
        /\ UNCHANGED <<joined, wallet, ledger>>

\* The row is written and all is committed.  The answer may be lost.
RecordOperation(c) ==
    LET op == call[c].op
        after == Moved(wallet[op.participant], op)
    IN  /\ call[c].step = "holding"
        /\ WithKey(op) \cup WithPurchase(op) = {}
        /\ wallet' = [wallet EXCEPT ![op.participant] = after]
        /\ ledger' = [ledger EXCEPT ![op.participant] =
                         Append(@, [op |-> op, after |-> after])]
        /\ Respond(c, "recorded") \/ Respond(c, "failed")
        /\ UNCHANGED joined

\* A unique index refuses the row, and the update is rolled back with it.
RefuseRecord(c) ==
    LET op == call[c].op
    IN  /\ call[c].step = "holding"
        /\ WithKey(op) \cup WithPurchase(op) # {}
        /\ Respond(c, "alreadyRecorded")
        /\ UNCHANGED <<joined, wallet, ledger>>

\* The connection is lost or the transaction times out: it is rolled back.
GiveUp(c) ==
    /\ call[c].step # "idle"
    /\ Respond(c, "failed")
    /\ UNCHANGED <<joined, wallet, ledger>>

-----------------------------------------------------------------------------
AnyRequest == CHOOSE op \in Requests : TRUE

BudgetsInit ==
    /\ joined = {}
    /\ wallet = [p \in Participants |-> FullWallet]
    /\ ledger = [p \in Participants |-> <<>>]
    /\ call = [c \in Callers |-> [step |-> "idle", op |-> AnyRequest, result |-> "none"]]

BudgetsNext ==
    \/ \E p \in Participants : Join(p)
    \/ \E c \in Callers :
           \/ \E op \in Requests : Ask(c, op)
           \/ LookUpKey(c) \/ TakeFunds(c)
           \/ RecordOperation(c) \/ RefuseRecord(c) \/ GiveUp(c)

BudgetsSpec == BudgetsInit /\ [][BudgetsNext]_budgets

-----------------------------------------------------------------------------
BudgetsTypeOK ==
    /\ joined \subseteq Participants
    /\ wallet \in [Participants -> WalletType]
    /\ ledger \in [Participants -> Seq(Row)]
    /\ call \in [Callers -> [step : Steps, op : Requests, result : Results]]

\* What the operations before the n-th left in the wallet of p.
Before(p, n) == IF n = 1 THEN FullWallet ELSE ledger[p][n - 1].after

\* The ledger accounts for the wallet: each row follows from the one before
\* it, never overdrawing, and the last one is the wallet.
LedgerReplays ==
    \A p \in Participants :
        /\ \A n \in DOMAIN ledger[p] :
               /\ Funded(Before(p, n), ledger[p][n].op)
               /\ ledger[p][n].after = Moved(Before(p, n), ledger[p][n].op)
        /\ wallet[p] = Before(p, Len(ledger[p]) + 1)

\* What an answer says of the rows of its participant.
AnswerIsTrue(rows, op, result) ==
    /\ result \in {"recorded", "replayed"} =>
           \E n \in DOMAIN rows :
               /\ rows[n].op = op
               /\ \A m \in DOMAIN rows : rows[m].op.key = op.key => m = n
    /\ result = "conflict" =>
           \E n \in DOMAIN rows : rows[n].op.key = op.key /\ rows[n].op # op
    /\ result = "alreadyRecorded" =>
           \E n \in DOMAIN rows :
               \/ rows[n].op.key = op.key
               \/ /\ rows[n].op.type = "PURCHASE" /\ op.type = "PURCHASE"
                  /\ rows[n].op.item = op.item

\* What a caller was answered is so: a recorded or replayed operation is in
\* the ledger, as asked for and under one row; a refused key or purchase is
\* another's.
AnswersAreTrue ==
    \A c \in Callers :
        AnswerIsTrue(ledger[call[c].op.participant], call[c].op, call[c].result)

=============================================================================
