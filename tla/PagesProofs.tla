----------------------------- MODULE PagesProofs -----------------------------
(***************************************************************************)
(* Proofs about the parts that Pages puts side by side: the ledger of the  *)
(* standalone budget operations and the history the wallet page makes of   *)
(* it, the seed of a catalog, its pages and its answers, what a nomination *)
(* form sends, who an identifier finds, and what the rate limiter of the   *)
(* sockets lets through.  Each part has an inductive invariant of its own; *)
(* a step of any other part leaves its variables alone.                    *)
(***************************************************************************)
EXTENDS Pages, WalletProofs, SquadDraftProofs, SequenceTheorems, FiniteSetTheorems

\* A step is one of a part or none of it.
LEMMA StepsOfParts ==
    ASSUME [PagesNext]_pages
    PROVE  /\ [WalletNext]_wallets
           /\ [CatalogNext]_catalog
           /\ [FormNext]_formVars
           /\ [AccountsNext]_accounts
           /\ [GateNext]_gate
<1>1. CASE WalletStep
  BY <1>1 DEF WalletStep
<1>2. CASE CatalogStep
  BY <1>2 DEF CatalogStep
<1>3. CASE FormStep
  BY <1>3 DEF FormStep
<1>4. CASE DraftStep
  BY <1>4 DEF DraftStep
<1>5. CASE AccountsStep
  BY <1>5 DEF AccountsStep
<1>6. CASE GateStep
  BY <1>6 DEF GateStep
<1>7. CASE UNCHANGED pages
  BY <1>7 DEF pages
<1> QED
  BY <1>1, <1>2, <1>3, <1>4, <1>5, <1>6, <1>7 DEF PagesNext

-----------------------------------------------------------------------------
(* The ledger.                                                             *)

\* What is asked for beyond its validation has an amount, and no answer yet.
AskedIsValid ==
    \A c \in Callers :
        call[c].step # "idle" => /\ call[c].op.amount \in 1 .. MatchBudget
                                 /\ call[c].result = "none"

\* The row of a participant is locked by one transaction, which found the
\* funds it is about to move.
HoldersAreFunded ==
    \A c \in Callers :
        call[c].step = "holding" =>
            /\ Funded(wallet[call[c].op.participant], call[c].op)
            /\ \A d \in Callers \ {c} :
                   ~ /\ call[d].step = "holding"
                     /\ call[d].op.participant = call[c].op.participant

\* The ledger of a participant has a row per key.
RowsHaveKeys ==
    \A p \in Participants :
        \A m, n \in DOMAIN ledger[p] :
            /\ ledger[p][n].op.participant = p
            /\ ledger[p][m].op.key = ledger[p][n].op.key => m = n

BudgetsInv ==
    /\ BudgetsTypeOK
    /\ AskedIsValid
    /\ HoldersAreFunded
    /\ RowsHaveKeys
    /\ LedgerReplays
    /\ AnswersAreTrue

\* A request names a participant, an operation and an amount.
LEMMA RequestsAreOperations ==
    \A op \in Requests : /\ op.participant \in Participants
                         /\ op.type \in OperationType
                         /\ op.amount \in Int
BY RequestsAssumption DEF OperationTypes, OperationType

LEMMA BudgetsInvInit == BudgetsInit => BudgetsInv
<1> SUFFICES ASSUME BudgetsInit PROVE BudgetsInv
  OBVIOUS
<1>1. AnyRequest \in Requests
  BY RequestsAssumption DEF AnyRequest
<1>2. FullWallet \in WalletType
  BY MatchBudgetAssumption DEF FullWallet, WalletType
<1>3. BudgetsTypeOK
  BY <1>1, <1>2 DEF BudgetsInit, BudgetsTypeOK, Steps, Results
<1>4. AskedIsValid /\ HoldersAreFunded
  BY DEF BudgetsInit, AskedIsValid, HoldersAreFunded
<1>5. RowsHaveKeys
  BY DEF BudgetsInit, RowsHaveKeys
<1>6. LedgerReplays
  BY DEF BudgetsInit, LedgerReplays, Before
<1>7. AnswersAreTrue
  BY DEF BudgetsInit, AnswersAreTrue, AnswerIsTrue
<1> QED
  BY <1>3, <1>4, <1>5, <1>6, <1>7 DEF BudgetsInv

Call == [step : Steps, op : Requests, result : Results]

\* A step that only moves one caller on.
LEMMA QuietStep ==
    ASSUME BudgetsInv, NEW c \in Callers, NEW k \in Call,
           call' = [call EXCEPT ![c] = k],
           UNCHANGED <<joined, wallet, ledger>>,
           k.step # "idle" => k.op.amount \in 1 .. MatchBudget /\ k.result = "none",
           k.step = "holding" =>
               /\ Funded(wallet[k.op.participant], k.op)
               /\ \A d \in Callers \ {c} :
                      ~ /\ call[d].step = "holding"
                        /\ call[d].op.participant = k.op.participant,
           AnswerIsTrue(ledger[k.op.participant], k.op, k.result)
    PROVE  BudgetsInv'
<1>1. /\ call \in [Callers -> Call]
      /\ \A d \in Callers : call'[d] = IF d = c THEN k ELSE call[d]
  BY DEF BudgetsInv, BudgetsTypeOK, Call
<1>2. BudgetsTypeOK'
  BY <1>1 DEF BudgetsInv, BudgetsTypeOK, Call
<1>3. AskedIsValid'
  BY <1>1 DEF BudgetsInv, AskedIsValid
<1>4. HoldersAreFunded'
  BY <1>1 DEF BudgetsInv, HoldersAreFunded
<1>5. RowsHaveKeys' /\ LedgerReplays'
  BY DEF BudgetsInv, RowsHaveKeys, LedgerReplays, Before
<1>6. AnswersAreTrue'
  BY <1>1 DEF BudgetsInv, AnswersAreTrue
<1> QED
  BY <1>2, <1>3, <1>4, <1>5, <1>6 DEF BudgetsInv

LEMMA AskStep ==
    ASSUME BudgetsInv, NEW c \in Callers, NEW op \in Requests, Ask(c, op)
    PROVE  BudgetsInv'
<1> DEFINE k == IF op.amount \in 1 .. MatchBudget
                  THEN [step |-> "asked", op |-> op, result |-> "none"]
                  ELSE [step |-> "idle", op |-> op, result |-> "refused"]
<1>1. k \in Call /\ call' = [call EXCEPT ![c] = k]
  BY DEF Ask, Call, Steps, Results
<1>2. AnswerIsTrue(ledger[k.op.participant], k.op, k.result)
  BY DEF AnswerIsTrue
<1>3. /\ k.step # "idle" => k.op.amount \in 1 .. MatchBudget /\ k.result = "none"
      /\ k.step # "holding"
  OBVIOUS
<1> HIDE DEF k
<1> QED
  BY <1>1, <1>2, <1>3, QuietStep DEF Ask

\* An answer that is true ends a request.
LEMMA RespondStep ==
    ASSUME BudgetsInv, NEW c \in Callers, NEW result \in Results,
           Respond(c, result), UNCHANGED <<joined, wallet, ledger>>,
           AnswerIsTrue(ledger[call[c].op.participant], call[c].op, result)
    PROVE  BudgetsInv'
<1> DEFINE k == [step |-> "idle", op |-> call[c].op, result |-> result]
<1>1. call[c] \in Call
  BY DEF BudgetsInv, BudgetsTypeOK, Call
<1>2. /\ k \in Call /\ call' = [call EXCEPT ![c] = k]
      /\ k.op = call[c].op /\ k.step = "idle" /\ k.result = result
  BY <1>1 DEF Respond, Call, Steps
<1> HIDE DEF k
<1> QED
  BY <1>2, QuietStep

LEMMA LookUpKeyStep ==
    ASSUME BudgetsInv, NEW c \in Callers, LookUpKey(c)
    PROVE  BudgetsInv'
<1> DEFINE op == call[c].op
           rows == ledger[op.participant]
<1>1. call[c] \in Call /\ op \in Requests
  BY DEF BudgetsInv, BudgetsTypeOK, Call
<1>2. CASE WithKey(op) = {}
  <2> DEFINE k == [step |-> "new", op |-> call[c].op, result |-> "none"]
  <2>1. /\ k \in Call /\ call' = [call EXCEPT ![c] = k]
        /\ k.op = op /\ k.step = "new" /\ k.result = "none"
    BY <1>1, <1>2 DEF LookUpKey, GoOn, Call, Steps, Results
  <2>2. op.amount \in 1 .. MatchBudget /\ AnswerIsTrue(ledger[k.op.participant], k.op, k.result)
    BY <2>1 DEF AnswerIsTrue, LookUpKey, BudgetsInv, AskedIsValid
  <2> HIDE DEF k
  <2> QED
    BY <2>1, <2>2, QuietStep DEF LookUpKey
<1>3. CASE WithKey(op) # {} /\ \A e \in WithKey(op) : e.op = op
  <2>1. PICK n \in DOMAIN rows : rows[n].op.key = op.key /\ rows[n].op = op
    BY <1>3 DEF WithKey, Rows
  <2>2. \A m \in DOMAIN rows : rows[m].op.key = op.key => m = n
    BY <1>1, <2>1, RequestsAreOperations DEF BudgetsInv, RowsHaveKeys
  <2>3. AnswerIsTrue(rows, op, "replayed")
    BY <2>1, <2>2 DEF AnswerIsTrue
  <2> QED
    BY <1>3, <2>3, RespondStep DEF LookUpKey, SameOperation, Results
<1>4. CASE \E e \in WithKey(op) : e.op # op
  <2>1. AnswerIsTrue(rows, op, "conflict")
    BY <1>4 DEF AnswerIsTrue, WithKey, Rows
  <2> QED
    BY <1>4, <2>1, RespondStep DEF LookUpKey, SameOperation, Results
<1> QED
  BY <1>2, <1>3, <1>4

LEMMA TakeFundsStep ==
    ASSUME BudgetsInv, NEW c \in Callers, TakeFunds(c)
    PROVE  BudgetsInv'
<1> DEFINE op == call[c].op
           k == [step |-> "holding", op |-> call[c].op, result |-> "none"]
<1>1. call[c] \in Call
  BY DEF BudgetsInv, BudgetsTypeOK, Call
<1>2. CASE Respond(c, "refused")
  BY <1>2, RespondStep DEF TakeFunds, AnswerIsTrue, Results
<1>3. CASE RowIsFree(c) /\ Funded(wallet[op.participant], op) /\ GoOn(c, "holding")
  <2>1. /\ k \in Call /\ call' = [call EXCEPT ![c] = k]
        /\ k.op = op /\ k.step = "holding" /\ k.result = "none"
    BY <1>1, <1>3 DEF GoOn, Call, Steps, Results
  <2>2. op.amount \in 1 .. MatchBudget /\ AnswerIsTrue(ledger[k.op.participant], k.op, k.result)
    BY <2>1 DEF AnswerIsTrue, TakeFunds, BudgetsInv, AskedIsValid
  <2>3. \A d \in Callers \ {c} :
            ~ (call[d].step = "holding" /\ call[d].op.participant = k.op.participant)
    BY <1>3, <2>1 DEF RowIsFree
  <2> HIDE DEF k
  <2> QED
    BY <1>3, <2>1, <2>2, <2>3, QuietStep DEF TakeFunds
<1> QED
  BY <1>2, <1>3 DEF TakeFunds

\* The row that is recorded has a new key; every row before it stays.
LEMMA RecordStep ==
    ASSUME BudgetsInv, NEW c \in Callers, RecordOperation(c)
    PROVE  BudgetsInv'
<1>1. PICK op \in Requests, p \in Participants :
          /\ op = call[c].op /\ p = op.participant
          /\ op.type \in OperationType /\ op.amount \in 1 .. MatchBudget
          /\ Funded(wallet[p], op)
  BY RequestsAreOperations
     DEF BudgetsInv, BudgetsTypeOK, AskedIsValid, HoldersAreFunded, RecordOperation
<1>2. wallet \in [Participants -> WalletType] /\ ledger \in [Participants -> Seq(Row)]
  BY DEF BudgetsInv, BudgetsTypeOK
<1>3. PICK after \in WalletType, row \in Row, last \in Nat :
          /\ after = Moved(wallet[p], op) /\ row = [op |-> op, after |-> after]
          /\ last = Len(ledger[p]) + 1
  <2>1. Moved(wallet[p], op) \in WalletType
    BY <1>1, <1>2, MovedIsWallet, MatchBudgetAssumption
  <2>2. [op |-> op, after |-> Moved(wallet[p], op)] \in Row
    BY <2>1 DEF Row
  <2>3. Len(ledger[p]) + 1 \in Nat
    BY <1>2
  <2> QED
    BY <2>1, <2>2, <2>3
<1>4. /\ ledger' = [ledger EXCEPT ![p] = Append(ledger[p], row)]
      /\ wallet' = [wallet EXCEPT ![p] = after]
      /\ joined' = joined
  BY <1>1, <1>3 DEF RecordOperation
<1>5. PICK result \in {"recorded", "failed"} :
          call' = [call EXCEPT ![c] = [step |-> "idle", op |-> call[c].op, result |-> result]]
  BY DEF RecordOperation, Respond
<1>6. /\ ledger[p] \in Seq(Row) /\ Len(ledger[p]) \in Nat
      /\ DOMAIN ledger[p] = 1 .. Len(ledger[p])
      /\ DOMAIN ledger'[p] = 1 .. last
      /\ Len(ledger'[p]) = last /\ last = Len(ledger[p]) + 1
      /\ ledger'[p][last] = row
      /\ \A n \in DOMAIN ledger[p] : ledger'[p][n] = ledger[p][n]
      /\ \A q \in Participants \ {p} : ledger'[q] = ledger[q]
  BY <1>1, <1>2, <1>3, <1>4
<1>7. \A n \in DOMAIN ledger[p] : ledger[p][n].op.key # op.key
  BY <1>1 DEF RecordOperation, WithKey, Rows
<1>rows. /\ \A i \in DOMAIN ledger'[p] :
                \/ i \in DOMAIN ledger[p] /\ ledger'[p][i] = ledger[p][i]
                \/ i = last /\ ledger'[p][i].op = op
         /\ \A i \in DOMAIN ledger[p] :
                i \in DOMAIN ledger'[p] /\ ledger'[p][i] = ledger[p][i]
  BY <1>3, <1>6
<1>8. BudgetsTypeOK'
  <2>1. ledger' \in [Participants -> Seq(Row)] /\ wallet' \in [Participants -> WalletType]
    BY <1>1, <1>2, <1>3, <1>4
  <2>2. call' \in [Callers -> Call]
    BY <1>1, <1>5 DEF BudgetsInv, BudgetsTypeOK, Call, Steps, Results
  <2> QED
    BY <2>1, <2>2, <1>4 DEF BudgetsInv, BudgetsTypeOK, Call
<1>9. \A d \in Callers : call'[d] = IF d = c THEN [step |-> "idle", op |-> call[c].op, result |-> result]
                                            ELSE call[d]
  BY <1>5 DEF BudgetsInv, BudgetsTypeOK
<1>10. AskedIsValid'
  BY <1>9 DEF BudgetsInv, AskedIsValid
<1>11. HoldersAreFunded'
  <2> SUFFICES ASSUME NEW d \in Callers, call'[d].step = "holding"
               PROVE  /\ Funded(wallet'[call'[d].op.participant], call'[d].op)
                      /\ \A e \in Callers \ {d} :
                             ~ /\ call'[e].step = "holding"
                               /\ call'[e].op.participant = call'[d].op.participant
    BY DEF HoldersAreFunded
  <2>1. d # c /\ call'[d] = call[d] /\ call[d].op \in Requests
    BY <1>9 DEF BudgetsInv, BudgetsTypeOK
  <2>2. call[c].step = "holding" /\ call[d].op.participant # p
    BY <1>1, <2>1 DEF BudgetsInv, HoldersAreFunded, RecordOperation
  <2>3. wallet'[call[d].op.participant] = wallet[call[d].op.participant]
    BY <1>2, <1>4, <2>1, <2>2, RequestsAreOperations
  <2>4. Funded(wallet'[call[d].op.participant], call[d].op)
    BY <2>1, <2>3 DEF BudgetsInv, HoldersAreFunded
  <2>5. \A e \in Callers \ {d} : call'[e].step = "holding" => call'[e] = call[e]
    BY <1>9
  <2>6. Funded(wallet'[call'[d].op.participant], call'[d].op)
    BY <2>1, <2>4
  <2>7. \A e \in Callers \ {d} :
            ~ (call'[e].step = "holding" /\ call'[e].op.participant = call'[d].op.participant)
    BY <2>1, <2>5 DEF BudgetsInv, HoldersAreFunded
  <2> QED
    BY <2>6, <2>7
<1>12. RowsHaveKeys'
  <2> SUFFICES ASSUME NEW q \in Participants,
                      NEW m \in DOMAIN ledger'[q], NEW n \in DOMAIN ledger'[q]
               PROVE  /\ ledger'[q][n].op.participant = q
                      /\ ledger'[q][m].op.key = ledger'[q][n].op.key => m = n
    BY DEF RowsHaveKeys
  <2>1. CASE q # p
    BY <1>6, <2>1 DEF BudgetsInv, RowsHaveKeys
  <2>2. CASE q = p
    <3>1. op.participant = p
      BY <1>1
    <3>2. /\ \A i \in DOMAIN ledger[p] : ledger[p][i].op.participant = p
          /\ \A i, j \in DOMAIN ledger[p] : ledger[p][i].op.key = ledger[p][j].op.key => i = j
      BY <1>1 DEF BudgetsInv, RowsHaveKeys
    <3> QED
      BY <1>7, <1>rows, <2>2, <3>1, <3>2
  <2> QED
    BY <2>1, <2>2
<1>13. LedgerReplays'
  <2> SUFFICES ASSUME NEW q \in Participants
               PROVE  /\ \A n \in DOMAIN ledger'[q] :
                             /\ Funded(Before(q, n)', ledger'[q][n].op)
                             /\ ledger'[q][n].after = Moved(Before(q, n)', ledger'[q][n].op)
                      /\ wallet'[q] = Before(q, Len(ledger[q]) + 1)'
    BY DEF LedgerReplays
  <2>1. /\ \A n \in DOMAIN ledger[q] :
               /\ Funded(Before(q, n), ledger[q][n].op)
               /\ ledger[q][n].after = Moved(Before(q, n), ledger[q][n].op)
        /\ wallet[q] = Before(q, Len(ledger[q]) + 1)
    BY DEF BudgetsInv, LedgerReplays
  <2>2. CASE q # p
    BY <1>2, <1>4, <1>6, <2>1, <2>2 DEF Before
  <2>3. CASE q = p
    <3>1. \A n \in 1 .. last : Before(p, n)' = Before(p, n)
      BY <1>6 DEF Before
    <3>2. Before(p, last) = wallet[p]
      BY <1>6, <2>1, <2>3
    <3>3. wallet'[p] = after /\ after = Moved(wallet[p], op) /\ row.op = op /\ row.after = after
      BY <1>1, <1>2, <1>3, <1>4
    <3>4. wallet'[p] = Before(p, Len(ledger[p]) + 1)'
      BY <1>6, <3>3 DEF Before
    <3>5. ASSUME NEW n \in DOMAIN ledger'[p]
          PROVE  /\ Funded(Before(p, n)', ledger'[p][n].op)
                 /\ ledger'[p][n].after = Moved(Before(p, n)', ledger'[p][n].op)
      <4>1. CASE n = last
        BY <1>1, <1>6, <3>1, <3>2, <3>3, <4>1
      <4>2. CASE n \in DOMAIN ledger[p]
        BY <1>6, <2>1, <2>3, <3>1, <4>2
      <4> QED
        BY <1>6, <4>1, <4>2
    <3> QED
      BY <2>3, <3>4, <3>5
  <2> QED
    BY <2>2, <2>3
<1>14. AnswersAreTrue'
  <2> SUFFICES ASSUME NEW d \in Callers
               PROVE  AnswerIsTrue(ledger'[call'[d].op.participant], call'[d].op, call'[d].result)
    BY DEF AnswersAreTrue
  <2>1. CASE d = c
    <3>1. call'[d].op = op /\ call'[d].result \in {"recorded", "failed"}
      BY <1>1, <1>9, <2>1
    <3>2. \A m \in DOMAIN ledger'[p] : ledger'[p][m].op.key = op.key => m = last
      BY <1>6, <1>7
    <3>3. ledger'[p][last].op = op /\ last \in DOMAIN ledger'[p]
      BY <1>3, <1>6
    <3> QED
      BY <1>1, <3>1, <3>2, <3>3 DEF AnswerIsTrue
  <2>2. CASE d # c
    <3>1. call'[d] = call[d] /\ call[d].op.participant \in Participants
      BY <1>9, <2>2, RequestsAreOperations DEF BudgetsInv, BudgetsTypeOK
    <3>2. AnswerIsTrue(ledger[call[d].op.participant], call[d].op, call[d].result)
      BY DEF BudgetsInv, AnswersAreTrue
    <3>3. CASE call[d].op.participant # p
      BY <1>6, <3>1, <3>2, <3>3
    <3>4. CASE call[d].op.participant = p
      <4> SUFFICES ASSUME NEW o \in Requests, NEW answer \in Results,
                          o = call[d].op, answer = call[d].result
                   PROVE  AnswerIsTrue(ledger'[p], o, answer)
        BY <3>1, <3>4 DEF BudgetsInv, BudgetsTypeOK
      <4>1. AnswerIsTrue(ledger[p], o, answer)
        BY <3>2, <3>4
      <4>2. CASE answer \in {"recorded", "replayed"}
        <5>1. PICK n \in DOMAIN ledger[p] :
                  /\ ledger[p][n].op = o
                  /\ \A m \in DOMAIN ledger[p] : ledger[p][m].op.key = o.key => m = n
          BY <4>1, <4>2 DEF AnswerIsTrue
        <5>2. o.key # op.key
          BY <1>7, <5>1
        <5> QED
          BY <1>rows, <4>2, <5>1, <5>2 DEF AnswerIsTrue
      <4>3. CASE answer \notin {"recorded", "replayed"}
        BY <1>rows, <4>1, <4>3 DEF AnswerIsTrue
      <4> QED
        BY <4>2, <4>3
    <3> QED
      BY <3>3, <3>4
  <2> QED
    BY <2>1, <2>2
<1> QED
  BY <1>8, <1>10, <1>11, <1>12, <1>13, <1>14 DEF BudgetsInv

\* A row that an index refuses leaves no trace but the answer.
LEMMA RefuseStep ==
    ASSUME BudgetsInv, NEW c \in Callers, RefuseRecord(c)
    PROVE  BudgetsInv'
<1>1. AnswerIsTrue(ledger[call[c].op.participant], call[c].op, "alreadyRecorded")
  BY DEF RefuseRecord, WithKey, WithPurchase, Rows, AnswerIsTrue
<1> QED
  BY <1>1, RespondStep DEF RefuseRecord, Results

LEMMA GiveUpStep ==
    ASSUME BudgetsInv, NEW c \in Callers, GiveUp(c)
    PROVE  BudgetsInv'
BY RespondStep DEF GiveUp, Results, AnswerIsTrue

LEMMA BudgetsUnchanged ==
    ASSUME BudgetsInv, UNCHANGED <<wallet, ledger, call>>, joined' \subseteq Participants
    PROVE  BudgetsInv'
<1>1. BudgetsTypeOK' /\ AskedIsValid' /\ HoldersAreFunded' /\ RowsHaveKeys'
  BY DEF BudgetsInv, BudgetsTypeOK, AskedIsValid, HoldersAreFunded, RowsHaveKeys
<1>2. LedgerReplays' /\ AnswersAreTrue'
  BY DEF BudgetsInv, LedgerReplays, Before, AnswersAreTrue
<1> QED
  BY <1>1, <1>2 DEF BudgetsInv

LEMMA BudgetsInvStep ==
    ASSUME BudgetsInv, [BudgetsNext]_budgets
    PROVE  BudgetsInv'
<1>1. ASSUME NEW p \in Participants, Join(p) PROVE BudgetsInv'
  BY <1>1, BudgetsUnchanged DEF Join, BudgetsInv, BudgetsTypeOK
<1>2. ASSUME NEW c \in Callers, NEW op \in Requests, Ask(c, op) PROVE BudgetsInv'
  BY <1>2, AskStep
<1>3. ASSUME NEW c \in Callers, LookUpKey(c) PROVE BudgetsInv'
  BY <1>3, LookUpKeyStep
<1>4. ASSUME NEW c \in Callers, TakeFunds(c) PROVE BudgetsInv'
  BY <1>4, TakeFundsStep
<1>5. ASSUME NEW c \in Callers, RecordOperation(c) PROVE BudgetsInv'
  BY <1>5, RecordStep
<1>6. ASSUME NEW c \in Callers, RefuseRecord(c) PROVE BudgetsInv'
  BY <1>6, RefuseStep
<1>7. ASSUME NEW c \in Callers, GiveUp(c) PROVE BudgetsInv'
  BY <1>7, GiveUpStep
<1>8. CASE UNCHANGED budgets
  BY <1>8, BudgetsUnchanged DEF budgets, BudgetsInv, BudgetsTypeOK
<1> QED
  BY <1>1, <1>2, <1>3, <1>4, <1>5, <1>6, <1>7, <1>8 DEF BudgetsNext

\* Every step of the wallet page leaves the budgets alone.
LEMMA BudgetsOfWallet ==
    ASSUME [WalletNext]_wallets
    PROVE  [BudgetsNext]_budgets
BY DEF WalletNext, wallets, FindUser, ReadWallet, ReadHistory, ReadTotal, FailLoad,
       LoadAgain

LEMMA BudgetsInvariant == PagesSpec => []BudgetsInv
<1>1. PagesInit => BudgetsInv
  BY BudgetsInvInit DEF PagesInit, WalletInit
<1>2. BudgetsInv /\ [PagesNext]_pages => BudgetsInv'
  BY StepsOfParts, BudgetsOfWallet, BudgetsInvStep
<1> QED
  BY <1>1, <1>2, PTL DEF PagesSpec

\* However the standalone operations interleave, every row of a ledger follows
\* from the one before it without overdrawing, and the last one is the wallet
\* (executeOperation of budgets.service.ts under Read Committed).
THEOREM LedgerAlwaysReplays == PagesSpec => []LedgerReplays
<1>1. BudgetsInv => LedgerReplays
  BY DEF BudgetsInv
<1> QED
  BY <1>1, BudgetsInvariant, PTL

\* What an operation is answered is so, with one row per key, although two
\* with one key may pass the look-up together (executeOperation).
THEOREM AnswersStayTrue == PagesSpec => []AnswersAreTrue
<1>1. BudgetsInv => AnswersAreTrue
  BY DEF BudgetsInv
<1> QED
  BY <1>1, BudgetsInvariant, PTL

-----------------------------------------------------------------------------
(* The wallet page.                                                        *)

\* A ledger only grows.
LEMMA LedgerGrows ==
    ASSUME BudgetsInv, [BudgetsNext]_budgets, NEW p \in Participants
    PROVE  /\ Len(ledger[p]) \in Nat /\ Len(ledger'[p]) \in Nat
           /\ Len(ledger[p]) <= Len(ledger'[p])
           /\ \A n \in 1 .. Len(ledger[p]) : ledger'[p][n] = ledger[p][n]
<1>1. ledger \in [Participants -> Seq(Row)] /\ wallet \in [Participants -> WalletType]
  BY DEF BudgetsInv, BudgetsTypeOK
<1>2. ASSUME NEW c \in Callers, RecordOperation(c)
      PROVE  \/ ledger'[p] = ledger[p]
             \/ \E row : ledger'[p] = Append(ledger[p], row)
  BY <1>1, <1>2 DEF RecordOperation
<1>3. ledger'[p] = ledger[p] \/ \E row : ledger'[p] = Append(ledger[p], row)
  BY <1>2 DEF BudgetsNext, budgets, Join, Ask, LookUpKey, TakeFunds, RefuseRecord, GiveUp
<1>4. BudgetsInv'
  BY BudgetsInvStep
<1>5. ledger'[p] \in Seq(Row)
  BY <1>4 DEF BudgetsInv, BudgetsTypeOK
<1>6. CASE ledger'[p] = ledger[p]
  BY <1>1, <1>6
<1>7. ASSUME NEW row, ledger'[p] = Append(ledger[p], row)
      PROVE  /\ Len(ledger'[p]) = Len(ledger[p]) + 1
             /\ \A n \in 1 .. Len(ledger[p]) : ledger'[p][n] = ledger[p][n]
  BY <1>1, <1>7
<1> QED
  BY <1>1, <1>3, <1>5, <1>6, <1>7

\* What the ledger of the viewer left in the wallet after n - 1 operations.
LeftBefore(n) == Before(Viewer, n)

\* The rows shown are the newest of the first k of the ledger.
ShowsFirst(k) ==
    /\ Len(view.rows) = IF k < HistoryPage THEN k ELSE HistoryPage
    /\ \A n \in 1 .. Len(view.rows) : view.rows[n] = ledger[Viewer][k + 1 - n]

\* The wallet was read where the ledger was j rows long, the rows where it was
\* at least as long, and their number not before that.
ViewInv ==
    /\ view \in View
    /\ view.stage = "rows" =>
           \E j \in 1 .. Len(ledger[Viewer]) + 1 : view.wallet = LeftBefore(j)
    /\ view.stage \in {"total", "shown"} =>
           \E k \in 0 .. Len(ledger[Viewer]) :
               /\ ShowsFirst(k)
               /\ \E j \in 1 .. k + 1 : view.wallet = LeftBefore(j)
               /\ view.stage = "shown" => view.total >= k

LEMMA ViewInvInit == WalletInit => ViewInv
<1>1. FullWallet \in WalletType
  BY MatchBudgetAssumption DEF FullWallet, WalletType
<1> QED
  BY <1>1 DEF WalletInit, ViewInv, Blank, View, Loading

\* Operations that commit behind the page.
LEMMA ViewUnchanged ==
    ASSUME BudgetsInv, ViewInv, [BudgetsNext]_budgets, UNCHANGED view
    PROVE  ViewInv'
<1>1. /\ Len(ledger[Viewer]) \in Nat /\ Len(ledger'[Viewer]) \in Nat
      /\ Len(ledger[Viewer]) <= Len(ledger'[Viewer])
      /\ \A n \in 1 .. Len(ledger[Viewer]) : ledger'[Viewer][n] = ledger[Viewer][n]
  BY LedgerGrows, WalletViewAssumption
<1>2. \A j \in 1 .. Len(ledger[Viewer]) + 1 : LeftBefore(j)' = LeftBefore(j)
  BY <1>1 DEF LeftBefore, Before
<1>3. CASE view.stage = "rows"
  BY <1>1, <1>2, <1>3 DEF ViewInv
<1>4. CASE view.stage \in {"total", "shown"}
  <2>1. PICK k \in 0 .. Len(ledger[Viewer]) :
            /\ ShowsFirst(k)
            /\ \E j \in 1 .. k + 1 : view.wallet = LeftBefore(j)
            /\ view.stage = "shown" => view.total >= k
    BY <1>4 DEF ViewInv
  <2>2. Len(view.rows) \in Nat /\ Len(view.rows) <= k
    BY <2>1, WalletViewAssumption DEF ShowsFirst
  <2>3. ShowsFirst(k)'
    <3>1. \A n \in 1 .. Len(view.rows) : k + 1 - n \in 1 .. Len(ledger[Viewer])
      BY <1>1, <2>2
    <3> QED
      BY <1>1, <2>1, <3>1 DEF ShowsFirst
  <2>4. \E j \in 1 .. k + 1 : view.wallet = LeftBefore(j)'
    BY <1>1, <1>2, <2>1
  <2> QED
    BY <1>1, <1>4, <2>1, <2>3, <2>4 DEF ViewInv
<1> QED
  BY <1>3, <1>4 DEF ViewInv

LEMMA ViewInvStep ==
    ASSUME BudgetsInv, ViewInv, [WalletNext]_wallets
    PROVE  ViewInv'
<1> DEFINE rows == ledger[Viewer]
<1>1. /\ Viewer \in Participants /\ HistoryPage \in Nat \ {0}
      /\ rows \in Seq(Row) /\ Len(rows) \in Nat
      /\ wallet[Viewer] \in WalletType /\ wallet[Viewer] = LeftBefore(Len(rows) + 1)
      /\ FullWallet \in WalletType
  BY WalletViewAssumption, MatchBudgetAssumption
     DEF BudgetsInv, BudgetsTypeOK, LedgerReplays, LeftBefore, FullWallet, WalletType
<1>2. CASE BudgetsNext /\ UNCHANGED view
  BY <1>2, ViewUnchanged
<1>3. CASE FindUser
  BY <1>3 DEF FindUser, ViewInv, View, Loading
<1>4. CASE ReadWallet
  <2>1. CASE Viewer \in joined
    <3>1. /\ view'.stage = "rows" /\ view'.wallet = wallet[Viewer]
          /\ view' \in View /\ UNCHANGED ledger
      BY <1>1, <1>4, <2>1 DEF ReadWallet, ViewInv, View, Loading, budgets
    <3>2. wallet[Viewer] = LeftBefore(Len(rows) + 1)' /\ Len(rows) + 1 \in 1 .. Len(rows') + 1
      BY <1>1, <3>1 DEF LeftBefore, Before
    <3> QED
      BY <3>1, <3>2 DEF ViewInv
  <2>2. CASE Viewer \notin joined
    BY <1>4, <2>2 DEF ReadWallet, ViewInv, View, Loading
  <2> QED
    BY <2>1, <2>2
<1>5. CASE ReadHistory
  <2>1. /\ view'.stage = "total" /\ view'.rows = NewestFirst(rows)
        /\ view'.wallet = view.wallet /\ view'.total = view.total
        /\ UNCHANGED ledger
    BY <1>5 DEF ReadHistory, ViewInv, View, budgets
  <2>2. NewestFirst(rows) \in Seq(Row)
    BY <1>1 DEF NewestFirst
  <2>3. ShowsFirst(Len(rows))'
    BY <1>1, <2>1, <2>2 DEF ShowsFirst, NewestFirst
  <2>4. \E j \in 1 .. Len(rows) + 1 : view'.wallet = LeftBefore(j)'
    BY <1>5, <2>1 DEF ReadHistory, ViewInv, LeftBefore, Before
  <2>5. view' \in View
    BY <1>5, <2>2 DEF ReadHistory, ViewInv, View, Loading
  <2> QED
    BY <1>1, <2>1, <2>3, <2>4, <2>5 DEF ViewInv
<1>6. CASE ReadTotal
  <2>1. /\ view'.stage = "shown" /\ view'.rows = view.rows
        /\ view'.wallet = view.wallet /\ view'.total = Len(rows)
        /\ UNCHANGED ledger /\ view' \in View
    BY <1>1, <1>6 DEF ReadTotal, ViewInv, View, budgets
  <2>2. PICK k \in 0 .. Len(rows) :
            /\ ShowsFirst(k)
            /\ \E j \in 1 .. k + 1 : view.wallet = LeftBefore(j)
    BY <1>6 DEF ReadTotal, ViewInv
  <2>3. ShowsFirst(k)' /\ \E j \in 1 .. k + 1 : view'.wallet = LeftBefore(j)'
    BY <2>1, <2>2 DEF ShowsFirst, LeftBefore, Before
  <2>4. k \in 0 .. Len(ledger'[Viewer]) /\ view'.total >= k
    BY <1>1, <2>1, <2>2
  <2> QED
    BY <2>1, <2>3, <2>4 DEF ViewInv
<1>7. CASE FailLoad
  <2>1. PICK s \in {"failed", "login"} : view' = [Blank EXCEPT !.stage = s]
    BY <1>7 DEF FailLoad
  <2>2. view' = [stage |-> s, wallet |-> FullWallet, rows |-> <<>>, total |-> 0]
    BY <2>1 DEF Blank
  <2>3. view' \in View /\ view'.stage = s
    BY <1>1, <2>2 DEF View
  <2> QED
    BY <2>3 DEF ViewInv
<1>8. CASE LoadAgain
  BY <1>1, <1>8 DEF LoadAgain, ViewInv, View, Blank, Loading
<1>9. CASE UNCHANGED wallets
  BY <1>9, ViewUnchanged DEF wallets
<1> QED
  BY <1>2, <1>3, <1>4, <1>5, <1>6, <1>7, <1>8, <1>9 DEF WalletNext

\* A page that shows the whole history explains the wallet it shows, whatever
\* commits between the wallet, the rows and their number (wallet-view.tsx,
\* getWalletForUser, listTransactionsForUser).
THEOREM HistoryAlwaysExplainsWallet == PagesSpec => []HistoryExplainsWallet
<1>1. PagesInit => ViewInv
  BY ViewInvInit DEF PagesInit
<1>2. BudgetsInv /\ ViewInv /\ [PagesNext]_pages => ViewInv'
  BY StepsOfParts, ViewInvStep
<1>3. BudgetsInv /\ ViewInv => HistoryExplainsWallet
  <2> SUFFICES ASSUME BudgetsInv, ViewInv, view.stage = "shown", view.total <= Len(view.rows)
               PROVE  /\ \A n \in DOMAIN view.rows :
                             view.rows[n].after = Moved(ShownBefore(n), view.rows[n].op)
                      /\ \E n \in 0 .. Len(view.rows) : view.wallet = ShownBefore(n)
    BY DEF HistoryExplainsWallet
  <2>1. PICK k \in 0 .. Len(ledger[Viewer]) :
            /\ ShowsFirst(k)
            /\ \E j \in 1 .. k + 1 : view.wallet = LeftBefore(j)
            /\ view.total >= k
    BY DEF ViewInv
  <2>2. /\ Len(ledger[Viewer]) \in Nat /\ DOMAIN ledger[Viewer] = 1 .. Len(ledger[Viewer])
        /\ view.rows \in Seq(Row) /\ view.total \in Nat
        /\ DOMAIN view.rows = 1 .. Len(view.rows)
    BY WalletViewAssumption DEF ViewInv, View, BudgetsInv, BudgetsTypeOK
  <2>3. Len(view.rows) = k
    BY <2>1, <2>2, WalletViewAssumption DEF ShowsFirst
  <2>4. \A n \in 0 .. k : ShownBefore(n) = LeftBefore(k + 1 - n)
    <3> TAKE n \in 0 .. k
    <3>1. CASE n = k
      BY <2>3, <3>1 DEF ShownBefore, LeftBefore, Before
    <3>2. CASE n # k
      <4>1. n + 1 \in 1 .. Len(view.rows) /\ k + 1 - (n + 1) = k + 1 - n - 1 /\ k + 1 - n # 1
        BY <2>3, <3>2
      <4>2. view.rows[n + 1] = ledger[Viewer][k + 1 - n - 1]
        BY <2>1, <4>1 DEF ShowsFirst
      <4> QED
        BY <2>3, <3>2, <4>1, <4>2 DEF ShownBefore, LeftBefore, Before
    <3> QED
      BY <3>1, <3>2
  <2>5. \A n \in DOMAIN view.rows :
            view.rows[n].after = Moved(ShownBefore(n), view.rows[n].op)
    <3> TAKE n \in DOMAIN view.rows
    <3>1. view.rows[n] = ledger[Viewer][k + 1 - n] /\ k + 1 - n \in DOMAIN ledger[Viewer]
      BY <2>1, <2>2, <2>3 DEF ShowsFirst
    <3>2. ledger[Viewer][k + 1 - n].after =
              Moved(LeftBefore(k + 1 - n), ledger[Viewer][k + 1 - n].op)
      BY <3>1, WalletViewAssumption DEF BudgetsInv, LedgerReplays, LeftBefore
    <3> QED
      BY <2>2, <2>3, <2>4, <3>1, <3>2
  <2>6. \E n \in 0 .. Len(view.rows) : view.wallet = ShownBefore(n)
    <3>1. PICK j \in 1 .. k + 1 : view.wallet = LeftBefore(j)
      BY <2>1
    <3>2. k + 1 - j \in 0 .. k /\ ShownBefore(k + 1 - j) = LeftBefore(j)
      BY <2>4
    <3> QED
      BY <2>3, <3>1, <3>2
  <2> QED
    BY <2>5, <2>6
<1> QED
  BY <1>1, <1>2, <1>3, BudgetsInvariant, PTL DEF PagesSpec

-----------------------------------------------------------------------------
(* The catalogs.                                                           *)

\* Whatever is under way asks for the query of the page.
CatalogInv ==
    /\ \A r \in requests : r.query = query
    /\ loading \in BOOLEAN
    /\ loading => requests # {}
    /\ ~loading /\ error = "none" => response.query = query

LEMMA LoadKeepsInv ==
    ASSUME NEW q, Load(q) PROVE CatalogInv'
BY DEF Load, RunEffect, Request, CatalogInv

LEMMA AnswerKeepsInv ==
    ASSUME CatalogInv, NEW r \in requests, Answer(r) PROVE CatalogInv'
BY DEF Answer, CatalogInv

LEMMA CatalogInvStep ==
    ASSUME CatalogInv, [CatalogNext]_catalog
    PROVE  CatalogInv'
<1>1. CASE StartSeed \/ SeedPlayer \/ SeedManager \/ SeedFormation \/ CrashSeed
  <2>1. UNCHANGED page
    BY <1>1 DEF StartSeed, SeedPlayer, SeedManager, SeedFormation, CrashSeed, Write
  <2> QED
    BY <2>1 DEF page, CatalogInv
<1>2. ASSUME NEW d \in Draft, ApplyFilters(d) PROVE CatalogInv'
  <2>1. CASE d.min > d.max
    BY <1>2, <2>1 DEF ApplyFilters, CatalogInv
  <2>2. CASE ~(d.min > d.max)
    BY <1>2, <2>2, LoadKeepsInv DEF ApplyFilters
  <2> QED
    BY <2>1, <2>2
<1>3. CASE ResetFilters \/ Retry
  BY <1>3, LoadKeepsInv DEF ResetFilters, Retry
<1>4. ASSUME NEW n, GoToPage(n) PROVE CatalogInv'
  BY <1>4, LoadKeepsInv DEF GoToPage
<1>5. ASSUME NEW r \in requests, ReadRows(r) PROVE CatalogInv'
  <2>1. [r EXCEPT !.rows = PageOf(r.query)].query = r.query
    OBVIOUS
  <2> QED
    BY <1>5, <2>1 DEF ReadRows, CatalogInv
<1>6. ASSUME NEW r \in requests, FailRequest(r) PROVE CatalogInv'
  BY <1>6 DEF FailRequest, CatalogInv
<1>7. ASSUME NEW r \in requests, ReceivePlayers(r) \/ ReceiveManagers(r) \/ ReceiveFormations(r)
      PROVE  CatalogInv'
  BY <1>7, AnswerKeepsInv DEF ReceivePlayers, ReceiveManagers, ReceiveFormations
<1>8. CASE UNCHANGED catalog
  BY <1>8 DEF catalog, CatalogInv
<1> QED
  BY <1>1, <1>2, <1>3, <1>4, <1>5, <1>6, <1>7, <1>8 DEF CatalogNext

\* However late requests are answered or fail, a catalog shows what was asked
\* for last or waits for it (the aborted effects of player-catalog.tsx and its
\* two siblings).
THEOREM PagesAnswerTheirQuery == PagesSpec => []PageAnswersQuery
<1>1. PagesInit => CatalogInv
  BY DEF PagesInit, CatalogInit, CatalogInv, Request
<1>2. CatalogInv /\ [PagesNext]_pages => CatalogInv'
  BY StepsOfParts, CatalogInvStep
<1>3. CatalogInv => PageAnswersQuery
  BY DEF CatalogInv, PageAnswersQuery
<1> QED
  BY <1>1, <1>2, <1>3, PTL DEF PagesSpec

-----------------------------------------------------------------------------
(* The seed.                                                               *)

Codes == {Data[kind][n].code : n \in DOMAIN Data[kind]}

CatalogRow == [id : Nat, code : STRING, rating : Int, neutral : BOOLEAN]

\* What the seed knows of a table: the unique indexes, and whose codes it has.
CleanTable(rows) ==
    /\ rows \in SUBSET CatalogRow
    /\ IsFiniteSet(rows)
    /\ \A r, s \in rows : r.id = s.id \/ r.code = s.code => r = s

\* A row of the table has what a row of the data has.
HasRow(rows, d) ==
    \E r \in rows : r.code = d.code /\ r.rating = d.rating /\ r.neutral = d.neutral

\* The rows before the seed's next one are written, and the row of an older
\* seed is there only while none of this one is.
SeedInv ==
    /\ kind \in Kinds
    /\ CleanTable(table)
    /\ seed \in 0 .. Len(Data[kind]) + 1
    /\ \/ \A r \in table : r.code \in Codes
       \/ /\ kind = "formations" /\ seed \in {0, 1}
          /\ \E r \in table : table = {r} /\ r.code \in DOMAIN Leftover
    /\ \A n \in 1 .. seed - 1 : HasRow(table, Data[kind][n])

\* The data of the open catalog.
LEMMA SeedDataType ==
    ASSUME kind \in Kinds
    PROVE  /\ Data[kind] \in Seq(SeedRow)
           /\ Len(Data[kind]) \in Nat /\ DOMAIN Data[kind] = 1 .. Len(Data[kind])
           /\ \A n \in DOMAIN Data[kind] : Data[kind][n] \in SeedRow
           /\ \A m, n \in DOMAIN Data[kind] :
                  Data[kind][m].code = Data[kind][n].code => m = n
<1>1. Data[kind] \in Seq(SeedRow)
  BY CatalogAssumption
<1> QED
  BY <1>1, CatalogAssumption

LEMMA SeedInvInit == CatalogInit => SeedInv
<1> SUFFICES ASSUME CatalogInit PROVE SeedInv
  OBVIOUS
<1>1. kind \in Kinds /\ seed = 0 /\ Len(Data[kind]) \in Nat
  BY SeedDataType DEF CatalogInit, Off
<1>2. CASE table = {}
  BY <1>1, <1>2, FS_EmptySet DEF SeedInv, CleanTable
<1>3. ASSUME NEW code \in DOMAIN Leftover, NEW rating \in Ratings,
             kind = "formations",
             table = {[id |-> 1, code |-> code, rating |-> rating, neutral |-> FALSE]}
      PROVE  SeedInv
  <2> DEFINE r == [id |-> 1, code |-> code, rating |-> rating, neutral |-> FALSE]
  <2>1. r \in CatalogRow /\ r.code \in DOMAIN Leftover
    BY CatalogAssumption DEF CatalogRow
  <2>2. table = {r}
    BY <1>3
  <2> HIDE DEF r
  <2>3. CleanTable(table)
    BY <2>1, <2>2, FS_Singleton DEF CleanTable
  <2> QED
    BY <1>1, <1>3, <2>1, <2>2, <2>3 DEF SeedInv
<1> QED
  BY <1>2, <1>3 DEF CatalogInit, OldRows

\* The formation an older seed left gets its new name; nothing else changes.
LEMMA RenamedIsClean ==
    ASSUME SeedInv, kind = "formations"
    PROVE  /\ CleanTable(Renamed(table))
           /\ \A r \in Renamed(table) : r.code \in Codes
           /\ {r.id : r \in Renamed(table)} = {r.id : r \in table}
<1> DEFINE New(r) == IF r.code \in DOMAIN Leftover
                       THEN [r EXCEPT !.code = Leftover[r.code]] ELSE r
<1>1. Renamed(table) = {New(r) : r \in table}
  BY DEF Renamed
<1>2. CASE \A r \in table : r.code \in Codes
  <2>1. \A r \in table : r.code \notin DOMAIN Leftover
    BY <1>2, CatalogAssumption DEF Codes
  <2>2. \A r \in table : New(r) = r
    BY <2>1
  <2> HIDE DEF New
  <2>3. Renamed(table) = table
    BY <1>1, <2>2
  <2> QED
    BY <1>2, <2>3 DEF SeedInv
<1>3. ASSUME NEW r \in table, table = {r}, r.code \in DOMAIN Leftover
      PROVE  /\ CleanTable(Renamed(table))
             /\ \A x \in Renamed(table) : x.code \in Codes
             /\ {x.id : x \in Renamed(table)} = {x.id : x \in table}
  <2>1. Renamed(table) = {New(r)}
    BY <1>1, <1>3
  <2>2. r \in CatalogRow
    BY DEF SeedInv, CleanTable
  <2>3. Leftover[r.code] \in Codes
    BY <1>3, CatalogAssumption DEF Codes
  <2>4. Leftover[r.code] \in STRING
    BY <1>3, SeedDataType, CatalogAssumption DEF Kinds, SeedRow
  <2>5. New(r) \in CatalogRow /\ New(r).code \in Codes /\ New(r).id = r.id
    BY <1>3, <2>2, <2>3, <2>4 DEF CatalogRow
  <2> HIDE DEF New
  <2>6. CleanTable({New(r)})
    <3>1. IsFiniteSet({New(r)})
      BY FS_Singleton
    <3> QED
      BY <2>5, <3>1 DEF CleanTable
  <2>7. {x.id : x \in {New(r)}} = {x.id : x \in {r}}
    BY <2>5
  <2> QED
    BY <1>3, <2>1, <2>5, <2>6, <2>7
<1> QED
  BY <1>2, <1>3 DEF SeedInv

\* An upsert finds the row of its code or inserts one under a fresh id: it
\* keeps the unique indexes and the rows of other codes.
LEMMA UpsertKeeps ==
    ASSUME kind \in Kinds, NEW rows, CleanTable(rows),
           \A r \in rows : r.code \in Codes,
           {r.id : r \in rows} = {r.id : r \in table},
           NEW n \in DOMAIN Data[kind], NEW after \in Upsert(rows, Data[kind][n])
    PROVE  /\ CleanTable(after)
           /\ \A r \in after : r.code \in Codes
           /\ HasRow(after, Data[kind][n])
           /\ \A m \in DOMAIN Data[kind] :
                  m # n /\ HasRow(rows, Data[kind][m]) => HasRow(after, Data[kind][m])
<1> DEFINE d == Data[kind][n]
           found == {r \in rows : r.code = d.code}
           New(id) == [id |-> id, code |-> d.code, rating |-> d.rating,
                       neutral |-> d.neutral]
<1>1. d \in SeedRow /\ d.code \in Codes
  BY SeedDataType DEF Codes
<1>2. \A id \in Nat : /\ New(id) \in CatalogRow /\ New(id).id = id
                      /\ New(id).code = d.code /\ New(id).rating = d.rating
                      /\ New(id).neutral = d.neutral
  BY <1>1 DEF SeedRow, CatalogRow
<1>3. \A m \in DOMAIN Data[kind] : m # n => Data[kind][m].code # d.code
  BY SeedDataType
<1>4. PICK id \in Nat :
          /\ after = (rows \ found) \cup {New(id)}
          /\ \A r \in rows \ found : r.id # id
  <2>1. CASE found # {}
    <3>1. PICK r : r \in found
      BY <2>1
    <3>2. found = {r} /\ r.id \in Nat /\ \A s \in rows \ found : s.id # r.id
      BY <3>1 DEF CleanTable, CatalogRow
    <3>3. after = (rows \ found) \cup {New(x.id) : x \in found}
      BY <2>1 DEF Upsert
    <3> HIDE DEF New, found
    <3>4. {New(x.id) : x \in found} = {New(r.id)}
      BY <3>2
    <3> QED
      BY <3>2, <3>3, <3>4
  <2>2. CASE found = {}
    <3>1. PICK id \in FreshIds : after = rows \cup {New(id)}
      BY <2>2 DEF Upsert
    <3>2. id \in Nat /\ \A r \in rows : r.id # id
      BY SeedDataType DEF FreshIds
    <3>3. rows \ found = rows
      BY <2>2
    <3> HIDE DEF New, found
    <3> QED
      BY <3>1, <3>2, <3>3
  <2> QED
    BY <2>1, <2>2
<1>5. \A r \in rows \ found : r \in CatalogRow /\ r.code \in Codes /\ r.code # d.code
  BY DEF CleanTable
<1>6. IsFiniteSet(rows \ found)
  <2>1. rows \ found \in SUBSET rows
    OBVIOUS
  <2> HIDE DEF found
  <2> QED
    BY <2>1, FS_Subset DEF CleanTable
<1>7. \A m \in DOMAIN Data[kind] :
          m # n /\ HasRow(rows, Data[kind][m]) => HasRow(rows \ found, Data[kind][m])
  BY <1>3 DEF HasRow
<1>8. New(id) \in CatalogRow /\ New(id).id = id /\ New(id).code = d.code
      /\ HasRow({New(id)}, d)
  BY <1>2 DEF HasRow
<1> DEFINE new == New(id)
           kept == rows \ found
<1>9. \A r, s \in kept : r.id = s.id \/ r.code = s.code => r = s
  BY DEF CleanTable
<1> HIDE DEF New, new, found, kept
<1>10. after = kept \cup {new}
  BY <1>4 DEF new, kept
<1>11. CleanTable(after)
  <2>1. IsFiniteSet(after)
    BY <1>6, <1>10, FS_AddElement DEF kept
  <2>2. after \in SUBSET CatalogRow
    BY <1>5, <1>8, <1>10 DEF kept, new
  <2>3. \A r \in kept : r.id # new.id /\ r.code # new.code
    BY <1>4, <1>5, <1>8 DEF kept, new
  <2> QED
    BY <1>9, <1>10, <2>1, <2>2, <2>3 DEF CleanTable
<1>12. \A r \in after : r.code \in Codes
  BY <1>1, <1>5, <1>8, <1>10 DEF kept, new
<1>13. HasRow(after, d)
  BY <1>8, <1>10 DEF HasRow, new
<1>14. \A m \in DOMAIN Data[kind] :
           m # n /\ HasRow(rows, Data[kind][m]) => HasRow(after, Data[kind][m])
  BY <1>7, <1>10 DEF HasRow, kept
<1> QED
  BY <1>11, <1>12, <1>13, <1>14

LEMMA WriteStep ==
    ASSUME SeedInv, NEW rows, CleanTable(rows), \A r \in rows : r.code \in Codes,
           {r.id : r \in rows} = {r.id : r \in table},
           \A n \in 1 .. seed - 1 : HasRow(rows, Data[kind][n]),
           Write(rows)
    PROVE  SeedInv'
<1>1. /\ seed \in DOMAIN Data[kind] /\ seed' = seed + 1 /\ kind' = kind
      /\ table' \in Upsert(rows, Data[kind][seed])
  BY DEF Write
<1>2. /\ kind \in Kinds /\ DOMAIN Data[kind] = 1 .. Len(Data[kind])
      /\ Len(Data[kind]) \in Nat
  BY SeedDataType DEF SeedInv
<1>3. /\ CleanTable(table')
      /\ \A r \in table' : r.code \in Codes
      /\ HasRow(table', Data[kind][seed])
      /\ \A m \in DOMAIN Data[kind] :
             m # seed /\ HasRow(rows, Data[kind][m]) => HasRow(table', Data[kind][m])
  BY <1>1, <1>2, UpsertKeeps
<1>4. \A n \in 1 .. seed' - 1 : HasRow(table', Data[kind][n])
  BY <1>1, <1>2, <1>3
<1>5. CleanTable(table)' <=> CleanTable(table')
  BY DEF CleanTable
<1>6. \A n : HasRow(table, Data[kind][n])' <=> HasRow(table', Data[kind][n])
  BY <1>1 DEF HasRow
<1>7. Codes' = Codes
  BY <1>1 DEF Codes
<1> QED
  BY <1>1, <1>2, <1>3, <1>4, <1>5, <1>6, <1>7 DEF SeedInv

\* The seed writes rows in their order, over whatever it finds; a crash only
\* sends it back to the first.
LEMMA SeedInvStep ==
    ASSUME SeedInv, [CatalogNext]_catalog
    PROVE  SeedInv'
<1>1. CASE UNCHANGED <<kind, table>> /\ seed' \in {seed, 0}
  BY <1>1, SeedDataType DEF SeedInv, CleanTable, HasRow, Codes
<1>2. CASE StartSeed
  BY <1>2, SeedDataType DEF StartSeed, Off, Done, SeedInv, CleanTable, HasRow, Codes
<1>3. CASE SeedPlayer \/ SeedManager
  <2>1. kind # "formations" /\ Write(table)
    BY <1>3 DEF SeedPlayer, SeedManager
  <2> QED
    BY <2>1, WriteStep DEF SeedInv
<1>4. CASE SeedFormation
  <2>1. CASE seed = 1
    <3>1. kind = "formations" /\ Write(Renamed(table))
      BY <1>4, <2>1 DEF SeedFormation
    <3>2. \A n \in 1 .. seed - 1 : HasRow(Renamed(table), Data[kind][n])
      BY <2>1
    <3> QED
      BY <3>1, <3>2, RenamedIsClean, WriteStep
  <2>2. CASE seed # 1
    <3>1. Write(table) /\ seed \in DOMAIN Data[kind]
      BY <1>4, <2>2 DEF SeedFormation, Write
    <3>2. seed # 0
      BY <3>1, SeedDataType DEF SeedInv
    <3> QED
      BY <2>2, <3>1, <3>2, WriteStep DEF SeedInv
  <2> QED
    BY <2>1, <2>2
<1>5. CASE CrashSeed
  BY <1>1, <1>5 DEF CrashSeed, Off
<1>6. ASSUME NEW q, Load(q) PROVE SeedInv'
  BY <1>1, <1>6 DEF Load, server
<1>7. ASSUME NEW d, ApplyFilters(d) PROVE SeedInv'
  BY <1>1, <1>6, <1>7 DEF ApplyFilters, server
<1>8. CASE ResetFilters \/ Retry \/ \E n : GoToPage(n)
  BY <1>6, <1>8 DEF ResetFilters, Retry, GoToPage
<1>9. ASSUME NEW r \in requests, ReadRows(r) \/ FailRequest(r) PROVE SeedInv'
  BY <1>1, <1>9 DEF ReadRows, FailRequest, server
<1>10. ASSUME NEW r \in requests,
              ReceivePlayers(r) \/ ReceiveManagers(r) \/ ReceiveFormations(r)
       PROVE  SeedInv'
  BY <1>1, <1>10 DEF ReceivePlayers, ReceiveManagers, ReceiveFormations, Answer, server
<1>11. CASE UNCHANGED catalog
  BY <1>1, <1>11 DEF catalog
<1> QED
  BY <1>2, <1>3, <1>4, <1>5, <1>7, <1>8, <1>9, <1>10, <1>11 DEF CatalogNext

\* A table that has every row of the data, once, and no other.
LEMMA SeededTable ==
    ASSUME SeedInv, seed = Done
    PROVE  /\ Cardinality(table) = Len(Data[kind])
           /\ \A n \in DOMAIN Data[kind] :
                  {[code |-> r.code, rating |-> r.rating, neutral |-> r.neutral] :
                      r \in WithCode(Data[kind][n].code)} = {Data[kind][n]}
<1>1. /\ kind \in Kinds /\ Len(Data[kind]) \in Nat
      /\ DOMAIN Data[kind] = 1 .. Len(Data[kind]) /\ seed - 1 = Len(Data[kind])
      /\ CleanTable(table)
  BY SeedDataType DEF SeedInv, Done
<1>2. \A n \in DOMAIN Data[kind] : HasRow(table, Data[kind][n])
  BY <1>1 DEF SeedInv
<1>3. \A r \in table : r.code \in Codes
  <2>1. CASE kind = "formations" /\ seed \in {0, 1} /\ \E r \in table : r.code \in DOMAIN Leftover
    <3>1. Len(Data["formations"]) = 0 /\ DOMAIN Data["formations"] = {}
      BY <1>1, <2>1
    <3> QED
      BY <2>1, <3>1, CatalogAssumption
  <2> QED
    BY <2>1 DEF SeedInv
<1> DEFINE RowOf(n) == CHOOSE r \in table : r.code = Data[kind][n].code
           f == [n \in 1 .. Len(Data[kind]) |-> RowOf(n)]
<1>4. \A n \in DOMAIN Data[kind] : /\ RowOf(n) \in table
                                   /\ RowOf(n).code = Data[kind][n].code
  BY <1>2 DEF HasRow
<1>5. f \in [1 .. Len(Data[kind]) -> table]
  BY <1>1, <1>4
<1>6. \A m, n \in 1 .. Len(Data[kind]) : f[m] = f[n] => m = n
  <2> TAKE m, n \in 1 .. Len(Data[kind])
  <2>1. f[m].code = Data[kind][m].code /\ f[n].code = Data[kind][n].code
    BY <1>1, <1>4
  <2> QED
    BY <1>1, <2>1, SeedDataType
<1>7. \A r \in table : \E n \in 1 .. Len(Data[kind]) : f[n] = r
  <2> TAKE r \in table
  <2>1. PICK n \in 1 .. Len(Data[kind]) : r.code = Data[kind][n].code
    BY <1>1, <1>3 DEF Codes
  <2>2. f[n] \in table /\ f[n].code = r.code
    BY <1>1, <1>4, <2>1
  <2> QED
    BY <1>1, <2>1, <2>2 DEF CleanTable
<1>8. Cardinality(table) = Len(Data[kind])
  <2> HIDE DEF f
  <2>1. f \in Bijection(1 .. Len(Data[kind]), table)
    BY <1>5, <1>6, <1>7 DEF Bijection, Injection, Surjection, IsInjective
  <2>2. ExistsBijection(1 .. Len(Data[kind]), table)
    BY <2>1 DEF ExistsBijection
  <2> QED
    BY <1>1, <2>2, FS_CountingElements
<1>9. ASSUME NEW n \in DOMAIN Data[kind]
      PROVE  {[code |-> r.code, rating |-> r.rating, neutral |-> r.neutral] :
                 r \in WithCode(Data[kind][n].code)} = {Data[kind][n]}
  <2> DEFINE d == Data[kind][n]
  <2>1. PICK r \in table : r.code = d.code /\ r.rating = d.rating /\ r.neutral = d.neutral
    BY <1>2 DEF HasRow
  <2>2. WithCode(d.code) = {r}
    BY <1>1, <2>1 DEF CleanTable, WithCode
  <2>3. [code |-> r.code, rating |-> r.rating, neutral |-> r.neutral] = d
    BY <1>1, <2>1, SeedDataType DEF SeedRow
  <2> QED
    BY <2>2, <2>3
<1> QED
  BY <1>8, <1>9

\* Run again after any crash and over the row of an older version, the seed
\* ends with the rows of its data, one of each (the upserts of seed.ts and the
\* updateMany before the formations).
THEOREM SeedAlwaysConverges == PagesSpec => []SeedConverges
<1>1. PagesInit => SeedInv
  BY SeedInvInit DEF PagesInit
<1>2. SeedInv /\ [PagesNext]_pages => SeedInv'
  BY StepsOfParts, SeedInvStep
<1>3. SeedInv => SeedConverges
  BY SeededTable DEF SeedConverges
<1> QED
  BY <1>1, <1>2, <1>3, PTL DEF PagesSpec

-----------------------------------------------------------------------------
(* The pages of a catalog.                                                 *)

\* What a query finds is some of the table.
LEMMA FoundIsTable ==
    ASSUME SeedInv, NEW q
    PROVE  /\ Find(q) \subseteq table
           /\ IsFiniteSet(Find(q))
           /\ Cardinality(Find(q)) \in Nat
<1>1. Find(q) \subseteq table
  BY DEF SeedInv, Kinds, Find, FindPlayers, FindManagers, FindFormations
<1>2. IsFiniteSet(Find(q))
  BY <1>1, FS_Subset DEF SeedInv, CleanTable
<1> QED
  BY <1>1, <1>2, FS_CardinalityType

\* The number orders the rows and the identifier those that tie: a total order.
LEMMA RowsAreOrdered ==
    ASSUME SeedInv, NEW q
    PROVE  \A x, y, z \in table :
               /\ ~Precedes(x, x, q)
               /\ Precedes(x, y, q) /\ Precedes(y, z, q) => Precedes(x, z, q)
               /\ x = y \/ Precedes(x, y, q) \/ Precedes(y, x, q)
<1> TAKE x, y, z \in table
<1>1. /\ x.id \in Nat /\ y.id \in Nat /\ z.id \in Nat
      /\ x.rating \in Int /\ y.rating \in Int /\ z.rating \in Int
      /\ x.id = y.id => x = y
  BY DEF SeedInv, CleanTable, CatalogRow
<1> QED
  BY <1>1 DEF Precedes

\* A row has fewer before it than are found, and fewer than a row after it.
LEMMA RanksFollowOrder ==
    ASSUME SeedInv, NEW q
    PROVE  /\ \A r \in Find(q) : Rank(r, q) \in 0 .. Cardinality(Find(q)) - 1
           /\ \A r, s \in Find(q) : Precedes(r, s, q) => Rank(r, q) < Rank(s, q)
<1> DEFINE Below(r) == {x \in Find(q) : Precedes(x, r, q)}
<1>1. \A r : Below(r) \in SUBSET Find(q) /\ Rank(r, q) = Cardinality(Below(r))
  BY DEF Rank
<1>2. \A r \in Find(q) : r \notin Below(r)
  BY FoundIsTable, RowsAreOrdered
<1>3. \A r, s \in Find(q) : Precedes(r, s, q) => Below(r) \cup {r} \in SUBSET Below(s)
  BY FoundIsTable, RowsAreOrdered
<1> HIDE DEF Below
<1>4. \A r : IsFiniteSet(Below(r)) /\ Cardinality(Below(r)) \in Nat
  BY <1>1, FoundIsTable, FS_Subset, FS_CardinalityType
<1>5. \A r \in Find(q) : Cardinality(Below(r) \cup {r}) = Cardinality(Below(r)) + 1
  BY <1>2, <1>4, FS_AddElement
<1>6. ASSUME NEW r \in Find(q) PROVE Rank(r, q) \in 0 .. Cardinality(Find(q)) - 1
  <2>1. Below(r) \cup {r} \in SUBSET Find(q)
    BY <1>1
  <2>2. Cardinality(Below(r) \cup {r}) <= Cardinality(Find(q))
    BY <2>1, FoundIsTable, FS_Subset
  <2> QED
    BY <1>1, <1>4, <1>5, <2>2, FoundIsTable
<1>7. ASSUME NEW r \in Find(q), NEW s \in Find(q), Precedes(r, s, q)
      PROVE  Rank(r, q) < Rank(s, q)
  <2>1. Cardinality(Below(r) \cup {r}) <= Cardinality(Below(s))
    BY <1>3, <1>4, <1>7, FS_Subset
  <2> QED
    BY <1>1, <1>4, <1>5, <2>1
<1> QED
  BY <1>6, <1>7

\* So the rows found are numbered from 0, each number the rank of one of them.
LEMMA RanksNumberRows ==
    ASSUME SeedInv, NEW q
    PROVE  /\ \A r, s \in Find(q) : Rank(r, q) = Rank(s, q) => r = s
           /\ \A k \in 0 .. Cardinality(Find(q)) - 1 : \E r \in Find(q) : Rank(r, q) = k
<1> DEFINE n == Cardinality(Find(q))
           f == [r \in Find(q) |-> Rank(r, q)]
<1>1. n \in Nat
  BY FoundIsTable
<1>2. f \in [Find(q) -> 0 .. n - 1]
  BY RanksFollowOrder
<1>3. ASSUME NEW r \in Find(q), NEW s \in Find(q), Rank(r, q) = Rank(s, q) PROVE r = s
  <2>1. Rank(r, q) \in Int /\ Rank(s, q) \in Int
    BY <1>1, RanksFollowOrder
  <2>2. ~Precedes(r, s, q) /\ ~Precedes(s, r, q)
    BY <1>3, <2>1, RanksFollowOrder
  <2> QED
    BY <2>2, FoundIsTable, RowsAreOrdered
<1>4. \A r, s \in Find(q) : f[r] = f[s] => r = s
  BY <1>3
<1>5. IsFiniteSet(0 .. n - 1) /\ Cardinality(0 .. n - 1) = n
  BY <1>1, FS_Interval
<1> HIDE DEF f
<1>6. f \in Injection(Find(q), 0 .. n - 1)
  BY <1>2, <1>4 DEF Injection, IsInjective
<1>7. f \in Surjection(Find(q), 0 .. n - 1)
  BY <1>5, <1>6, FS_Injection
<1>8. \A k \in 0 .. n - 1 : \E r \in Find(q) : f[r] = k
  BY <1>7 DEF Surjection
<1> QED
  BY <1>3, <1>8 DEF f

\* The rows of the ranks from one to another are as many as those ranks.
LEMMA RanksCountRows ==
    ASSUME SeedInv, NEW q, NEW a \in Nat, NEW b \in Int
    PROVE  Cardinality({r \in Find(q) : Rank(r, q) \in a .. b}) =
               Cardinality({k \in a .. b : k < Cardinality(Find(q))})
<1> DEFINE S == {r \in Find(q) : Rank(r, q) \in a .. b}
           T == {k \in a .. b : k < Cardinality(Find(q))}
           f == [r \in S |-> Rank(r, q)]
<1>1. Cardinality(Find(q)) \in Nat
  BY FoundIsTable
<1>2. f \in [S -> T]
  BY <1>1, RanksFollowOrder
<1>3. \A r, s \in S : f[r] = f[s] => r = s
  BY RanksNumberRows
<1>4. \A k \in T : \E r \in S : f[r] = k
  <2> TAKE k \in T
  <2>1. k \in 0 .. Cardinality(Find(q)) - 1 /\ k \in a .. b
    BY <1>1
  <2>2. PICK r \in Find(q) : Rank(r, q) = k
    BY <2>1, RanksNumberRows
  <2> QED
    BY <2>1, <2>2
<1>5. IsFiniteSet(S)
  <2>1. S \in SUBSET Find(q)
    OBVIOUS
  <2> QED
    BY <2>1, FoundIsTable, FS_Subset
<1> HIDE DEF f, S, T
<1>6. f \in Bijection(S, T)
  BY <1>2, <1>3, <1>4 DEF Bijection, Injection, Surjection, IsInjective
<1>7. Cardinality(T) = Cardinality(S)
  BY <1>5, <1>6, FS_Bijection DEF ExistsBijection
<1> QED
  BY <1>7 DEF S, T

\* The last page is the one the last row is on.
LEMMA LastPage ==
    ASSUME NEW total \in Nat
    PROVE  /\ TotalPages(total) \in Nat
           /\ total <= TotalPages(total) * PageSize
           /\ TotalPages(total) * PageSize < total + PageSize
<1>1. PageSize \in Nat \ {0}
  BY CatalogAssumption
<1>2. total + PageSize - 1 \in Nat
  BY <1>1
<1>3. \A a \in Nat, p \in Nat \ {0} : /\ a \div p \in Nat
                                      /\ (a \div p) * p <= a /\ a < (a \div p) * p + p
  OBVIOUS
<1>4. LET t == (total + PageSize - 1) \div PageSize
      IN  /\ t \in Nat
          /\ t * PageSize <= total + PageSize - 1
          /\ total + PageSize - 1 < t * PageSize + PageSize
  BY <1>1, <1>2, <1>3
<1>5. ((total + PageSize - 1) \div PageSize) * PageSize \in Nat
  BY <1>1, <1>4
<1> QED
  BY <1>1, <1>4, <1>5 DEF TotalPages

\* Where the pages before one end, and where it would end if it were full.
LEMMA PageBounds ==
    ASSUME NEW m \in Nat, NEW n \in Nat
    PROVE  /\ m * PageSize \in Nat
           /\ (m + 1) * PageSize = m * PageSize + PageSize
           /\ m <= n => m * PageSize <= n * PageSize
<1>1. PageSize \in Nat \ {0}
  BY CatalogAssumption
<1> QED
  BY <1>1

\* A query asks for a page from 1 on.
LEMMA PageIsNumber ==
    ASSUME SeedInv, NEW q \in Queries
    PROVE  q.page \in Nat \ {0}
<1>1. Len(Data[kind]) \in Nat
  BY SeedDataType DEF SeedInv
<1>2. q.page \in 1 .. Len(Data[kind]) + 1
  BY DEF Queries
<1> QED
  BY <1>1, <1>2

\* A page is full, or the last and what is left, or past the last and empty.
LEMMA PageIsFull ==
    ASSUME SeedInv, NEW q \in Queries
    PROVE  LET total == Cardinality(Find(q))
           IN  Cardinality(PageOf(q)) =
                   IF q.page < TotalPages(total) THEN PageSize
                   ELSE IF q.page = TotalPages(total)
                     THEN total - (q.page - 1) * PageSize ELSE 0
<1> DEFINE total == Cardinality(Find(q))
           last == TotalPages(total)
           start == (q.page - 1) * PageSize
           end == q.page * PageSize - 1
           Shown == {k \in start .. end : k < total}
<1>1. PageSize \in Nat \ {0} /\ total \in Nat /\ q.page \in Nat \ {0}
  <2>1. PageSize \in Nat \ {0}
    BY CatalogAssumption
  <2>2. total \in Nat
    BY FoundIsTable
  <2>3. q.page \in Nat \ {0}
    BY PageIsNumber
  <2> QED
    BY <2>1, <2>2, <2>3
<1>2. /\ last \in Nat /\ last * PageSize \in Nat
      /\ total <= last * PageSize /\ last * PageSize < total + PageSize
  BY <1>1, LastPage, PageBounds
<1>3. q.page - 1 \in Nat /\ q.page = (q.page - 1) + 1
  BY <1>1
<1>4. start \in Nat /\ end = start + PageSize - 1 /\ end \in Int
  BY <1>1, <1>3, PageBounds
<1>5. Cardinality(PageOf(q)) = Cardinality(Shown)
  BY <1>4, RanksCountRows DEF PageOf
<1> DEFINE Size == IF q.page < last THEN PageSize
                   ELSE IF q.page = last THEN total - start ELSE 0
<1>6. end = q.page * PageSize - 1 /\ start = (q.page - 1) * PageSize
  OBVIOUS
<1>shown. Shown = {k \in start .. end : k < total}
  OBVIOUS
<1> HIDE DEF start, end, last, total, Shown
<1>7. ASSUME q.page < last PROVE Cardinality(PageOf(q)) = PageSize
  <2>1. q.page + 1 <= last /\ q.page + 1 \in Nat /\ q.page \in Nat
    BY <1>1, <1>2, <1>7
  <2>2. q.page * PageSize + PageSize <= last * PageSize
    BY <1>2, <2>1, PageBounds
  <2>3. end < total
    BY <1>1, <1>2, <1>4, <1>6, <2>2
  <2>4. Shown = start .. end
    BY <1>1, <1>4, <1>shown, <2>3
  <2> QED
    BY <1>1, <1>4, <1>5, <2>4, FS_Interval
<1>8. ASSUME q.page = last PROVE Cardinality(PageOf(q)) = total - start
  <2>1. start < total /\ total <= end + 1
    BY <1>1, <1>2, <1>4, <1>6, <1>8
  <2>2. Shown = start .. total - 1
    BY <1>1, <1>4, <1>shown, <2>1
  <2>3. Cardinality(start .. total - 1) = total - start
    BY <1>1, <1>4, <2>1, FS_Interval
  <2> QED
    BY <1>5, <2>2, <2>3
<1>9. ASSUME last < q.page PROVE Cardinality(PageOf(q)) = 0
  <2>1. last <= q.page - 1
    BY <1>1, <1>2, <1>9
  <2>2. last * PageSize <= start
    BY <1>2, <1>3, <1>6, <2>1, PageBounds
  <2>3. total <= start
    BY <1>1, <1>2, <1>4, <2>2
  <2>4. Shown = {}
    BY <1>1, <1>4, <1>shown, <2>3
  <2> QED
    BY <1>5, <2>4, FS_EmptySet
<1>10. q.page < last \/ q.page = last \/ last < q.page
  BY <1>1, <1>2
<1>11. Cardinality(PageOf(q)) = Size
  BY <1>1, <1>2, <1>7, <1>8, <1>9, <1>10
<1> QED
  BY <1>11 DEF last, total, start

\* The pages of a query are cut from one numbering: they have no row in common.
LEMMA PagesAreDisjoint ==
    ASSUME SeedInv, NEW q \in Queries, NEW n \in 1 .. q.page - 1
    PROVE  PageOf(q) \cap PageOf([q EXCEPT !.page = n]) = {}
<1> DEFINE p == [q EXCEPT !.page = n]
<1>1. PageSize \in Nat \ {0} /\ q.page \in Nat /\ n \in Nat
  BY CatalogAssumption, PageIsNumber
<1>2. p.min = q.min /\ p.max = q.max /\ p.order = q.order /\ p.page = n
  BY DEF Queries
<1> HIDE DEF p
<1>3. Find(p) = Find(q)
  BY <1>2 DEF Find, FindPlayers, FindManagers, FindFormations, InRange
<1>4. \A x, y : Precedes(x, y, p) <=> Precedes(x, y, q)
  BY <1>2 DEF Precedes
<1>5. \A r : Rank(r, p) = Rank(r, q)
  BY <1>3, <1>4 DEF Rank
<1>6. n * PageSize \in Nat /\ n * PageSize <= (q.page - 1) * PageSize
      /\ (q.page - 1) * PageSize \in Nat
  BY <1>1, PageBounds
<1>7. ASSUME NEW r \in PageOf(q), r \in PageOf(p) PROVE FALSE
  <2>1. /\ r \in Find(q)
        /\ Rank(r, q) \in (q.page - 1) * PageSize .. q.page * PageSize - 1
        /\ Rank(r, q) \in (n - 1) * PageSize .. n * PageSize - 1
    BY <1>2, <1>5, <1>7 DEF PageOf
  <2>2. Rank(r, q) \in Int
    BY <2>1, FoundIsTable, RanksFollowOrder
  <2> QED
    BY <1>6, <2>1, <2>2
<1> QED
  BY <1>7 DEF p

\* A user who turns the pages of a catalog meets every row that matches once
\* (skip, take and the orderBy of the three services), whatever the seed is
\* doing to the table.
THEOREM PagesAlwaysPartition == PagesSpec => []PagesPartition
<1>1. PagesInit => SeedInv
  BY SeedInvInit DEF PagesInit
<1>2. SeedInv /\ [PagesNext]_pages => SeedInv'
  BY StepsOfParts, SeedInvStep
<1>3. SeedInv => PagesPartition
  BY PageIsFull, PagesAreDisjoint DEF PagesPartition
<1> QED
  BY <1>1, <1>2, <1>3, PTL DEF PagesSpec

-----------------------------------------------------------------------------
(* The nomination form.                                                    *)

Amount == {0} \cup Typed \cup {MarketValue[a] : a \in DOMAIN MarketValue}

Form == [stage : {"loading", "loaded", "failed"}, type : AssetTypes,
         asset : DOMAIN MarketValue \cup {NoAsset},
         price : [amount : Amount, typed : BOOLEAN], increment : BOOLEAN]

\* An asset of the type, or the first player.
Nominable(lists, t, a) ==
    \/ \E n \in DOMAIN lists[t] : lists[t][n] = a
    \/ lists["PLAYER"] # <<>> /\ a = Head(lists["PLAYER"])

\* Nothing is selected before the catalogs are there, and what is sent was
\* selected from those the form still has.
FormInv ==
    /\ assets \in [AssetTypes -> Seq(DOMAIN MarketValue)]
    /\ form \in Form
    /\ form.stage # "loaded" => assets = NoAssets /\ form.asset = NoAsset
    /\ form.asset # NoAsset => Nominable(assets, form.type, form.asset)
    /\ sent # NotSent => /\ form.stage = "loaded"
                         /\ sent.amount \in MinPrice .. MaxPrice
                         /\ Nominable(assets, sent.type, sent.asset)

\* Selecting the first of a list selects one of it, or nothing.
LEMMA SelectedIsOfList ==
    ASSUME NEW f \in Form, NEW list \in Seq(DOMAIN MarketValue)
    PROVE  /\ Selected(f, list) \in Form
           /\ Selected(f, list).stage = f.stage /\ Selected(f, list).type = f.type
           /\ list = <<>> => Selected(f, list).asset = NoAsset
           /\ list # <<>> => /\ Selected(f, list).asset = Head(list)
                             /\ \E n \in DOMAIN list : list[n] = Head(list)
<1>1. CASE list = <<>>
  BY <1>1 DEF Selected, Form, NoPrice, Amount
<1>2. CASE list # <<>>
  <2>1. Head(list) \in DOMAIN MarketValue /\ 1 \in DOMAIN list /\ list[1] = Head(list)
    BY <1>2
  <2>2. PriceOf(Head(list)) \in [amount : Amount, typed : BOOLEAN]
    BY <2>1 DEF PriceOf, Amount
  <2> QED
    BY <1>2, <2>1, <2>2 DEF Selected, Form
<1> QED
  BY <1>1, <1>2

LEMMA EmptyFormIsTyped ==
    /\ NoAssets \in [AssetTypes -> Seq(DOMAIN MarketValue)]
    /\ EmptyForm \in Form
    /\ EmptyForm.stage # "loaded" /\ EmptyForm.asset = NoAsset
BY DEF NoAssets, EmptyForm, Form, NoPrice, Amount, AssetTypes

LEMMA FormInvInit == FormInit => FormInv
BY EmptyFormIsTyped DEF FormInit, FormInv

LEMMA FormInvStep ==
    ASSUME FormInv, [FormNext]_formVars
    PROVE  FormInv'
<1>1. CASE LoadAssets
  <2> DEFINE f == [form EXCEPT !.stage = "loaded"]
  <2>1. assets' \in [AssetTypes -> Seq(DOMAIN MarketValue)] /\ "PLAYER" \in AssetTypes
    BY <1>1, CatalogsAssumption DEF LoadAssets, AssetTypes
  <2>2. f \in Form /\ f.stage = "loaded" /\ f.asset = NoAsset /\ sent = NotSent
    BY <1>1 DEF FormInv, Form, LoadAssets
  <2> HIDE DEF f
  <2>3. CASE assets'["PLAYER"] = <<>>
    <3>1. form' = f
      BY <1>1, <2>3 DEF LoadAssets, f
    <3> QED
      BY <1>1, <2>1, <2>2, <3>1 DEF LoadAssets, FormInv
  <2>4. CASE assets'["PLAYER"] # <<>>
    <3>1. form' = Selected(f, assets'["PLAYER"])
      BY <1>1, <2>4 DEF LoadAssets, f
    <3>2. /\ form' \in Form /\ form'.stage = "loaded"
          /\ form'.asset = Head(assets'["PLAYER"])
      BY <2>1, <2>2, <2>4, <3>1, SelectedIsOfList
    <3> QED
      BY <1>1, <2>1, <2>2, <2>4, <3>2 DEF LoadAssets, FormInv, Nominable
  <2> QED
    BY <2>3, <2>4
<1>2. CASE FailAssets
  BY <1>2 DEF FailAssets, FormInv, Form
<1>3. ASSUME NEW t \in AssetTypes, ChooseAssetType(t) PROVE FormInv'
  <2> DEFINE f == [form EXCEPT !.type = t]
  <2>1. f \in Form /\ f.stage = form.stage /\ f.type = t
    BY DEF FormInv, Form
  <2>2. assets[t] \in Seq(DOMAIN MarketValue) /\ form' = Selected(f, assets[t])
    BY <1>3 DEF FormInv, ChooseAssetType
  <2>3. form.stage # "loaded" => assets[t] = <<>>
    BY DEF FormInv, NoAssets
  <2> HIDE DEF f
  <2>4. /\ form' \in Form /\ form'.stage = form.stage /\ form'.type = t
        /\ assets[t] = <<>> => form'.asset = NoAsset
        /\ assets[t] # <<>> => Nominable(assets, t, form'.asset)
    BY <2>1, <2>2, SelectedIsOfList DEF Nominable
  <2> QED
    BY <1>3, <2>3, <2>4 DEF FormInv, ChooseAssetType
<1>4. ASSUME NEW a \in DOMAIN MarketValue, SelectAsset(a) PROVE FormInv'
  <2>1. PriceOf(a) \in [amount : Amount, typed : BOOLEAN]
    BY DEF PriceOf, Amount
  <2>2. Nominable(assets, form.type, a)
    BY <1>4 DEF SelectAsset, InCatalog, Nominable
  <2> QED
    BY <1>4, <2>1, <2>2 DEF SelectAsset, FormInv, Form
<1>5. ASSUME NEW amount \in Typed, TypePrice(amount) PROVE FormInv'
  BY <1>5 DEF TypePrice, FormInv, Form, Amount
<1>6. ASSUME NEW valid \in BOOLEAN, TypeIncrement(valid) PROVE FormInv'
  BY <1>6 DEF TypeIncrement, FormInv, Form
<1>7. CASE SubmitNomination
  <2>1. /\ sent' = [type |-> form.type, asset |-> form.asset, amount |-> form.price.amount]
        /\ form.stage = "loaded" /\ form.asset # NoAsset
        /\ form.price.amount \in MinPrice .. MaxPrice
        /\ UNCHANGED <<assets, form>>
    BY <1>7 DEF SubmitNomination
  <2> QED
    BY <2>1 DEF FormInv
<1>8. CASE Nominated
  BY <1>8, EmptyFormIsTyped DEF Nominated, FormInv
<1>9. CASE FailNomination
  BY <1>9 DEF FailNomination, FormInv
<1>10. CASE UNCHANGED formVars
  BY <1>10 DEF formVars, FormInv
<1> QED
  BY <1>1, <1>2, <1>3, <1>4, <1>5, <1>6, <1>7, <1>8, <1>9, <1>10 DEF FormNext

\* What a nomination form sends is of the type it names and at a price the API
\* takes, but for the first player (auction-nomination-form.tsx).
THEOREM NominationsAreOfTheirType == PagesSpec => []NominatesOfItsType
<1>1. PagesInit => FormInv
  BY FormInvInit DEF PagesInit
<1>2. FormInv /\ [PagesNext]_pages => FormInv'
  BY StepsOfParts, FormInvStep
<1>3. FormInv => NominatesOfItsType
  BY DEF FormInv, NominatesOfItsType, Nominable, InCatalog
<1> QED
  BY <1>1, <1>2, <1>3, PTL DEF PagesSpec

-----------------------------------------------------------------------------
(* Accounts.                                                               *)

StoredEmail == {<<w, "stored">> : w \in Emails}
StoredName == {<<w, "stored">> : w \in Usernames}

\* Each name is of one account, and an account whose owner was told of it is
\* there under both its names.
AccountsInv ==
    /\ DOMAIN request = Clients
    /\ \A u \in users : u.email \in StoredEmail /\ u.username \in StoredName
    /\ \A u, v \in users : u.email = v.email \/ u.username = v.username => u = v
    /\ \A c \in Clients :
           request[c].stage \in {"hashing", "registered"} =>
               request[c].email \in StoredEmail /\ request[c].username \in StoredName
    /\ \A c \in Clients :
           request[c].stage = "registered" =>
               \E u \in users : /\ u.email = request[c].email
                               /\ u.username = request[c].username
                               /\ u.id = request[c].user

\* A step that answers one client and inserts nobody.
LEMMA OnlyAnswers ==
    ASSUME AccountsInv, NEW c \in Clients, NEW k, k.stage # "registered",
           k.stage = "hashing" => k.email \in StoredEmail /\ k.username \in StoredName,
           request' = [request EXCEPT ![c] = k], UNCHANGED users
    PROVE  AccountsInv'
<1>1. \A d \in Clients : request'[d] = IF d = c THEN k ELSE request[d]
  BY DEF AccountsInv
<1> QED
  BY <1>1 DEF AccountsInv

LEMMA CreateUserStep ==
    ASSUME AccountsInv, NEW c \in Clients, CreateUser(c)
    PROVE  AccountsInv'
<1>1. CASE Taken(request[c])
  <2>1. request' = [request EXCEPT ![c] = Only("conflict")] /\ UNCHANGED users
    BY <1>1 DEF CreateUser
  <2> QED
    BY <2>1, OnlyAnswers DEF Only, Registration
<1>2. CASE ~Taken(request[c])
  <2>1. PICK new : /\ new.email = request[c].email /\ new.username = request[c].username
                   /\ users' = users \cup {new}
                   /\ request' = [request EXCEPT ![c] =
                          Registration("registered", new.email, new.username, new.id)]
    <3> DEFINE u == [id |-> Cardinality(users) + 1, email |-> request[c].email,
                     username |-> request[c].username]
    <3>1. /\ users' = users \cup {u}
          /\ request' = [request EXCEPT ![c] =
                 Registration("registered", u.email, u.username, u.id)]
      BY <1>2 DEF CreateUser
    <3> QED
      BY <3>1
  <2>2. /\ new.email \in StoredEmail /\ new.username \in StoredName
        /\ \A u \in users : u.email # new.email /\ u.username # new.username
    BY <1>2, <2>1 DEF CreateUser, Taken, AccountsInv
  <2>3. \A d \in Clients :
            request'[d] = IF d = c
                            THEN Registration("registered", new.email, new.username, new.id)
                            ELSE request[d]
    BY <2>1 DEF AccountsInv
  <2> QED
    BY <2>1, <2>2, <2>3 DEF AccountsInv, Registration
<1> QED
  BY <1>1, <1>2

LEMMA AccountsInvStep ==
    ASSUME AccountsInv, [AccountsNext]_accounts
    PROVE  AccountsInv'
<1>1. ASSUME NEW c \in Clients, NEW email \in Written, NEW username \in Written,
             Register(c, email, username)
      PROVE  AccountsInv'
  <2>1. PICK k : /\ request' = [request EXCEPT ![c] = k] /\ UNCHANGED users
                 /\ k.stage # "registered"
                 /\ k.stage = "hashing" =>
                        k.email \in StoredEmail /\ k.username \in StoredName
    <3> DEFINE hashing == Registration("hashing", Normal(email), Normal(username), 0)
    <3>1. /\ \E k \in {Only("refused"), Only("conflict"), hashing} :
                /\ request' = [request EXCEPT ![c] = k]
                /\ k = hashing => ValidNames(email, username)
          /\ UNCHANGED users
      BY <1>1 DEF Register, Only, Registration
    <3>2. Only("refused").stage = "refused" /\ Only("conflict").stage = "conflict"
      BY DEF Only, Registration
    <3>3. /\ hashing.stage = "hashing"
          /\ ValidNames(email, username) =>
                hashing.email \in StoredEmail /\ hashing.username \in StoredName
      BY DEF Registration, ValidNames, Normal, StoredEmail, StoredName
    <3> HIDE DEF hashing
    <3> QED
      BY <3>1, <3>2, <3>3
  <2> QED
    BY <2>1, OnlyAnswers
<1>2. ASSUME NEW c \in Clients, CreateUser(c) PROVE AccountsInv'
  BY <1>2, CreateUserStep
<1>3. ASSUME NEW c \in Clients, FailRegister(c) PROVE AccountsInv'
  BY <1>3, OnlyAnswers DEF FailRegister, Only, Registration
<1>4. ASSUME NEW c \in Clients, NEW x \in Written, Login(c, x) PROVE AccountsInv'
  <2>1. PICK k : /\ request' = [request EXCEPT ![c] = k] /\ UNCHANGED users
                 /\ k.stage \notin {"registered", "hashing"}
    BY <1>4 DEF Login, Only, Registration
  <2> QED
    BY <2>1, OnlyAnswers
<1>5. CASE UNCHANGED accounts
  BY <1>5 DEF accounts, AccountsInv
<1> QED
  BY <1>1, <1>2, <1>3, <1>4, <1>5 DEF AccountsNext

\* An identifier is the email of one account or the username of one, never
\* both: usernames have no @.
LEMMA OneIsFound ==
    ASSUME AccountsInv, NEW x \in Written,
           NEW u \in FindForAuthentication(x), NEW v \in FindForAuthentication(x)
    PROVE  u = v
<1>1. /\ u \in users /\ v \in users
      /\ u.email = Normal(x) \/ u.username = Normal(x)
      /\ v.email = Normal(x) \/ v.username = Normal(x)
  BY DEF FindForAuthentication
<1>2. ~ (Normal(x) \in StoredEmail /\ Normal(x) \in StoredName)
  BY DEF Normal, StoredEmail, StoredName, Usernames
<1>3. /\ u.email \in StoredEmail /\ u.username \in StoredName
      /\ v.email \in StoredEmail /\ v.username \in StoredName
  BY <1>1 DEF AccountsInv
<1>4. u.email = v.email \/ u.username = v.username
  BY <1>1, <1>2, <1>3
<1> QED
  BY <1>1, <1>4 DEF AccountsInv

\* However registrations race, both names of an account find it and nobody
\* else (register, findForAuthentication, the unique indexes of User).
THEOREM IdentifiersAlwaysFindTheirOwner == PagesSpec => []IdentifiersFindTheirOwner
<1>1. PagesInit => AccountsInv
  <2> SUFFICES ASSUME AccountsInit PROVE AccountsInv
    BY DEF PagesInit
  <2>1. /\ users = {} /\ DOMAIN request = Clients
        /\ \A c \in Clients : request[c].stage = "none"
    BY DEF AccountsInit, Only, Registration
  <2> QED
    BY <2>1 DEF AccountsInv
<1>2. AccountsInv /\ [PagesNext]_pages => AccountsInv'
  BY StepsOfParts, AccountsInvStep
<1>3. AccountsInv => IdentifiersFindTheirOwner
  <2> SUFFICES ASSUME AccountsInv PROVE IdentifiersFindTheirOwner
    OBVIOUS
  <2>1. ASSUME NEW x \in Written PROVE Cardinality(FindForAuthentication(x)) <= 1
    <3>1. CASE FindForAuthentication(x) = {}
      BY <3>1, FS_EmptySet
    <3>2. CASE FindForAuthentication(x) # {}
      <4>1. PICK u : u \in FindForAuthentication(x)
        BY <3>2
      <4>2. FindForAuthentication(x) = {u}
        BY <4>1, OneIsFound
      <4>3. Cardinality({u}) = 1
        BY FS_Singleton
      <4> QED
        BY <4>2, <4>3
    <3> QED
      BY <3>1, <3>2
  <2>2. ASSUME NEW c \in Clients, NEW x \in Written, request[c].stage = "registered",
               x.word \in {request[c].email[1], request[c].username[1]}
        PROVE  {u.id : u \in FindForAuthentication(x)} = {request[c].user}
    <3>1. PICK u \in users : /\ u.email = request[c].email
                             /\ u.username = request[c].username
                             /\ u.id = request[c].user
      BY <2>2 DEF AccountsInv
    <3>2. Normal(x) = request[c].email \/ Normal(x) = request[c].username
      BY <2>2 DEF AccountsInv, StoredEmail, StoredName, Normal
    <3>3. u \in FindForAuthentication(x)
      BY <3>1, <3>2 DEF FindForAuthentication
    <3>4. FindForAuthentication(x) = {u}
      BY <3>3, OneIsFound
    <3> QED
      BY <3>1, <3>4
  <2> QED
    BY <2>1, <2>2 DEF IdentifiersFindTheirOwner
<1> QED
  BY <1>1, <1>2, <1>3, PTL DEF PagesSpec

-----------------------------------------------------------------------------
(* The gate.                                                               *)

\* The recursive function behind the filter.
Filters(f, times, cutoff) ==
    f = [n \in 0 .. Len(times) |->
            IF n = 0 THEN <<>>
            ELSE IF times[n] > cutoff THEN Append(f[n - 1], times[n])
            ELSE f[n - 1]]

LEMMA AfterFilters ==
    ASSUME NEW times, NEW cutoff
    PROVE  After(times, cutoff) = (CHOOSE f : Filters(f, times, cutoff))[Len(times)]
BY DEF After, Filters

Sorted(times) == \A m, n \in DOMAIN times : m <= n => times[m] <= times[n]

\* Of times in their order the filter drops the first ones.
LEMMA FirstOnesAreOld ==
    ASSUME NEW times \in Seq(Nat), Sorted(times), NEW cutoff \in Int
    PROVE  \E c \in 0 .. Len(times) :
               /\ \A n \in 1 .. c : times[n] <= cutoff
               /\ \A n \in c + 1 .. Len(times) : times[n] > cutoff
<1>1. Len(times) \in Nat /\ DOMAIN times = 1 .. Len(times) /\ \A n \in DOMAIN times : times[n] \in Nat
  OBVIOUS
<1> DEFINE news == {n \in 0 .. Len(times) : \A m \in n + 1 .. Len(times) : times[m] > cutoff}
<1>2. news \in SUBSET Nat /\ Len(times) \in news
  BY <1>1
<1>3. PICK c \in news : \A n \in news : c <= n
  <2> HIDE DEF news
  <2> QED
    BY <1>2, SmallestOfNat
<1>4. ASSUME NEW n \in 1 .. c PROVE times[n] <= cutoff
  <2>1. c \in 0 .. Len(times) /\ \A m \in c + 1 .. Len(times) : times[m] > cutoff
    BY <1>3
  <2>2. c \in 1 .. Len(times) /\ c - 1 \in 0 .. Len(times) /\ ~(c <= c - 1)
    BY <1>1, <2>1
  <2>3. c - 1 \notin news
    <3> HIDE DEF news
    <3> QED
      BY <1>3, <2>2
  <2>4. \E m \in c .. Len(times) : ~(times[m] > cutoff)
    BY <1>1, <2>2, <2>3
  <2>5. ~(times[c] > cutoff)
    BY <1>1, <2>1, <2>2, <2>4
  <2>6. n \in DOMAIN times /\ c \in DOMAIN times /\ n <= c
    BY <1>1, <2>2
  <2>7. times[n] <= times[c] /\ times[n] \in Nat /\ times[c] \in Nat
    BY <1>1, <2>6 DEF Sorted
  <2> QED
    BY <2>5, <2>7
<1> QED
  BY <1>3, <1>4

LEMMA FilterOfSorted ==
    ASSUME NEW times \in Seq(Nat), NEW cutoff \in Int, NEW c \in 0 .. Len(times),
           \A n \in 1 .. c : times[n] <= cutoff,
           \A n \in c + 1 .. Len(times) : times[n] > cutoff
    PROVE  After(times, cutoff) = SubSeq(times, c + 1, Len(times))
<1>1. Len(times) \in Nat /\ DOMAIN times = 1 .. Len(times) /\ \A n \in DOMAIN times : times[n] \in Nat
  OBVIOUS
<1> DEFINE F == [n \in 0 .. Len(times) |-> SubSeq(times, c + 1, n)]
<1>2. \A n \in 0 .. c : SubSeq(times, c + 1, n) = <<>>
  BY <1>1, SubSeqEmpty
<1>3. ASSUME NEW n \in c + 1 .. Len(times)
      PROVE  SubSeq(times, c + 1, n) = Append(SubSeq(times, c + 1, n - 1), times[n])
  <2> DEFINE a == SubSeq(times, c + 1, n)
             b == SubSeq(times, c + 1, n - 1)
  <2>1. /\ a \in Seq(Nat) /\ Len(a) = n - c
        /\ \A i \in 1 .. n - c : a[i] = times[c + i]
    BY <1>1, SubSeqProperties
  <2>2. /\ b \in Seq(Nat) /\ Len(b) = n - 1 - c
        /\ \A i \in 1 .. n - 1 - c : b[i] = times[c + i]
    BY <1>1, SubSeqProperties
  <2> HIDE DEF a, b
  <2>3. times[n] \in Nat
    BY <1>1
  <2>4. Append(b, times[n]) \in Seq(Nat) /\ Len(Append(b, times[n])) = n - c
    BY <1>1, <2>2, <2>3
  <2>5. /\ \A i \in 1 .. Len(b) : Append(b, times[n])[i] = b[i]
          /\ Append(b, times[n])[Len(b) + 1] = times[n]
    BY <2>2, <2>3
  <2>6. ASSUME NEW i \in 1 .. n - c PROVE Append(b, times[n])[i] = times[c + i]
    <3>1. CASE i = n - c
      <4>1. Len(b) + 1 = i /\ c + i = n
        BY <1>1, <2>2, <3>1
      <4> QED
        BY <2>5, <4>1
    <3>2. CASE i # n - c
      <4>1. i \in 1 .. n - 1 - c /\ i \in 1 .. Len(b)
        BY <1>1, <2>2, <3>2
      <4> QED
        BY <2>2, <2>5, <4>1
    <3> QED
      BY <3>1, <3>2
  <2>7. a = Append(b, times[n])
    BY <2>1, <2>4, <2>6, SeqEqual
  <2> QED
    BY <2>7 DEF a, b
<1>4. Filters(F, times, cutoff)
  <2>1. ASSUME NEW n \in 0 .. Len(times)
        PROVE  F[n] = IF n = 0 THEN <<>>
                      ELSE IF times[n] > cutoff THEN Append(F[n - 1], times[n])
                      ELSE F[n - 1]
    <3>1. CASE n <= c
      <4>1. F[n] = <<>> /\ (n # 0 => F[n - 1] = <<>>)
        BY <1>1, <1>2, <3>1
      <4>2. n # 0 => ~(times[n] > cutoff)
        BY <1>1, <3>1
      <4> QED
        BY <4>1, <4>2
    <3>2. CASE n > c
      <4>1. n \in c + 1 .. Len(times) /\ n # 0 /\ n - 1 \in 0 .. Len(times)
        BY <1>1, <3>2
      <4>2. times[n] > cutoff /\ F[n] = Append(F[n - 1], times[n])
        BY <1>3, <4>1
      <4> QED
        BY <4>1, <4>2
    <3>3. n <= c \/ n > c
      BY <1>1
    <3> QED
      BY <3>1, <3>2, <3>3
  <2> HIDE DEF F
  <2>2. F = [n \in 0 .. Len(times) |-> F[n]]
    BY DEF F
  <2> QED
    BY <2>1, <2>2 DEF Filters
<1> HIDE DEF F
<1> DEFINE G == CHOOSE f : Filters(f, times, cutoff)
<1>5. Filters(G, times, cutoff)
  BY <1>4
<1> HIDE DEF G
<1>6. \A n \in 0 .. Len(times) : F[n] = G[n]
  <2> DEFINE bad == {n \in 0 .. Len(times) : F[n] # G[n]}
  <2> SUFFICES ASSUME bad # {} PROVE FALSE
    OBVIOUS
  <2>1. PICK n \in bad : \A m \in bad : n <= m
    <3>1. bad \in SUBSET Nat
      BY <1>1
    <3> HIDE DEF bad
    <3> QED
      BY <3>1, SmallestOfNat
  <2>2. n # 0 => n - 1 \in 0 .. Len(times) /\ F[n - 1] = G[n - 1]
    BY <1>1, <2>1
  <2>3. \A f : Filters(f, times, cutoff) =>
            f[n] = IF n = 0 THEN <<>>
                   ELSE IF times[n] > cutoff THEN Append(f[n - 1], times[n])
                   ELSE f[n - 1]
    BY <2>1 DEF Filters
  <2> QED
    BY <1>4, <1>5, <2>1, <2>2, <2>3
<1>7. After(times, cutoff) = G[Len(times)]
  BY AfterFilters DEF G
<1> QED
  BY <1>1, <1>6, <1>7 DEF F

\* Times up to one, in their order.
InOrder(times, t) ==
    /\ times \in Seq(Nat)
    /\ Sorted(times)
    /\ \A n \in DOMAIN times : times[n] <= t

\* What the limiter keeps of a socket are the last bids that were passed on,
\* from some place on; those before are older than the window.
Remembers(kept, passed) ==
    \E k \in 0 .. Len(passed) :
        /\ Len(kept) = Len(passed) - k
        /\ \A n \in 1 .. Len(passed) - k : kept[n] = passed[k + n]
        /\ \A n \in 1 .. k : passed[n] <= now - Window

\* A bid is a window later than the one as many bids before it as the limit.
Spaced(passed) ==
    \A n \in DOMAIN passed : n > Limit => passed[n] >= passed[n - Limit] + Window

\* The time to wait is over when the first of the last Limit bids leaves the
\* window.
WaitsForOldest(passed, until) ==
    until # NoRetry =>
        /\ Len(passed) >= Limit
        /\ until = passed[Len(passed) - Limit + 1] + Window

Limited(s) ==
    /\ Remembers(attempts[s], taken[s])
    /\ Spaced(taken[s])
    /\ WaitsForOldest(taken[s], retryAt[s])

\* A socket that is gone has its attempts forgotten, and a bid of it that still
\* waits for its identity is passed on: of those nothing is said.
GateInv ==
    /\ now \in Nat
    /\ attempts \in [Sockets -> Seq(Nat)]
    /\ taken \in [Sockets -> Seq(Nat)]
    /\ retryAt \in [Sockets -> Nat]
    /\ stage \in [Sockets -> {"connecting", "ready", "gone"}]
    /\ \A s \in Sockets :
           /\ InOrder(attempts[s], now)
           /\ InOrder(taken[s], now)
           /\ stage[s] # "gone" => Limited(s)

LEMMA GateInvInit == GateInit => GateInv
<1> SUFFICES ASSUME GateInit PROVE GateInv
  OBVIOUS
<1>1. InOrder(<<>>, now)
  BY DEF InOrder, Sorted
<1>2. Remembers(<<>>, <<>>) /\ Spaced(<<>>) /\ WaitsForOldest(<<>>, NoRetry)
  BY DEF Remembers, Spaced, WaitsForOldest
<1> QED
  BY <1>1, <1>2 DEF GateInit, GateInv, Limited, NoRetry

LEMMA AppendInOrder ==
    ASSUME NEW t \in Nat, NEW times, InOrder(times, t)
    PROVE  /\ InOrder(Append(times, t), t)
           /\ Len(Append(times, t)) = Len(times) + 1
           /\ \A n \in 1 .. Len(times) : Append(times, t)[n] = times[n]
           /\ Append(times, t)[Len(times) + 1] = t
<1> DEFINE more == Append(times, t)
<1>1. Len(times) \in Nat /\ DOMAIN times = 1 .. Len(times)
      /\ \A n \in DOMAIN times : times[n] \in Nat /\ times[n] <= t
  BY DEF InOrder
<1>2. /\ more \in Seq(Nat) /\ Len(more) = Len(times) + 1
      /\ \A n \in 1 .. Len(times) : more[n] = times[n]
      /\ more[Len(times) + 1] = t
  BY DEF InOrder
<1> HIDE DEF more
<1>3. \A n \in DOMAIN more : n \in DOMAIN times \/ n = Len(times) + 1
  BY <1>1, <1>2
<1>4. \A n \in DOMAIN more : more[n] <= t
  BY <1>1, <1>2, <1>3
<1>5. Sorted(more)
  <2> SUFFICES ASSUME NEW m \in DOMAIN more, NEW n \in DOMAIN more, m <= n
               PROVE  more[m] <= more[n]
    BY DEF Sorted
  <2>1. CASE n = Len(times) + 1
    BY <1>2, <1>4, <2>1
  <2>2. CASE n \in DOMAIN times
    <3>1. m \in DOMAIN times
      BY <1>1, <1>3, <2>2
    <3> QED
      BY <1>1, <1>2, <2>2, <3>1 DEF InOrder, Sorted
  <2> QED
    BY <1>3, <2>1, <2>2
<1> QED
  BY <1>2, <1>4, <1>5 DEF InOrder, more

LEMMA LastTimes ==
    ASSUME NEW times \in Seq(Nat), NEW c \in 0 .. Len(times)
    PROVE  /\ SubSeq(times, c + 1, Len(times)) \in Seq(Nat)
           /\ Len(SubSeq(times, c + 1, Len(times))) = Len(times) - c
           /\ \A n \in 1 .. Len(times) - c :
                  SubSeq(times, c + 1, Len(times))[n] = times[c + n]
BY SubSeqProperties

\* Recent gives the last attempts, and exactly those within the window.
LEMMA RecentIsLast ==
    ASSUME GateInv, NEW s \in Sockets
    PROVE  /\ InOrder(Recent(s), now)
           /\ \E c \in 0 .. Len(attempts[s]) :
                  /\ Len(Recent(s)) = Len(attempts[s]) - c
                  /\ \A n \in 1 .. Len(attempts[s]) - c : /\ Recent(s)[n] = attempts[s][c + n]
                                                          /\ Recent(s)[n] > now - Window
                  /\ \A n \in 1 .. c : attempts[s][n] <= now - Window
<1> DEFINE times == attempts[s]
<1>1. times \in Seq(Nat) /\ Sorted(times) /\ now - Window \in Int
      /\ \A n \in DOMAIN times : times[n] <= now
  BY SocketGateAssumption DEF GateInv, InOrder
<1>2. Len(times) \in Nat /\ DOMAIN times = 1 .. Len(times)
      /\ \A n \in DOMAIN times : times[n] \in Nat
  BY <1>1
<1>3. PICK c \in 0 .. Len(times) :
          /\ \A n \in 1 .. c : times[n] <= now - Window
          /\ \A n \in c + 1 .. Len(times) : times[n] > now - Window
  <2> HIDE DEF times
  <2> QED
    BY <1>1, FirstOnesAreOld
<1>4. Recent(s) = SubSeq(times, c + 1, Len(times))
  <2>1. After(times, now - Window) = SubSeq(times, c + 1, Len(times))
    <3> HIDE DEF times
    <3> QED
      BY <1>1, <1>3, FilterOfSorted
  <2> QED
    BY <2>1 DEF Recent
<1> DEFINE recent == Recent(s)
<1> HIDE DEF times, recent
<1>5. /\ recent \in Seq(Nat) /\ Len(recent) = Len(times) - c
      /\ \A n \in 1 .. Len(times) - c : recent[n] = times[c + n]
  BY <1>1, <1>4, LastTimes DEF recent
<1>6. DOMAIN recent = 1 .. Len(times) - c
      /\ \A n \in DOMAIN recent : c + n \in DOMAIN times /\ c + n \in c + 1 .. Len(times)
  BY <1>2, <1>5
<1>7. \A n \in DOMAIN recent : recent[n] <= now /\ recent[n] > now - Window
  BY <1>1, <1>3, <1>5, <1>6
<1>8. Sorted(recent)
  <2> SUFFICES ASSUME NEW m \in DOMAIN recent, NEW n \in DOMAIN recent, m <= n
               PROVE  recent[m] <= recent[n]
    BY DEF Sorted
  <2>1. c + m <= c + n
    BY <1>2, <1>6
  <2> QED
    BY <1>1, <1>5, <1>6, <2>1 DEF Sorted
<1> QED
  BY <1>3, <1>5, <1>6, <1>7, <1>8 DEF InOrder, recent, times

\* So of a socket that is there it gives the last bids that were passed on.
LEMMA RecentRemembers ==
    ASSUME GateInv, NEW s \in Sockets, stage[s] # "gone"
    PROVE  \E k \in 0 .. Len(taken[s]) :
               /\ Len(Recent(s)) = Len(taken[s]) - k
               /\ \A n \in 1 .. Len(taken[s]) - k : /\ Recent(s)[n] = taken[s][k + n]
                                                    /\ Recent(s)[n] > now - Window
               /\ \A n \in 1 .. k : taken[s][n] <= now - Window
<1>1. PICK j \in 0 .. Len(taken[s]) :
          /\ Len(attempts[s]) = Len(taken[s]) - j
          /\ \A n \in 1 .. Len(taken[s]) - j : attempts[s][n] = taken[s][j + n]
          /\ \A n \in 1 .. j : taken[s][n] <= now - Window
  BY DEF GateInv, Limited, Remembers
<1>2. PICK c \in 0 .. Len(attempts[s]) :
          /\ Len(Recent(s)) = Len(attempts[s]) - c
          /\ \A n \in 1 .. Len(attempts[s]) - c : /\ Recent(s)[n] = attempts[s][c + n]
                                                  /\ Recent(s)[n] > now - Window
          /\ \A n \in 1 .. c : attempts[s][n] <= now - Window
  BY RecentIsLast
<1>3. Len(taken[s]) \in Nat
  BY DEF GateInv
<1>4. /\ j + c \in 0 .. Len(taken[s])
      /\ Len(attempts[s]) - c = Len(taken[s]) - (j + c)
  BY <1>1, <1>2, <1>3
<1>5. ASSUME NEW n \in 1 .. Len(taken[s]) - (j + c)
      PROVE  Recent(s)[n] = taken[s][(j + c) + n] /\ Recent(s)[n] > now - Window
  <2>1. /\ n \in 1 .. Len(attempts[s]) - c /\ c + n \in 1 .. Len(taken[s]) - j
        /\ j + (c + n) = (j + c) + n
    BY <1>1, <1>2, <1>3, <1>4
  <2> QED
    BY <1>1, <1>2, <2>1
<1>6. ASSUME NEW n \in 1 .. j + c PROVE taken[s][n] <= now - Window
  <2>1. CASE n \in 1 .. j
    BY <1>1, <2>1
  <2>2. CASE n > j
    <3>1. n - j \in 1 .. c /\ n - j \in 1 .. Len(taken[s]) - j /\ j + (n - j) = n
      BY <1>1, <1>2, <1>3, <2>2
    <3> QED
      BY <1>1, <1>2, <3>1
  <2>3. n \in 1 .. j \/ n > j
    BY <1>1, <1>2
  <2> QED
    BY <2>1, <2>2, <2>3
<1> QED
  BY <1>2, <1>4, <1>5, <1>6

\* A refused bid leaves the attempts that count, which are as many as the limit.
LEMMA RefusedIsLimited ==
    ASSUME GateInv, NEW s \in Sockets, stage[s] # "gone", Len(Recent(s)) >= Limit
    PROVE  /\ Remembers(Recent(s), taken[s])
           /\ Len(taken[s]) >= Limit
           /\ Recent(s)[1] = taken[s][Len(taken[s]) - Limit + 1]
           /\ Recent(s)[1] > now - Window
<1> DEFINE L == Len(taken[s])
<1>1. PICK k \in 0 .. L :
          /\ Len(Recent(s)) = L - k
          /\ \A n \in 1 .. L - k : /\ Recent(s)[n] = taken[s][k + n]
                                   /\ Recent(s)[n] > now - Window
          /\ \A n \in 1 .. k : taken[s][n] <= now - Window
  BY RecentRemembers
<1>2. /\ L \in Nat /\ DOMAIN taken[s] = 1 .. L /\ now \in Nat
      /\ \A n \in 1 .. L : taken[s][n] \in Nat /\ taken[s][n] <= now
      /\ Limit \in Nat \ {0} /\ Window \in Nat \ {0}
      /\ Spaced(taken[s])
  BY SocketGateAssumption DEF GateInv, InOrder, Limited
<1>3. 1 \in 1 .. L - k /\ k + 1 \in 1 .. L /\ taken[s][k + 1] > now - Window
  BY <1>1, <1>2
<1>4. L - k = Limit
  <2> SUFFICES ASSUME L - k > Limit PROVE FALSE
    BY <1>1, <1>2
  <2> DEFINE n == k + 1 + Limit
  <2>1. n \in DOMAIN taken[s] /\ n > Limit /\ n - Limit = k + 1
    BY <1>1, <1>2
  <2>2. taken[s][n] >= taken[s][n - Limit] + Window
    BY <1>2, <2>1 DEF Spaced
  <2>3. taken[s][n] >= taken[s][k + 1] + Window /\ taken[s][n] <= now /\ taken[s][n] \in Nat
        /\ taken[s][k + 1] \in Nat
    BY <1>2, <1>3, <2>1, <2>2
  <2> QED
    BY <1>2, <1>3, <2>3
<1>5. k + 1 = L - Limit + 1 /\ L >= Limit
  BY <1>1, <1>2, <1>4
<1>6. Remembers(Recent(s), taken[s])
  BY <1>1 DEF Remembers
<1> QED
  BY <1>1, <1>3, <1>5, <1>6

\* A bid that is passed on has fewer than the limit within its window.
LEMMA AcceptedIsLimited ==
    ASSUME GateInv, NEW s \in Sockets, stage[s] # "gone", Len(Recent(s)) < Limit
    PROVE  /\ Remembers(Append(Recent(s), now), Append(taken[s], now))
           /\ Spaced(Append(taken[s], now))
<1> DEFINE L == Len(taken[s])
           passed == Append(taken[s], now)
           kept == Append(Recent(s), now)
<1>1. PICK k \in 0 .. L :
          /\ Len(Recent(s)) = L - k
          /\ \A n \in 1 .. L - k : Recent(s)[n] = taken[s][k + n]
          /\ \A n \in 1 .. k : taken[s][n] <= now - Window
  BY RecentRemembers
<1>2. /\ L \in Nat /\ DOMAIN taken[s] = 1 .. L /\ now \in Nat
      /\ \A n \in 1 .. L : taken[s][n] \in Nat
      /\ Limit \in Nat \ {0} /\ Window \in Nat \ {0}
      /\ Spaced(taken[s])
  BY SocketGateAssumption DEF GateInv, InOrder, Limited
<1>3. /\ DOMAIN passed = 1 .. L + 1 /\ Len(passed) = L + 1
      /\ \A n \in 1 .. L : passed[n] = taken[s][n]
      /\ passed[L + 1] = now
  BY <1>2, AppendInOrder DEF GateInv, InOrder
<1>4. /\ Len(kept) = L + 1 - k
      /\ \A n \in 1 .. L - k : kept[n] = Recent(s)[n]
      /\ kept[L - k + 1] = now
  BY <1>1, <1>2, RecentIsLast, AppendInOrder DEF GateInv
<1> HIDE DEF passed, kept
<1>5. ASSUME NEW n \in 1 .. Len(passed) - k PROVE kept[n] = passed[k + n]
  <2>1. CASE n = L - k + 1
    <3>1. k + n = L + 1
      BY <1>1, <1>2, <2>1
    <3> QED
      BY <1>3, <1>4, <2>1, <3>1
  <2>2. CASE n # L - k + 1
    <3> HIDE DEF L
    <3>1. n \in 1 .. L + 1 - k /\ n # L - k + 1 /\ k \in 0 .. L /\ L \in Nat
      BY <1>2, <1>3, <2>2
    <3>2. n \in 1 .. L - k /\ k + n \in 1 .. L
      BY <3>1
    <3> QED
      BY <1>1, <1>3, <1>4, <3>2
  <2> QED
    BY <2>1, <2>2
<1>6. Remembers(kept, passed)
  <2>1. \A n \in 1 .. k : passed[n] <= now - Window
    BY <1>1, <1>2, <1>3
  <2>2. k \in 0 .. Len(passed) /\ Len(kept) = Len(passed) - k
    BY <1>1, <1>2, <1>3, <1>4
  <2> QED
    BY <1>5, <2>1, <2>2 DEF Remembers
<1>7. Spaced(passed)
  <2> SUFFICES ASSUME NEW n \in DOMAIN passed, n > Limit
               PROVE  passed[n] >= passed[n - Limit] + Window
    BY DEF Spaced
  <2>1. CASE n = L + 1
    <3>1. n - Limit \in 1 .. k /\ n - Limit \in 1 .. L
      BY <1>1, <1>2, <2>1
    <3>2. taken[s][n - Limit] <= now - Window /\ taken[s][n - Limit] \in Nat
      BY <1>1, <1>2, <3>1
    <3>3. passed[n] = now /\ passed[n - Limit] = taken[s][n - Limit]
      BY <1>3, <2>1, <3>1
    <3> QED
      BY <1>2, <3>2, <3>3
  <2>2. CASE n # L + 1
    <3>1. n \in 1 .. L /\ n - Limit \in 1 .. L
      BY <1>2, <1>3, <2>2
    <3> QED
      BY <1>2, <1>3, <3>1 DEF Spaced
  <2> QED
    BY <2>1, <2>2
<1> QED
  BY <1>6, <1>7 DEF passed, kept

\* What consume does to its socket, while the stage of it stays or becomes one
\* that is there only if it was.
LEMMA ConsumeStep ==
    ASSUME GateInv, NEW s \in Sockets, Consume(s), now' = now,
           stage' \in [Sockets -> {"connecting", "ready", "gone"}],
           \A x \in Sockets : stage'[x] # "gone" => stage[x] # "gone"
    PROVE  GateInv'
<1>1. /\ attempts \in [Sockets -> Seq(Nat)] /\ taken \in [Sockets -> Seq(Nat)]
      /\ retryAt \in [Sockets -> Nat] /\ now \in Nat
      /\ Limit \in Nat \ {0} /\ Window \in Nat \ {0}
      /\ InOrder(Recent(s), now) /\ InOrder(taken[s], now)
  BY SocketGateAssumption, RecentIsLast DEF GateInv
<1>2. ASSUME NEW kept, NEW passed, NEW until \in Nat,
             InOrder(kept, now), InOrder(passed, now),
             stage[s] # "gone" => /\ Remembers(kept, passed)
                                  /\ Spaced(passed)
                                  /\ WaitsForOldest(passed, until),
             attempts' = [attempts EXCEPT ![s] = kept],
             taken' = [taken EXCEPT ![s] = passed],
             retryAt' = [retryAt EXCEPT ![s] = until]
      PROVE  GateInv'
  <2>1. /\ attempts' \in [Sockets -> Seq(Nat)] /\ taken' \in [Sockets -> Seq(Nat)]
        /\ retryAt' \in [Sockets -> Nat]
    BY <1>1, <1>2 DEF InOrder
  <2>2. /\ attempts'[s] = kept /\ taken'[s] = passed /\ retryAt'[s] = until
        /\ \A x \in Sockets \ {s} : /\ attempts'[x] = attempts[x] /\ taken'[x] = taken[x]
                                    /\ retryAt'[x] = retryAt[x]
    BY <1>1, <1>2
  <2>3. \A x \in Sockets : InOrder(attempts'[x], now') /\ InOrder(taken'[x], now')
    BY <1>2, <2>2 DEF GateInv
  <2>4. ASSUME NEW x \in Sockets, stage'[x] # "gone" PROVE Limited(x)'
    <3>1. \A a, p : Remembers(a, p) => Remembers(a, p)'
      BY DEF Remembers
    <3>2. Remembers(attempts'[x], taken'[x]) /\ Spaced(taken'[x])
          /\ WaitsForOldest(taken'[x], retryAt'[x])
      BY <1>2, <2>2, <2>4 DEF GateInv, Limited
    <3> QED
      BY <3>2 DEF Limited, Remembers, Spaced, WaitsForOldest
  <2>5. \A x \in Sockets : InOrder(attempts[x], now)' /\ InOrder(taken[x], now)'
    BY <2>3 DEF InOrder, Sorted
  <2> QED
    BY <1>1, <2>1, <2>4, <2>5 DEF GateInv
<1>3. CASE Len(Recent(s)) >= Limit
  <2> DEFINE wait == Recent(s)[1] + Window - now
             until == now + (IF wait > 1 THEN wait ELSE 1)
  <2>1. Recent(s) \in Seq(Nat) /\ Recent(s) # <<>> /\ Recent(s)[1] \in Nat
        /\ Head(Recent(s)) = Recent(s)[1]
    BY <1>1, <1>3 DEF InOrder
  <2>2. /\ attempts' = [attempts EXCEPT ![s] = Recent(s)]
        /\ retryAt' = [retryAt EXCEPT ![s] = until]
        /\ taken' = taken
    BY <1>3, <2>1 DEF Consume
  <2>3. until \in Nat
    BY <1>1, <2>1
  <2>4. ASSUME stage[s] # "gone"
        PROVE  /\ Remembers(Recent(s), taken[s]) /\ Spaced(taken[s])
               /\ WaitsForOldest(taken[s], until)
    <3>1. /\ Remembers(Recent(s), taken[s]) /\ Len(taken[s]) >= Limit
          /\ Recent(s)[1] = taken[s][Len(taken[s]) - Limit + 1]
          /\ Recent(s)[1] > now - Window
      BY <1>3, <2>4, RefusedIsLimited
    <3>2. until = Recent(s)[1] + Window
      BY <1>1, <2>1, <3>1
    <3> QED
      BY <2>4, <3>1, <3>2 DEF GateInv, Limited, WaitsForOldest
  <2>5. taken' = [taken EXCEPT ![s] = taken[s]]
    BY <1>1, <2>2
  <2> HIDE DEF until
  <2> QED
    BY <1>1, <1>2, <2>2, <2>3, <2>4, <2>5
<1>4. CASE ~(Len(Recent(s)) >= Limit)
  <2>1. /\ attempts' = [attempts EXCEPT ![s] = Append(Recent(s), now)]
        /\ retryAt' = [retryAt EXCEPT ![s] = NoRetry]
        /\ taken' = [taken EXCEPT ![s] = Append(taken[s], now)]
    BY <1>4 DEF Consume
  <2>2. InOrder(Append(Recent(s), now), now) /\ InOrder(Append(taken[s], now), now)
    BY <1>1, AppendInOrder
  <2>3. Len(Recent(s)) < Limit
    BY <1>1, <1>4 DEF InOrder
  <2>4. stage[s] # "gone" => /\ Remembers(Append(Recent(s), now), Append(taken[s], now))
                             /\ Spaced(Append(taken[s], now))
    BY <2>3, AcceptedIsLimited
  <2>5. WaitsForOldest(Append(taken[s], now), NoRetry) /\ NoRetry \in Nat
    BY DEF WaitsForOldest, NoRetry
  <2> QED
    BY <1>2, <2>1, <2>2, <2>4, <2>5
<1> QED
  BY <1>3, <1>4

\* Attempts of a socket forgotten as it goes, and a clock that goes on.
LEMMA GateInvStep ==
    ASSUME GateInv, [GateNext]_gate
    PROVE  GateInv'
<1>1. ASSUME UNCHANGED <<now, attempts, taken, retryAt>>,
             stage' \in [Sockets -> {"connecting", "ready", "gone"}],
             \A x \in Sockets : stage'[x] # "gone" => stage[x] # "gone"
      PROVE  GateInv'
  BY <1>1 DEF GateInv, Limited, Remembers, Spaced, WaitsForOldest, InOrder, Sorted
<1>2. ASSUME NEW s \in Sockets, Authenticate(s) PROVE GateInv'
  BY <1>1, <1>2 DEF Authenticate, GateInv
<1>3. ASSUME NEW s \in Sockets, Disconnect(s) PROVE GateInv'
  <2>1. /\ now' = now /\ taken' = taken /\ retryAt' = retryAt
        /\ attempts' \in [Sockets -> Seq(Nat)]
        /\ stage' \in [Sockets -> {"connecting", "ready", "gone"}]
        /\ attempts'[s] = <<>> /\ stage'[s] = "gone"
        /\ \A x \in Sockets \ {s} : attempts'[x] = attempts[x] /\ stage'[x] = stage[x]
    BY <1>3 DEF Disconnect, GateInv
  <2>2. \A x \in Sockets : InOrder(attempts'[x], now) /\ InOrder(taken[x], now)
    <3>1. InOrder(<<>>, now)
      BY DEF InOrder, Sorted
    <3> QED
      BY <2>1, <3>1 DEF GateInv
  <2>3. \A x \in Sockets : InOrder(attempts[x], now)' /\ InOrder(taken[x], now)'
    BY <2>1, <2>2 DEF InOrder, Sorted
  <2>4. ASSUME NEW x \in Sockets, stage'[x] # "gone" PROVE Limited(x)'
    <3>1. x # s /\ stage[x] # "gone" /\ attempts'[x] = attempts[x]
      BY <2>1, <2>4
    <3>2. Limited(x)
      BY <3>1 DEF GateInv
    <3> QED
      BY <2>1, <3>1, <3>2 DEF Limited, Remembers, Spaced, WaitsForOldest
  <2> QED
    BY <2>1, <2>3, <2>4 DEF GateInv
<1>4. ASSUME NEW s \in Sockets, PlaceBid(s) PROVE GateInv'
  BY <1>4, ConsumeStep DEF PlaceBid, GateInv
<1>5. ASSUME NEW s \in Sockets, AskIdentity(s) PROVE GateInv'
  BY <1>1, <1>5 DEF AskIdentity, GateInv
<1>6. ASSUME NEW s \in Sockets, LearnIdentity(s) PROVE GateInv'
  <2>1. CASE UNCHANGED <<stage, attempts, taken, retryAt>>
    BY <1>1, <1>6, <2>1 DEF LearnIdentity, GateInv
  <2>2. CASE /\ Consume(s)
             /\ stage' = [stage EXCEPT ![s] = IF stage[s] = "gone" THEN stage[s] ELSE "ready"]
    BY <1>6, <2>2, ConsumeStep DEF LearnIdentity, GateInv
  <2> QED
    BY <1>6, <2>1, <2>2 DEF LearnIdentity
<1>7. CASE Tick
  <2>1. /\ now \in Nat /\ now' = now + 1 /\ Window \in Nat
        /\ UNCHANGED <<stage, attempts, taken, retryAt>>
    BY <1>7, SocketGateAssumption DEF Tick, GateInv
  <2>2. \A x \in Sockets : InOrder(attempts[x], now)' /\ InOrder(taken[x], now)'
    BY <2>1 DEF GateInv, InOrder, Sorted
  <2>3. \A x \in Sockets : Remembers(attempts[x], taken[x]) => Remembers(attempts[x], taken[x])'
    <3> TAKE x \in Sockets
    <3> HAVE Remembers(attempts[x], taken[x])
    <3>1. PICK k \in 0 .. Len(taken[x]) :
              /\ Len(attempts[x]) = Len(taken[x]) - k
              /\ \A n \in 1 .. Len(taken[x]) - k : attempts[x][n] = taken[x][k + n]
              /\ \A n \in 1 .. k : taken[x][n] <= now - Window
      BY DEF Remembers
    <3>2. \A n \in 1 .. k : taken[x][n] \in Nat
      BY DEF GateInv
    <3>3. \A n \in 1 .. k : taken[x][n] <= now' - Window
      BY <2>1, <3>1, <3>2
    <3> QED
      BY <2>1, <3>1, <3>3 DEF Remembers
  <2>4. \A x \in Sockets : stage'[x] # "gone" => Limited(x)'
    BY <2>1, <2>3 DEF GateInv, Limited, Spaced, WaitsForOldest
  <2> QED
    BY <2>1, <2>2, <2>4 DEF GateInv
<1>8. CASE UNCHANGED gate
  BY <1>1, <1>8 DEF gate, GateInv
<1> QED
  BY <1>2, <1>3, <1>4, <1>5, <1>6, <1>7, <1>8 DEF GateNext

\* Two bids within one window have fewer than the limit from one to the other.
LEMMA WindowIsNarrow ==
    ASSUME GateInv, NEW s \in Sockets, Spaced(taken[s]), NEW t \in Int,
           NEW m \in TakenWithin(s, t), NEW n \in TakenWithin(s, t)
    PROVE  n <= m + Limit - 1
<1>1. /\ Len(taken[s]) \in Nat /\ DOMAIN taken[s] = 1 .. Len(taken[s])
      /\ Limit \in Nat \ {0} /\ Window \in Nat \ {0}
      /\ \A i \in DOMAIN taken[s] : taken[s][i] \in Nat
      /\ Sorted(taken[s])
  BY SocketGateAssumption DEF GateInv, InOrder
<1>2. /\ m \in DOMAIN taken[s] /\ n \in DOMAIN taken[s]
      /\ taken[s][m] >= t - Window + 1 /\ taken[s][n] <= t
  BY <1>1 DEF TakenWithin
<1>3. SUFFICES ASSUME n > m + Limit - 1 PROVE FALSE
  BY <1>1, <1>2
<1>4. n > Limit /\ n - Limit \in DOMAIN taken[s] /\ m <= n - Limit
  BY <1>1, <1>2, <1>3
<1>5. taken[s][n] >= taken[s][n - Limit] + Window /\ taken[s][m] <= taken[s][n - Limit]
  BY <1>1, <1>2, <1>4 DEF Spaced, Sorted
<1> QED
  BY <1>1, <1>2, <1>4, <1>5

LEMMA WindowIsLimited ==
    ASSUME GateInv, NEW s \in Sockets, stage[s] # "gone", NEW t \in Int
    PROVE  Cardinality(TakenWithin(s, t)) <= Limit
<1> DEFINE W == TakenWithin(s, t)
<1>1. /\ W \in SUBSET Nat /\ Limit \in Nat \ {0} /\ Spaced(taken[s])
  BY SocketGateAssumption DEF GateInv, Limited, TakenWithin
<1>2. CASE W = {}
  BY <1>1, <1>2, FS_EmptySet
<1>3. CASE W # {}
  <2>1. PICK m \in W : \A n \in W : m <= n
    <3> HIDE DEF W
    <3> QED
      BY <1>1, <1>3, SmallestOfNat
  <2>2. \A n \in W : n <= m + Limit - 1
    BY <1>1, WindowIsNarrow
  <2> HIDE DEF W
  <2>3. W \in SUBSET (m .. m + Limit - 1) /\ m \in Nat
    BY <1>1, <2>1, <2>2
  <2>4. IsFiniteSet(m .. m + Limit - 1) /\ Cardinality(m .. m + Limit - 1) = Limit
    BY <1>1, <2>3, FS_Interval
  <2>5. Cardinality(W) <= Limit
    BY <2>3, <2>4, FS_Subset
  <2> QED
    BY <2>5 DEF W
<1> QED
  BY <1>2, <1>3

\* A bid refused may be tried again from the moment it would pass.
LEMMA WaitIsExact ==
    ASSUME GateInv, NEW s \in Sockets, stage[s] # "gone", retryAt[s] # NoRetry
    PROVE  Cardinality(TakenWithin(s, now)) < Limit <=> now >= retryAt[s]
<1> DEFINE L == Len(taken[s])
           oldest == L - Limit + 1
           W == TakenWithin(s, now)
<1>1. /\ L \in Nat /\ DOMAIN taken[s] = 1 .. L /\ now \in Nat
      /\ Limit \in Nat \ {0} /\ Window \in Nat \ {0}
      /\ \A n \in 1 .. L : taken[s][n] \in Nat /\ taken[s][n] <= now
      /\ Sorted(taken[s])
      /\ L >= Limit /\ retryAt[s] = taken[s][oldest] + Window
  BY SocketGateAssumption DEF GateInv, InOrder, Limited, WaitsForOldest
<1>2. W \in SUBSET (1 .. L)
      /\ \A n \in 1 .. L : n \in W <=> taken[s][n] >= now - Window + 1
  BY <1>1 DEF TakenWithin
<1> HIDE DEF L, W
<1>3. oldest \in 1 .. L /\ taken[s][oldest] \in Nat
  BY <1>1
<1>4. CASE now >= retryAt[s]
  <2>1. \A n \in 1 .. oldest : n \notin W
    <3> TAKE n \in 1 .. oldest
    <3>1. n \in 1 .. L /\ oldest \in 1 .. L /\ n <= oldest
      BY <1>1, <1>3
    <3>2. taken[s][n] <= taken[s][oldest]
      BY <1>1, <3>1 DEF Sorted
    <3> QED
      BY <1>1, <1>2, <1>3, <1>4, <3>1, <3>2
  <2>2. W \in SUBSET (oldest + 1 .. L)
    BY <1>1, <1>2, <1>3, <2>1
  <2>3. IsFiniteSet(oldest + 1 .. L) /\ Cardinality(oldest + 1 .. L) = Limit - 1
    <3>1. oldest + 1 \in Int /\ L \in Int
          /\ (IF oldest + 1 > L THEN 0 ELSE L - (oldest + 1) + 1) = Limit - 1
      BY <1>1, <1>3
    <3> HIDE DEF oldest
    <3> QED
      BY <3>1, FS_Interval
  <2>4. Cardinality(W) <= Limit - 1 /\ Cardinality(W) \in Nat
    BY <2>2, <2>3, FS_Subset, FS_CardinalityType
  <2> QED
    BY <1>1, <1>4, <2>4 DEF W
<1>5. CASE ~(now >= retryAt[s])
  <2>1. \A n \in oldest .. L : n \in W
    <3> TAKE n \in oldest .. L
    <3>1. n \in 1 .. L /\ oldest <= n
      BY <1>1, <1>3
    <3>2. taken[s][oldest] <= taken[s][n]
      BY <1>1, <1>3, <3>1 DEF Sorted
    <3>3. taken[s][oldest] + Window > now /\ taken[s][n] \in Nat
      BY <1>1, <1>3, <1>5, <3>1
    <3>4. taken[s][n] >= now - Window + 1
      BY <1>1, <1>3, <3>2, <3>3
    <3> QED
      BY <1>2, <3>1, <3>4
  <2>2. IsFiniteSet(W) /\ Cardinality(W) \in Nat
    <3>1. IsFiniteSet(1 .. L)
      BY <1>1, FS_Interval
    <3> QED
      BY <1>2, <3>1, FS_Subset, FS_CardinalityType
  <2>3. Cardinality(oldest .. L) = Limit
    <3>1. oldest \in Int /\ L \in Int
          /\ (IF oldest > L THEN 0 ELSE L - oldest + 1) = Limit
      BY <1>1, <1>3
    <3> HIDE DEF oldest
    <3> QED
      BY <3>1, FS_Interval
  <2>4. Limit <= Cardinality(W)
    <3>1. oldest .. L \in SUBSET W
      BY <2>1
    <3> QED
      BY <2>2, <2>3, <3>1, FS_Subset
  <2> QED
    BY <1>1, <1>5, <2>2, <2>4 DEF W
<1> QED
  BY <1>4, <1>5

\* No window sees more bids of a connected socket than the limit, and a refused
\* bid is told to wait exactly as long as it takes (consume of
\* socket-rate-limiter.service.ts under any limit and window).
THEOREM BidsAlwaysLimited == PagesSpec => []BidsAreLimited
<1>1. PagesInit => GateInv
  BY GateInvInit DEF PagesInit
<1>2. GateInv /\ [PagesNext]_pages => GateInv'
  BY StepsOfParts, GateInvStep
<1>3. GateInv => BidsAreLimited
  <2>1. \A t \in 1 .. MaxTime : t \in Int
    OBVIOUS
  <2> QED
    BY <2>1, WindowIsLimited, WaitIsExact DEF BidsAreLimited
<1> QED
  BY <1>1, <1>2, <1>3, PTL DEF PagesSpec

=============================================================================
