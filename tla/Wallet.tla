------------------------------- MODULE Wallet -------------------------------
(***************************************************************************)
(* The protected budget of a match participant                             *)
(* (apps/api/src/budgets/budgets.service.ts): the three columns of the     *)
(* wallet and the ledger of idempotent operations on it.                   *)
(*                                                                         *)
(* "books" is a record of every participant's wallet and of the ledger,    *)
(* the set of the BudgetTransaction rows.  executeOperation becomes two    *)
(* operators: Permitted says when it returns instead of throwing, Execute  *)
(* says which books it leaves behind.  The module has no variables: every  *)
(* caller runs the operations inside a transaction of its own.             *)
(***************************************************************************)
EXTENDS Integers, Functions

CONSTANT MatchBudget      \* MATCH_BUDGET, the fixed budget of a participant

ASSUME MatchBudgetAssumption == MatchBudget \in Nat \ {0}

NoItem == "no item"       \* the itemType/itemId of anything but a purchase

WalletType == [available : Nat, reserved : Nat, spent : Nat]

FullWallet == [available |-> MatchBudget, reserved |-> 0, spent |-> 0]

\* The CHECK constraint MatchParticipant_budget_conservation_check.
Conserved(w) == w.available + w.reserved + w.spent = MatchBudget

Operation(type, p, a, amount, key, item) ==
    [type |-> type, participant |-> p, auction |-> a,
     amount |-> amount, key |-> key, item |-> item]

\* The values of a function, of rows to amounts, added up.
SumOf(f) == FoldFunction(+, 0, f)

\* The rows found by the unique index (participantId, idempotencyKey).
Recorded(books, op) ==
    {e \in books.ledger : /\ e.op.participant = op.participant
                          /\ e.op.key = op.key}

\* Mutant: reserved money counts as available.
FundedTwice(w, op) ==
    IF op.type = "RESERVE" THEN w.available + w.reserved >= op.amount
                           ELSE w.reserved >= op.amount

\* The guarded updateMany: the column an operation takes from holds enough.
Funded(w, op) ==
    IF op.type = "RESERVE" THEN w.available >= op.amount
                           ELSE w.reserved >= op.amount

\* The updateMany's increments and decrements.
Moved(w, op) ==
    CASE op.type = "RESERVE"  -> [available |-> w.available - op.amount,
                                  reserved |-> w.reserved + op.amount,
                                  spent |-> w.spent]
      [] op.type = "RELEASE"  -> [available |-> w.available + op.amount,
                                  reserved |-> w.reserved - op.amount,
                                  spent |-> w.spent]
      [] op.type = "PURCHASE" -> [available |-> w.available,
                                  reserved |-> w.reserved - op.amount,
                                  spent |-> w.spent + op.amount]

\* The unique index (participantId, purchaseKey).
PurchasedOnce(books, op) ==
    op.type = "PURCHASE" =>
        \A e \in books.ledger : ~ /\ e.op.type = "PURCHASE"
                                  /\ e.op.participant = op.participant
                                  /\ e.op.item = op.item

Permitted(books, op) ==
    /\ op.amount \in 1 .. MatchBudget
    /\ IF Recorded(books, op) # {}
         THEN \A e \in Recorded(books, op) : e.op = op
         ELSE /\ Funded(books.wallet[op.participant], op)
              /\ PurchasedOnce(books, op)

\* Mutant: the ledger row keeps the wallet as it was before the operation.
ExecuteWithOldSnapshot(books, op) ==
    LET before == books.wallet[op.participant]
    IN  [wallet |-> [books.wallet EXCEPT ![op.participant] = Moved(before, op)],
         ledger |-> books.ledger \cup {[op |-> op, after |-> before]}]

\* A replay of a recorded operation changes nothing.
Execute(books, op) ==
    IF Recorded(books, op) # {}
      THEN books
      ELSE LET after == Moved(books.wallet[op.participant], op)
           IN  [wallet |-> [books.wallet EXCEPT ![op.participant] = after],
                ledger |-> books.ledger \cup {[op |-> op, after |-> after]}]

=============================================================================
