----------------------------- MODULE WalletView -----------------------------
(***************************************************************************)
(* The wallet page (apps/web/src/components/wallet/wallet-view.tsx) over   *)
(* the budget operations of Budgets, and the two queries it asks for: the  *)
(* wallet, then the history, whose rows and whose number are counted by    *)
(* two queries again.  Operations commit between any two of them.          *)
(*                                                                         *)
(* The page loads once; after an error the user may try again, and a user  *)
(* who comes back finds it empty.  What it asked for before is ignored.    *)
(***************************************************************************)
EXTENDS Budgets

CONSTANTS
    Viewer,         \* the participant the signed-in user is
    HistoryPage     \* pageSize, 100 transactions

ASSUME WalletViewAssumption == Viewer \in Participants /\ HistoryPage \in Nat \ {0}

VARIABLE view

Loading == {"user", "wallet", "rows", "total"}

Blank == [stage |-> "user", wallet |-> FullWallet, rows |-> <<>>, total |-> 0]

View == [stage : Loading \cup {"shown", "empty", "failed", "login"},
         wallet : WalletType, rows : Seq(Row), total : Nat]

-----------------------------------------------------------------------------
\* Mutant: the history is sorted the other way round.
OldestFirst(rows) == SubSeq(rows, 1, IF Len(rows) < HistoryPage THEN Len(rows)
                                                               ELSE HistoryPage)

\* One page in the order of createdAt, descending.  The operations of one
\* participant record while they hold its row, so createdAt follows the order
\* of the ledger; two rows within one millisecond are taken not to occur.
NewestFirst(rows) ==
    [n \in 1 .. IF Len(rows) < HistoryPage THEN Len(rows) ELSE HistoryPage |->
         rows[Len(rows) + 1 - n]]

FindUser ==
    /\ view.stage = "user"
    /\ view' = [view EXCEPT !.stage = "wallet"]
    /\ UNCHANGED budgets

\* getWalletForUser, with the answer 404 for a user without an active match.
ReadWallet ==
    /\ view.stage = "wallet"
    /\ view' = IF Viewer \in joined
                 THEN [view EXCEPT !.stage = "rows", !.wallet = wallet[Viewer]]
                 ELSE [view EXCEPT !.stage = "empty"]
    /\ UNCHANGED budgets

\* listTransactionsForUser.
ReadHistory ==
    /\ view.stage = "rows"
    /\ view' = [view EXCEPT !.stage = "total", !.rows = NewestFirst(ledger[Viewer])]
    /\ UNCHANGED budgets

ReadTotal ==
    /\ view.stage = "total"
    /\ view' = [view EXCEPT !.stage = "shown", !.total = Len(ledger[Viewer])]
    /\ UNCHANGED budgets

\* Any of the requests fails; one that says 401 leads to the login page.
FailLoad ==
    /\ view.stage \in Loading
    /\ \E stage \in {"failed", "login"} : view' = [Blank EXCEPT !.stage = stage]
    /\ UNCHANGED budgets

\* retry, and a visit anew.
LoadAgain ==
    /\ view.stage # "user"
    /\ view' = Blank
    /\ UNCHANGED budgets

-----------------------------------------------------------------------------
WalletInit == BudgetsInit /\ view = Blank

WalletNext ==
    \/ BudgetsNext /\ UNCHANGED view
    \/ FindUser \/ ReadWallet \/ ReadHistory \/ ReadTotal \/ FailLoad \/ LoadAgain

-----------------------------------------------------------------------------
WalletTypeOK == BudgetsTypeOK /\ view \in View

\* What the n-th row shown was made from: the row below it.
ShownBefore(n) ==
    IF n = Len(view.rows) THEN FullWallet ELSE view.rows[n + 1].after

\* The page promises that the spent money is "Completed purchases recorded in
\* the ledger": unless it says that it shows the latest entries only, its
\* history begins with the full wallet, each entry follows from the one below
\* it, and the wallet shown is where the history was at one point.
HistoryExplainsWallet ==
    view.stage = "shown" /\ view.total <= Len(view.rows) =>
        /\ \A n \in DOMAIN view.rows :
               view.rows[n].after = Moved(ShownBefore(n), view.rows[n].op)
        /\ \E n \in 0 .. Len(view.rows) : view.wallet = ShownBefore(n)

=============================================================================
