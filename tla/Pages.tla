------------------------------- MODULE Pages -------------------------------
(***************************************************************************)
(* The parts of the program beside the match itself, each a page of the    *)
(* browser with what answers it: the wallet over the budget operations,    *)
(* the catalogs over the seeded tables, the nomination form, the draft of  *)
(* the squad builder, registration and login, and the gate a bid passes.   *)
(*                                                                         *)
(* They share no state with each other.  A behaviour is one of them, which *)
(* is chosen at its start, so that the states to check are the sum of the  *)
(* states of the parts and not their product.                              *)
(***************************************************************************)
EXTENDS WalletView, Catalog, NominationForm, SquadDraft, Accounts, SocketGate

VARIABLE open       \* the part this behaviour is about

Parts == {"wallet", "catalog", "form", "draft", "accounts", "gate"}

wallets == <<budgets, view>>
pages == <<open, wallets, catalog, formVars, draft, accounts, gate>>

PagesInit ==
    /\ open \in Parts
    /\ WalletInit
    /\ CatalogInit
    /\ FormInit
    /\ Init
    /\ AccountsInit
    /\ GateInit
    /\ open # "catalog" => kind = "players"

WalletStep ==
    /\ open = "wallet"
    /\ WalletNext
    /\ UNCHANGED <<open, catalog, formVars, draft, accounts, gate>>

CatalogStep ==
    /\ open = "catalog"
    /\ CatalogNext
    /\ UNCHANGED <<open, wallets, formVars, draft, accounts, gate>>

FormStep ==
    /\ open = "form"
    /\ FormNext
    /\ UNCHANGED <<open, wallets, catalog, draft, accounts, gate>>

DraftStep ==
    /\ open = "draft"
    /\ Next
    /\ UNCHANGED <<open, wallets, catalog, formVars, accounts, gate>>

AccountsStep ==
    /\ open = "accounts"
    /\ AccountsNext
    /\ UNCHANGED <<open, wallets, catalog, formVars, draft, gate>>

GateStep ==
    /\ open = "gate"
    /\ GateNext
    /\ UNCHANGED <<open, wallets, catalog, formVars, draft, accounts>>

PagesNext ==
    \/ WalletStep \/ CatalogStep \/ FormStep
    \/ DraftStep \/ AccountsStep \/ GateStep

PagesSpec == PagesInit /\ [][PagesNext]_pages

=============================================================================
