--------------------------- MODULE EnglishAuction ---------------------------
(***************************************************************************)
(* What an auction room promises its bidders, without rows, versions,      *)
(* wallets, keys, clocks or a scheduler: an English auction of lots, one   *)
(* at a time, among bidders who share nothing but a fixed budget each.     *)
(*                                                                         *)
(* A lot is announced, opened, raised by whoever can still pay, and ends   *)
(* once: knocked down to its leader at the last price, passed over when    *)
(* nobody bid, or withdrawn, which makes its bids void.                    *)
(***************************************************************************)
EXTENDS Integers

CONSTANTS
    Bidders, Lots,
    Prices,         \* what a lot may be announced at
    Budget,         \* what a bidder may pay in all
    NoBidder

VARIABLES
    lot,            \* of each lot: its state, its price and who leads
    paid            \* what each bidder has paid so far

vars == <<lot, paid>>

Up == {"announced", "open"}

Init ==
    /\ lot = [l \in Lots |-> [state |-> "idle", price |-> 0,
                              leader |-> NoBidder]]
    /\ paid = [b \in Bidders |-> 0]

Announce(l, price) ==
    /\ lot[l].state = "idle"
    /\ \A other \in Lots : lot[other].state \notin Up
    /\ lot' = [lot EXCEPT ![l].state = "announced", ![l].price = price]
    /\ UNCHANGED paid

Open(l) ==
    /\ lot[l].state = "announced"
    /\ lot' = [lot EXCEPT ![l].state = "open"]
    /\ UNCHANGED paid

\* A bid reaches the price of an unled lot or beats that of a led one, and
\* its bidder could pay it on top of everything paid before.
Raise(l, b, amount) ==
    /\ lot[l].state = "open"
    /\ IF lot[l].leader = NoBidder THEN amount >= lot[l].price
                                   ELSE amount > lot[l].price
    /\ paid[b] + amount <= Budget
    /\ lot' = [lot EXCEPT ![l] = [state |-> "open", price |-> amount,
                                  leader |-> b]]
    /\ UNCHANGED paid

KnockDown(l) ==
    /\ lot[l].state = "open"
    /\ lot[l].leader # NoBidder
    /\ lot' = [lot EXCEPT ![l].state = "sold"]
    /\ paid' = [paid EXCEPT ![lot[l].leader] = @ + lot[l].price]

PassOver(l) ==
    /\ lot[l].state = "open"
    /\ lot[l].leader = NoBidder
    /\ lot' = [lot EXCEPT ![l].state = "unsold"]
    /\ UNCHANGED paid

Withdraw(l) ==
    /\ lot[l].state \in Up
    /\ lot' = [lot EXCEPT ![l] = [state |-> "withdrawn",
                                  price |-> lot[l].price, leader |-> NoBidder]]
    /\ UNCHANGED paid

Next ==
    \E l \in Lots :
        \/ \E price \in Prices : Announce(l, price)
        \/ Open(l)
        \/ \E b \in Bidders, amount \in 1 .. Budget : Raise(l, b, amount)
        \/ KnockDown(l)
        \/ PassOver(l)
        \/ Withdraw(l)

Spec == Init /\ [][Next]_vars

=============================================================================
