---------------------------- MODULE MCSquadPhase ----------------------------
(* Sides of two, with one place on the bench.  The host owns a keeper h1   *)
(* and h2, the guest g1, who keeps as a second position, and g2.           *)
(* A behaviour has requests that are served in one step, of a page and of  *)
(* other clients, or transactions, as it chooses at its start.             *)
EXTENDS SquadLocks, TLC

CONSTANTS h1, h2, g1, g2,       \* players
          f1, f2, f3,           \* formations; the shape of f3 is malformed
          m1

Entry(s, p) == [slot |-> s, position |-> p]
MCShape == f1 :> <<Entry(1, "GK"), Entry(2, "OUTFIELD")>>
        @@ f2 :> <<Entry(2, "GK"), Entry(1, "OUTFIELD")>>
        @@ f3 :> <<Entry(1, "GK"), Entry(1, "OUTFIELD")>>

MCPosition == [p \in Players |-> IF p = h1 THEN "GK" ELSE "OUTFIELD"]

Own(players, formations) ==
    [players |-> players, formations |-> formations, managers |-> {}]

MCInventories == {Host :> Own({h1, h2}, {f2}) @@ Guest :> Own({g1, g2}, {f3})}

Starter(p, s, captain) ==
    [player |-> p, slot |-> s, role |-> "STARTER", captain |-> captain]
OnBench(p, captain) ==
    [player |-> p, slot |-> XI + 1, role |-> "SUBSTITUTE", captain |-> captain]

MCDrafts ==
    {{Starter(h1, 1, TRUE), Starter(h2, 2, FALSE)},
     {Starter(h1, 2, FALSE), Starter(h2, 1, TRUE)},
     {Starter(h1, 1, TRUE), OnBench(h2, FALSE)},
     {Starter(h1, 1, TRUE), OnBench(h2, TRUE)},
     {Starter(g1, 1, TRUE), Starter(g2, 2, FALSE)},
     {Starter(g1, 1, FALSE), Starter(g2, 2, FALSE)},
     {Starter(h1, 1, TRUE), Starter(g2, 2, FALSE)}}

\* One page, of the host.
MCOwner == [g \in Pages |-> Host]

VARIABLE served

MCInit == LocksInit /\ served \in {"in one step", "by transactions"}

MCNext ==
    /\ \/ served = "in one step" /\ Next /\ UNCHANGED transaction
       \/ served = "by transactions" /\ LocksNext
    /\ UNCHANGED served

MCSpec == MCInit /\ [][MCNext]_<<locks, served>>

=============================================================================
