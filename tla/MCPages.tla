------------------------------ MODULE MCPages ------------------------------
(***************************************************************************)
(* Small instances of Pages: operations that reuse a key, overdraw, buy an *)
(* item twice or name another match's auction; catalogs of rows that tie;  *)
(* catalogs a nomination form finds before, during and after the seed; and *)
(* four players for a side of three, one substitute and one reserve.       *)
(***************************************************************************)
EXTENDS Pages, TLC

CONSTANT owner

MCRequests ==
    {Operation("RESERVE", owner, "lot", 2, "k1", NoItem),
     Operation("RESERVE", owner, "lot", 1, "k1", NoItem),
     Operation("RELEASE", owner, "lot", 1, "k2", NoItem),
     Operation("PURCHASE", owner, "lot", 1, "k3", "player"),
     Operation("PURCHASE", owner, "lot", 1, "k4", "player"),
     Operation("RESERVE", owner, "other lot", 1, "k5", NoItem),
     Operation("RESERVE", owner, "lot", 4, "k5", NoItem)}

Seeded(code, rating, neutral) == [code |-> code, rating |-> rating, neutral |-> neutral]

MCData ==
    [players    |-> <<Seeded("comets-01", 1, FALSE), Seeded("comets-02", 1, FALSE)>>,
     managers   |-> <<Seeded("neutral-coach", 1, TRUE), Seeded("premium-manager", 2, FALSE)>>,
     formations |-> <<Seeded("4-4-2-basic", 1, TRUE), Seeded("4-3-3", 2, FALSE)>>]

MCLeftover == "4-3-3-attack" :> "4-3-3"

MCMarketValue == "p1" :> 3 @@ "p2" :> 2 @@ "m1" :> 1 @@ "f1" :> 2 @@ "f2" :> 1

MCCatalogs ==
    {NoAssets,
     [NoAssets EXCEPT !["PLAYER"] = <<"p1", "p2">>],
     [PLAYER |-> <<"p1", "p2">>, MANAGER |-> <<"m1">>, FORMATION |-> <<"f1", "f2">>]}

\* No edit of a draft looks at a position or a formation.
MCShape == [f \in Formations |-> <<>>]
MCPosition == [p \in Players |-> "OUTFIELD"]

=============================================================================
