---------------------------- MODULE MCAuctionRoom ----------------------------
(***************************************************************************)
(* Model values and bounds for TLC.                                        *)
(***************************************************************************)
EXTENDS AuctionRoom, TLC

\* Keys, players and managers are interchangeable: nothing orders them.
RoomSymmetry ==
    Permutations(Keys) \cup Permutations(Players) \cup Permutations(Managers)

=============================================================================
