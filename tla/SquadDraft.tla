----------------------------- MODULE SquadDraft -----------------------------
(***************************************************************************)
(* One squad builder at work: the draft of assignments it shows, changed   *)
(* by any sequence of its edits.                                           *)
(***************************************************************************)
EXTENDS SquadRules

VARIABLE draft      \* the view's "assignments"

PlaceStarter(p) ==
    \E s \in StarterSlots : draft' = AssignStarter(draft, p, s)

GiveRole(p) ==
    \E role \in Role \ {"STARTER"} : draft' = SetPlayerRole(draft, p, role)

Remove(p) == p \in PlayersOf(draft) /\ draft' = RemovePlayer(draft, p)

\* The list offers the starters.
AppointCaptain(p) ==
    /\ p \in PlayersOf(Starters(draft))
    /\ draft' = ChooseCaptain(draft, p)

\* The list's first entry, "Choose captain", names nobody.
ClearCaptain == draft' = {[a EXCEPT !.captain = FALSE] : a \in draft}

Init == draft = {}

Next ==
    \/ \E p \in Players :
           PlaceStarter(p) \/ GiveRole(p) \/ Remove(p) \/ AppointCaptain(p)
    \/ ClearCaptain

Spec == Init /\ [][Next]_draft

-----------------------------------------------------------------------------
\* Whatever the user does, the draft passes the server's first check: no
\* player or slot twice, roles in their slots, at most one captain, starting.
\* (Its only other refusals are stale versions and the goalkeeper's place.)
DraftIsValid == draft \subseteq Assignment /\ ValidBasics(draft)

Places(d) == {<<a.player, a.slot, a.role>> : a \in d}

\* Moving players never costs the captain its armband while it starts: only a
\* step that moves nobody (a choice in the captain list) takes it away.
CaptainKeepsArmband ==
    [][\A a \in Captains(draft), b \in draft' :
          a.player = b.player /\ b.role = "STARTER" /\ ~b.captain =>
              Places(draft') = Places(draft)]_draft

\* Placing a player the draft already has loses nobody: the one who had the
\* slot swaps places with it.
SwapsLoseNobody ==
    [][\A p \in PlayersOf(draft) :
          PlaceStarter(p) => PlayersOf(draft') = PlayersOf(draft)]_draft

=============================================================================
