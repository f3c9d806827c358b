----------------------------- MODULE SquadRules -----------------------------
(***************************************************************************)
(* Squads as data: what an assignment of players to slots looks like, the  *)
(* edits the squad builder offers                                          *)
(* (apps/web/src/components/squads/squad-builder-view.tsx), and the checks *)
(* the server makes when a squad is saved and when it is locked            *)
(* (apps/api/src/squads/squads.service.ts).                                *)
(*                                                                         *)
(* A draft is a set of assignments.  The code keeps a list; its order is   *)
(* only for display, and a list that repeats an assignment is refused as   *)
(* one that repeats a player.  A position is "GK" or any other one.        *)
(***************************************************************************)
EXTENDS Integers, Sequences, FiniteSets

CONSTANTS
    Players,            \* the players somebody owns
    Formations,
    Shape,              \* of a formation: the entries of its JSON shape.slots
    PrimaryPosition,    \* of a player
    SecondaryKeepers,   \* players with GK among their secondary positions
    XI, Bench, Reserves \* 11, 7 and 12: how many slots each role has

Position == {"GK", "OUTFIELD"}
ShapeEntry == [slot : Int, position : Position]

ASSUME SquadRulesAssumption ==
    /\ XI \in Nat \ {0}
    /\ Bench \in Nat
    /\ Reserves \in Nat
    /\ Shape \in [Formations -> Seq(ShapeEntry)]
    /\ PrimaryPosition \in [Players -> Position]
    /\ SecondaryKeepers \subseteq Players

Role == {"STARTER", "SUBSTITUTE", "RESERVE"}
StarterSlots == 1 .. XI
Slots(role) == CASE role = "STARTER"    -> StarterSlots
                 [] role = "SUBSTITUTE" -> XI + 1 .. XI + Bench
                 [] role = "RESERVE"    -> XI + Bench + 1 .. XI + Bench + Reserves
Slot == 1 .. XI + Bench + Reserves

Assignment == [player : Players, slot : Slot, role : Role, captain : BOOLEAN]

PlayersOf(draft) == {a.player : a \in draft}
Starters(draft) == {a \in draft : a.role = "STARTER"}
Captains(draft) == {a \in draft : a.captain}

-----------------------------------------------------------------------------
(* The server's checks.                                                    *)

\* validateAssignmentBasics does not throw.
ValidBasics(draft) ==
    /\ \A a \in draft : a.slot \in Slots(a.role)
    /\ \A a, b \in draft : a.player = b.player \/ a.slot = b.slot => a = b
    /\ \A a \in Captains(draft) : a.role = "STARTER"
    /\ \A a, b \in Captains(draft) : a = b

\* formationSlotPositions does not throw: every starter slot, once each.
ValidShape(formation) ==
    LET entries == Shape[formation]
    IN  /\ \A i \in DOMAIN entries : entries[i].slot \in StarterSlots
        /\ \A i, j \in DOMAIN entries : entries[i].slot = entries[j].slot => i = j
        /\ \A s \in StarterSlots : \E i \in DOMAIN entries : entries[i].slot = s

KeeperSlot(formation, slot) ==
    \E i \in DOMAIN Shape[formation] :
        Shape[formation][i] = [slot |-> slot, position |-> "GK"]

CanKeep(player) ==
    PrimaryPosition[player] = "GK" \/ player \in SecondaryKeepers

\* A starter plays where the formation puts its slot, anybody else keeps its
\* primary position.
AssignedPosition(formation, a) ==
    IF a.role = "STARTER"
      THEN IF KeeperSlot(formation, a.slot) THEN "GK" ELSE "OUTFIELD"
      ELSE PrimaryPosition[a.player]

KeepersFit(formation, draft) ==
    \A a \in draft : AssignedPosition(formation, a) = "GK" => CanKeep(a.player)

\* The SquadPlayer rows of a saved draft.
Placed(formation, draft) ==
    {[assignment |-> a, position |-> AssignedPosition(formation, a)] : a \in draft}

AssignmentsOf(rows) == {r.assignment : r \in rows}

\* Mutant: a squad without a captain may be locked.
LockableWithoutCaptain(rows) ==
    LET starters == {r \in rows : r.assignment.role = "STARTER"}
        keepers == {r \in starters : r.position = "GK"}
    IN  /\ Cardinality(starters) = XI
        /\ \A s \in StarterSlots : \E r \in starters : r.assignment.slot = s
        /\ \E r \in keepers : keepers = {r} /\ CanKeep(r.assignment.player)

\* validateLockableSquad does not throw, nor does the trigger
\* validate_locked_squad, which asks for less.
Lockable(rows) ==
    LET starters == {r \in rows : r.assignment.role = "STARTER"}
        captains == {r \in starters : r.assignment.captain}
        keepers == {r \in starters : r.position = "GK"}
    IN  /\ Cardinality(starters) = XI
        /\ \A s \in StarterSlots : \E r \in starters : r.assignment.slot = s
        /\ \E r \in captains : captains = {r}
        /\ \E r \in keepers : keepers = {r} /\ CanKeep(r.assignment.player)

-----------------------------------------------------------------------------
(* The builder's edits.                                                    *)

At(draft, player) == {a \in draft : a.player = player}

\* Whom a player displaces from a slot.
Target(draft, player, slot) ==
    {a \in Starters(draft) : a.slot = slot /\ a.player # player}

\* Mutant: a starter sent to the bench keeps its armband.
TakePlaceWithArmband(t, m) == [t EXCEPT !.slot = m.slot, !.role = m.role]

\* t in the place of m: a captain on the bench is none.
TakePlace(t, m) ==
    [t EXCEPT !.slot = m.slot, !.role = m.role,
              !.captain = IF m.role = "STARTER" THEN t.captain ELSE FALSE]

\* Mutant: the one who had the slot falls out of the draft.
NobodySwapped(draft, player, slot) == {}

\* Whoever has the slot takes the place the player leaves.
Swapped(draft, player, slot) ==
    {TakePlace(t, m) : t \in Target(draft, player, slot), m \in At(draft, player)}

\* Mutant: a moved captain loses its armband.
InSlotAsNew(draft, player, slot) ==
    [player |-> player, slot |-> slot, role |-> "STARTER", captain |-> FALSE]

InSlot(draft, player, slot) ==
    [player |-> player, slot |-> slot, role |-> "STARTER",
     captain |-> \E m \in At(draft, player) : m.captain]

AssignStarter(draft, player, slot) ==
    (draft \ (At(draft, player) \cup Target(draft, player, slot)))
        \cup Swapped(draft, player, slot)
        \cup {InSlot(draft, player, slot)}

\* setPlayerRole takes the first free slot of the role, if there is one.
SetPlayerRole(draft, player, role) ==
    LET others == draft \ At(draft, player)
        free == Slots(role) \ {a.slot : a \in {b \in others : b.role = role}}
    IN  IF free = {}
          THEN draft
          ELSE others \cup
               {[player |-> player, slot |-> CHOOSE s \in free : \A t \in free : s <= t,
                 role |-> role, captain |-> FALSE]}

RemovePlayer(draft, player) == draft \ At(draft, player)

ChooseCaptain(draft, player) ==
    {[a EXCEPT !.captain = a.role = "STARTER" /\ a.player = player] : a \in draft}

=============================================================================
