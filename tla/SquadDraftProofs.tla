-------------------------- MODULE SquadDraftProofs --------------------------
(***************************************************************************)
(* The squad builder keeps its draft valid, whatever the edits, for every  *)
(* set of players and every number of places.                              *)
(***************************************************************************)
EXTENDS SquadDraft, FiniteSetTheorems, WellFoundedInduction, TLAPS

\* An assignment in a slot of its role is in a slot of the squad.
LEMMA RoleSlots ==
    ASSUME NEW role \in Role
    PROVE  /\ Slots(role) \subseteq Slot
           /\ \A other \in Role : other # role => Slots(role) \cap Slots(other) = {}
BY SquadRulesAssumption DEF Role, Slots, Slot, StarterSlots

\* A set of natural numbers has a smallest element.
LEMMA SmallestOfNat ==
    ASSUME NEW S \in SUBSET Nat, S # {}
    PROVE  \E t \in S : \A u \in S : t <= u
<1> DEFINE less == {pair \in Nat \X Nat : pair[1] < pair[2]}
<1>1. IsWellFoundedOn(less, Nat)
  BY NatLessThanWellFounded DEF OpToRel
<1>2. PICK t \in S : \A u \in S : <<u, t>> \notin less
  <2> HIDE DEF less
  <2> QED
    BY <1>1, WFMin
<1>3. ASSUME NEW u \in S PROVE t <= u
  <2>1. ~(u < t)
    <3>1. <<u, t>> \in Nat \X Nat
      OBVIOUS
    <3> QED
      BY <1>2, <3>1
  <2> QED
    BY <2>1
<1> QED
  BY <1>3

\* assignStarter: the displaced player takes the free place, with its armband
\* only if it still starts.
LEMMA AssignStarterValid ==
    ASSUME DraftIsValid, NEW p \in Players, NEW s \in StarterSlots
    PROVE  LET d == AssignStarter(draft, p, s)
           IN  d \subseteq Assignment /\ ValidBasics(d)
<1> DEFINE d == AssignStarter(draft, p, s)
           moving == At(draft, p)
           target == Target(draft, p, s)
           new == InSlot(draft, p, s)
<1>1. new \in Assignment /\ new.player = p /\ new.slot = s /\ new.role = "STARTER"
  BY RoleSlots DEF InSlot, Assignment, Role, Slots
<1>2. ASSUME NEW x \in Swapped(draft, p, s)
      PROVE  \E t \in target, m \in moving :
                /\ x = TakePlace(t, m)
                /\ x \in Assignment
                /\ x.player = t.player
                /\ x.slot = m.slot
                /\ x.role = m.role
                /\ x.captain => m.role = "STARTER" /\ t.captain
  <2>1. PICK t \in target, m \in moving :
           x = TakePlace(t, m)
    BY DEF Swapped
  <2>2. t \in Assignment /\ m \in Assignment
    BY DEF DraftIsValid, Target, Starters, At
  <2>3. x = [player |-> t.player, slot |-> m.slot, role |-> m.role,
             captain |-> IF m.role = "STARTER" THEN t.captain ELSE FALSE]
    BY <2>1, <2>2 DEF Assignment, TakePlace
  <2>4. x \in Assignment
    BY <2>2, <2>3 DEF Assignment
  <2>5. x.player = t.player /\ x.slot = m.slot /\ x.role = m.role
    BY <2>3
  <2>6. x.captain => m.role = "STARTER" /\ t.captain
    <3>1. x.captain = (IF m.role = "STARTER" THEN t.captain ELSE FALSE)
      BY <2>3
    <3>2. CASE m.role = "STARTER"
      BY <3>1, <3>2
    <3>3. CASE m.role # "STARTER"
      BY <3>1, <3>3
    <3> QED
      BY <3>2, <3>3
  <2> HIDE DEF target, moving
  <2> QED
    BY <2>1, <2>4, <2>5, <2>6
<1>3. \A x \in d : \/ x \in draft /\ x \notin moving /\ x \notin target
                   \/ x \in Swapped(draft, p, s)
                   \/ x = new
  BY DEF AssignStarter
<1>4. \A x \in draft : /\ x \in moving <=> x.player = p
                       /\ x \in target <=> /\ x.role = "STARTER"
                                           /\ x.slot = s
                                           /\ x.player # p
  BY DEF At, Target, Starters
<1>5. moving \subseteq draft /\ target \subseteq draft
  BY DEF At, Target, Starters
<1>6. /\ draft \subseteq Assignment
      /\ \A x \in draft : x.slot \in Slots(x.role)
      /\ \A x, y \in draft : x.player = y.player \/ x.slot = y.slot => x = y
      /\ \A x \in Captains(draft) : x.role = "STARTER"
      /\ \A x, y \in Captains(draft) : x = y
  BY DEF DraftIsValid, ValidBasics
<1> HIDE DEF d, moving, target, new
<1>7. d \subseteq Assignment
  BY <1>1, <1>2, <1>3, <1>6
<1>8. \A x \in d : x.slot \in Slots(x.role)
  <2>1. s \in Slots("STARTER")
    BY DEF Slots
  <2> QED
    BY <1>1, <1>2, <1>3, <1>5, <1>6, <2>1
\* Whoever has the slot starts: it moves or is displaced.
<1>9. \A x \in draft : x.slot = s => x \in moving \/ x \in target
  <2>1. s \in Slots("STARTER") /\ "STARTER" \in Role
    BY DEF Slots, Role
  <2>2. \A x \in draft : x.role \in Role
    BY <1>6 DEF Assignment
  <2>3. \A x \in draft : x.slot = s => x.role = "STARTER"
    BY <1>6, <2>1, <2>2, RoleSlots
  <2> QED
    BY <1>4, <2>3
<1>10. ASSUME NEW x \in d, NEW y \in d, x.player = y.player \/ x.slot = y.slot
       PROVE  x = y
  <2>1. CASE x \in draft /\ x \notin moving /\ x \notin target
    <3>1. CASE y \in draft /\ y \notin moving /\ y \notin target
      BY <3>1, <2>1, <1>6, <1>10
    <3>2. CASE y \in Swapped(draft, p, s)
      BY <3>2, <2>1, <1>2, <1>4, <1>5, <1>6, <1>10
    <3>3. CASE y = new
      BY <3>3, <2>1, <1>1, <1>4, <1>9, <1>10
    <3> QED
      BY <3>1, <3>2, <3>3, <1>3
  <2>2. CASE x \in Swapped(draft, p, s)
    <3>1. PICK t \in target, m \in moving :
             x = TakePlace(t, m) /\ x.player = t.player /\ x.slot = m.slot
      BY <2>2, <1>2
    <3>2. CASE y \in draft /\ y \notin moving /\ y \notin target
      BY <3>1, <3>2, <1>4, <1>5, <1>6, <1>10
    <3>3. CASE y \in Swapped(draft, p, s)
      <4>1. PICK u \in target, n \in moving : y = TakePlace(u, n)
        BY <3>3, <1>2
      <4>2. u = t /\ n = m
        BY <1>4, <1>5, <1>6
      <4> QED
        BY <3>1, <4>1, <4>2
    <3>4. CASE y = new
      <4>1. t.player # p /\ t.slot = s /\ t # m /\ m.slot # s
        BY <1>4, <1>5, <1>6
      <4> QED
        BY <3>1, <3>4, <4>1, <1>1, <1>10
    <3> QED
      BY <3>2, <3>3, <3>4, <1>3
  <2>3. CASE x = new
    <3>1. CASE y \in draft /\ y \notin moving /\ y \notin target
      BY <3>1, <2>3, <1>1, <1>4, <1>9, <1>10
    <3>2. CASE y \in Swapped(draft, p, s)
      <4>1. PICK t \in target, m \in moving : y.player = t.player /\ y.slot = m.slot
        BY <3>2, <1>2
      <4>2. t.player # p /\ t.slot = s /\ t # m /\ m.slot # s
        BY <1>4, <1>5, <1>6
      <4> QED
        BY <2>3, <4>1, <4>2, <1>1, <1>10
    <3> QED
      BY <3>1, <3>2, <2>3, <1>3
  <2> QED
    BY <2>1, <2>2, <2>3, <1>3
\* Every captain was the captain before.
<1>11. ASSUME NEW x \in d, x.captain
       PROVE  x.role = "STARTER" /\ \E c \in Captains(draft) : c.player = x.player
  <2>1. CASE x \in draft
    BY <2>1, <1>11, <1>6 DEF Captains
  <2>2. CASE x \in Swapped(draft, p, s)
    BY <2>2, <1>11, <1>2, <1>5 DEF Captains
  <2>3. CASE x = new
    BY <2>3, <1>11, <1>1, <1>4, <1>5 DEF Captains, new, InSlot, moving
  <2> QED
    BY <2>1, <2>2, <2>3, <1>3
<1> QED
  BY <1>7, <1>8, <1>10, <1>11, <1>6 DEF ValidBasics, Captains, d

\* setPlayerRole: the slot taken was free.
LEMMA SetPlayerRoleValid ==
    ASSUME DraftIsValid, NEW p \in Players, NEW role \in Role \ {"STARTER"}
    PROVE  LET d == SetPlayerRole(draft, p, role)
           IN  d \subseteq Assignment /\ ValidBasics(d)
<1> DEFINE others == draft \ At(draft, p)
           free == Slots(role) \ {a.slot : a \in {b \in others : b.role = role}}
           s == CHOOSE t \in free : \A u \in free : t <= u
           new == [player |-> p, slot |-> s, role |-> role, captain |-> FALSE]
<1>1. CASE free = {}
  BY <1>1 DEF SetPlayerRole, DraftIsValid
<1>2. CASE free # {}
  <2>1. /\ free \subseteq Slots(role)
        /\ free \subseteq Nat
    BY SquadRulesAssumption DEF Slots, Role
  <2>2. s \in free
    <3>1. \E t \in free : \A u \in free : t <= u
      BY <1>2, <2>1, SmallestOfNat
    <3> QED
      BY <3>1
  <2>3. SetPlayerRole(draft, p, role) = others \cup {new}
    BY <1>2 DEF SetPlayerRole
  <2>4. new \in Assignment /\ new.slot \in Slots(new.role)
    BY <2>1, <2>2, RoleSlots DEF Assignment, Role
  <2> HIDE DEF s
  <2>5. /\ draft \subseteq Assignment
        /\ \A x \in draft : x.slot \in Slots(x.role)
        /\ \A x, y \in draft : x.player = y.player \/ x.slot = y.slot => x = y
        /\ \A x \in Captains(draft) : x.role = "STARTER"
        /\ \A x, y \in Captains(draft) : x = y
    BY DEF DraftIsValid, ValidBasics
  <2>6. \A x \in others : x \in draft /\ x.player # p
    BY DEF At
  <2>7. ASSUME NEW x \in others PROVE x.slot # s
    <3>1. CASE x.role = role
      BY <3>1, <2>2
    <3>2. CASE x.role # role
      <4>1. x.role \in Role /\ x.slot \in Slots(x.role)
        BY <2>5, <2>6 DEF Assignment
      <4> QED
        BY <3>2, <4>1, <2>1, <2>2, RoleSlots
    <3> QED
      BY <3>1, <3>2
  <2>8. new.player = p /\ new.slot = s /\ ~new.captain
    OBVIOUS
  <2> HIDE DEF others, free, new
  <2>9. \A x, y \in others \cup {new} : x.player = y.player \/ x.slot = y.slot => x = y
    BY <2>5, <2>6, <2>7, <2>8
  <2>10. \A x \in others \cup {new} : x \in Assignment /\ x.slot \in Slots(x.role)
    BY <2>4, <2>5, <2>6
  <2>11. Captains(others \cup {new}) \subseteq Captains(draft)
    BY <2>6, <2>8 DEF Captains
  <2> QED
    BY <2>3, <2>5, <2>9, <2>10, <2>11 DEF ValidBasics
<1> QED
  BY <1>1, <1>2

\* Leaving a player out.
LEMMA RemovePlayerValid ==
    ASSUME DraftIsValid, NEW p \in Players
    PROVE  LET d == RemovePlayer(draft, p)
           IN  d \subseteq Assignment /\ ValidBasics(d)
BY DEF RemovePlayer, DraftIsValid, ValidBasics, Captains

\* An assignment with its armband as the choice has it.
Wearing(chosen, a) == [a EXCEPT !.captain = a \in chosen]

\* A draft that differs in the armband only, which one starter wears at most.
LEMMA ArmbandValid ==
    ASSUME DraftIsValid,
           NEW chosen, chosen \subseteq Starters(draft), \A a, b \in chosen : a = b,
           NEW d, d = {Wearing(chosen, a) : a \in draft}
    PROVE  d \subseteq Assignment /\ ValidBasics(d)
<1>1. ASSUME NEW a \in draft
      PROVE  LET x == Wearing(chosen, a)
             IN  /\ x \in Assignment
                 /\ x.player = a.player /\ x.slot = a.slot /\ x.role = a.role
                 /\ x.captain => a \in chosen
  <2>1. a \in Assignment
    BY DEF DraftIsValid
  <2>2. Wearing(chosen, a) = [player |-> a.player, slot |-> a.slot, role |-> a.role,
                              captain |-> a \in chosen]
    BY <2>1 DEF Assignment, Wearing
  <2>3. Wearing(chosen, a).captain = (a \in chosen)
    BY <2>2
  <2>4. Wearing(chosen, a).captain => a \in chosen
    BY <2>3, Zenon
  <2>5. (a \in chosen) \in BOOLEAN
    OBVIOUS
  <2>6. Wearing(chosen, a) \in Assignment
    BY <2>1, <2>2, <2>5 DEF Assignment
  <2> QED
    BY <2>2, <2>4, <2>6
<1>2. /\ \A x \in draft : x.slot \in Slots(x.role)
      /\ \A x, y \in draft : x.player = y.player \/ x.slot = y.slot => x = y
  BY DEF DraftIsValid, ValidBasics
<1>3. \A a \in chosen : a.role = "STARTER"
  BY DEF Starters
<1>4. \A x \in d : \E a \in draft : x = Wearing(chosen, a)
  OBVIOUS
<1>5. ASSUME NEW x \in d, NEW y \in d, x.player = y.player \/ x.slot = y.slot
      PROVE  x = y
  <2>1. PICK a \in draft, b \in draft : x = Wearing(chosen, a) /\ y = Wearing(chosen, b)
    BY <1>4
  <2>2. a = b
    BY <1>1, <1>2, <1>5, <2>1
  <2> QED
    BY <2>1, <2>2
<1>6. ASSUME NEW x \in d, NEW y \in d, x.captain, y.captain
      PROVE  x.role = "STARTER" /\ x = y
  <2>1. PICK a \in draft, b \in draft : x = Wearing(chosen, a) /\ y = Wearing(chosen, b)
    BY <1>4
  <2> QED
    BY <1>1, <1>3, <1>6, <2>1
<1>7. \A x \in d : x \in Assignment /\ x.slot \in Slots(x.role)
  BY <1>1, <1>2, <1>4
<1>8. /\ \A x \in Captains(d) : x.role = "STARTER"
      /\ \A x, y \in Captains(d) : x = y
  BY <1>6, Zenon DEF Captains
<1>9. d \subseteq Assignment
  BY <1>7, Zenon
<1>10. /\ \A x \in d : x.slot \in Slots(x.role)
       /\ \A x, y \in d : x.player = y.player \/ x.slot = y.slot => x = y
  BY <1>5, <1>7, Zenon
<1> QED
  BY <1>8, <1>9, <1>10 DEF ValidBasics

\* No edit, whatever came before it, makes the draft one the server's first
\* check refuses: a repeated player or slot, a role out of its slots, a second
\* captain or one who does not start.
THEOREM DraftStaysValid == Spec => []DraftIsValid
<1>1. Init => DraftIsValid
  BY DEF Init, DraftIsValid, ValidBasics, Captains
<1>2. DraftIsValid /\ [Next]_draft => DraftIsValid'
  <2> SUFFICES ASSUME DraftIsValid, [Next]_draft PROVE DraftIsValid'
    OBVIOUS
  <2>1. CASE UNCHANGED draft
    BY <2>1 DEF DraftIsValid, ValidBasics, Captains
  <2>2. ASSUME NEW p \in Players, PlaceStarter(p) PROVE DraftIsValid'
    BY <2>2, AssignStarterValid DEF PlaceStarter, DraftIsValid, ValidBasics, Captains
  <2>3. ASSUME NEW p \in Players, GiveRole(p) PROVE DraftIsValid'
    BY <2>3, SetPlayerRoleValid DEF GiveRole, DraftIsValid, ValidBasics, Captains
  <2>4. ASSUME NEW p \in Players, Remove(p) PROVE DraftIsValid'
    BY <2>4, RemovePlayerValid DEF Remove, DraftIsValid, ValidBasics, Captains
  <2>5. ASSUME NEW p \in Players, AppointCaptain(p) PROVE DraftIsValid'
    <3> DEFINE chosen == {a \in Starters(draft) : a.player = p}
    <3>1. chosen \subseteq Starters(draft) /\ \A a, b \in chosen : a = b
      BY DEF Starters, DraftIsValid, ValidBasics
    <3>2. \A a \in draft :
             [a EXCEPT !.captain = a.role = "STARTER" /\ a.player = p] = Wearing(chosen, a)
      <4>1. \A a \in draft : (a.role = "STARTER" /\ a.player = p) = (a \in chosen)
        BY DEF Starters
      <4> QED
        BY <4>1 DEF Wearing
    <3> HIDE DEF chosen
    <3>3. draft' = {Wearing(chosen, a) : a \in draft}
      BY <2>5, <3>2 DEF AppointCaptain, ChooseCaptain
    <3>4. draft' \subseteq Assignment /\ ValidBasics(draft')
      BY <3>1, <3>3, ArmbandValid
    <3> QED
      BY <3>4 DEF DraftIsValid, ValidBasics, Captains
  <2>6. ASSUME ClearCaptain PROVE DraftIsValid'
    <3>1. draft' = {Wearing({}, a) : a \in draft}
      <4>1. \A a \in draft : [a EXCEPT !.captain = FALSE] = Wearing({}, a)
        <5>1. \A a \in draft : FALSE = (a \in {})
          OBVIOUS
        <5> QED
          BY <5>1 DEF Wearing
      <4> QED
        BY <2>6, <4>1 DEF ClearCaptain
    <3>2. draft' \subseteq Assignment /\ ValidBasics(draft')
      BY <3>1, ArmbandValid
    <3> QED
      BY <3>2 DEF DraftIsValid, ValidBasics, Captains
  <2> QED
    BY <2>1, <2>2, <2>3, <2>4, <2>5, <2>6 DEF Next
<1> QED
  BY <1>1, <1>2, PTL DEF Spec

-----------------------------------------------------------------------------
\* A player moved to a starting place stays, and whoever had the place takes
\* the one it left.
LEMMA SwapKeepsPlayers ==
    ASSUME NEW d, NEW p \in PlayersOf(d), NEW s
    PROVE  PlayersOf(AssignStarter(d, p, s)) = PlayersOf(d)
<1> DEFINE e == AssignStarter(d, p, s)
<1>1. PICK m \in d : m.player = p
  BY DEF PlayersOf
<1>2. m \in At(d, p)
  BY <1>1 DEF At
<1>3. \A a \in e : \/ a \in d
                  \/ a = InSlot(d, p, s)
                  \/ \E t \in Target(d, p, s), n \in At(d, p) : a = TakePlace(t, n)
  BY DEF AssignStarter, Swapped
<1>4. \A t \in Target(d, p, s) : t \in d
  BY DEF Target, Starters
<1>5. ASSUME NEW t \in d, NEW n PROVE TakePlace(t, n).player = t.player
  BY DEF TakePlace
<1>6. InSlot(d, p, s).player = p
  BY DEF InSlot
<1>7. \A a \in e : a.player \in PlayersOf(d)
  BY <1>3, <1>4, <1>5, <1>6 DEF PlayersOf
<1>8. ASSUME NEW a \in d PROVE \E b \in e : b.player = a.player
  <2>1. CASE a \in Target(d, p, s)
    <3>1. TakePlace(a, m) \in e
      BY <1>2, <2>1 DEF AssignStarter, Swapped
    <3> QED
      BY <3>1, <1>5
  <2>2. CASE a.player = p
    BY <2>2, <1>6 DEF AssignStarter
  <2>3. CASE a \notin Target(d, p, s) /\ a.player # p
    BY <2>3 DEF AssignStarter, At
  <2> QED
    BY <2>1, <2>2, <2>3
<1> QED
  BY <1>7, <1>8 DEF PlayersOf

\* However full the places are, placing a player the draft has loses nobody.
THEOREM SwapsNeverLose == Spec => SwapsLoseNobody
<1>1. ASSUME NEW p \in PlayersOf(draft), PlaceStarter(p)
      PROVE  PlayersOf(draft') = PlayersOf(draft)
  BY <1>1, SwapKeepsPlayers DEF PlaceStarter
<1>2. \A p \in PlayersOf(draft) :
         PlaceStarter(p) => PlayersOf(draft') = PlayersOf(draft)
  BY <1>1
<1> QED
  BY <1>2, PTL DEF SwapsLoseNobody

\* A captain who starts before and after a placement wears the armband then.
LEMMA PlacementKeepsArmband ==
    ASSUME NEW d, ValidBasics(d), NEW p, NEW s,
           NEW a \in d, a.captain, NEW b \in AssignStarter(d, p, s),
           a.player = b.player, b.role = "STARTER"
    PROVE  b.captain
<1>1. \A x, y \in d : x.player = y.player => x = y
  BY DEF ValidBasics
<1>2. CASE b = InSlot(d, p, s)
  <2>1. a \in At(d, p)
    BY <1>2 DEF InSlot, At
  <2> QED
    BY <1>2, <2>1 DEF InSlot
<1>3. CASE b \in d
  BY <1>1, <1>3
<1>4. ASSUME NEW t \in Target(d, p, s), NEW m \in At(d, p), b = TakePlace(t, m)
      PROVE  b.captain
  <2>1. t \in d /\ b.player = t.player
    BY <1>4 DEF Target, Starters, TakePlace
  <2>2. t = a
    BY <1>1, <2>1
  <2>3. b.role = m.role /\ b.captain = IF m.role = "STARTER" THEN t.captain ELSE FALSE
    BY <1>4 DEF TakePlace
  <2> QED
    BY <2>2, <2>3
<1> QED
  BY <1>2, <1>3, <1>4 DEF AssignStarter, Swapped

\* A choice in the captain list moves nobody.
LEMMA ArmbandMovesNobody ==
    ASSUME NEW d, d \subseteq Assignment, NEW chosen
    PROVE  Places({Wearing(chosen, a) : a \in d}) = Places(d)
<1> DEFINE e == {Wearing(chosen, a) : a \in d}
           Place(a) == <<a.player, a.slot, a.role>>
<1>1. \A a \in d : Place(Wearing(chosen, a)) = Place(a)
  BY DEF Wearing, Assignment
<1> HIDE DEF Place
<1>2. {Place(b) : b \in e} = {Place(a) : a \in d}
  BY <1>1
<1> QED
  BY <1>2 DEF Places, Place

LEMMA ChoiceWears ==
    ASSUME NEW p, AppointCaptain(p)
    PROVE  draft' = {Wearing({x \in Starters(draft) : x.player = p}, a) : a \in draft}
<1> DEFINE chosen == {x \in Starters(draft) : x.player = p}
<1>1. ASSUME NEW a \in draft
      PROVE  [a EXCEPT !.captain = a.role = "STARTER" /\ a.player = p] = Wearing(chosen, a)
  <2>1. (a.role = "STARTER" /\ a.player = p) = (a \in chosen)
    BY DEF Starters
  <2> QED
    BY <2>1 DEF Wearing
<1> HIDE DEF chosen
<1>2. draft' = {Wearing(chosen, a) : a \in draft}
  BY <1>1 DEF AppointCaptain, ChooseCaptain
<1> QED
  BY <1>2 DEF chosen

LEMMA NoChoiceWears ==
    ASSUME ClearCaptain
    PROVE  draft' = {Wearing({}, a) : a \in draft}
<1>1. ASSUME NEW a \in draft PROVE [a EXCEPT !.captain = FALSE] = Wearing({}, a)
  <2>1. FALSE = (a \in {})
    OBVIOUS
  <2> QED
    BY <2>1 DEF Wearing
<1> QED
  BY <1>1 DEF ClearCaptain

\* The captain keeps its armband in every series of edits, through swaps with
\* the bench and back, until it leaves the side or another one is chosen.
THEOREM ArmbandStays == Spec => CaptainKeepsArmband
<1> DEFINE Kept == \A a \in Captains(draft), b \in draft' :
                       a.player = b.player /\ b.role = "STARTER" /\ ~b.captain =>
                           Places(draft') = Places(draft)
<1>1. DraftIsValid /\ [Next]_draft => [Kept]_draft
  <2> SUFFICES ASSUME DraftIsValid, Next,
                      NEW a \in Captains(draft), NEW b \in draft',
                      a.player = b.player, b.role = "STARTER", ~b.captain
               PROVE  Places(draft') = Places(draft)
    OBVIOUS
  <2>1. a \in draft /\ a.captain
    BY DEF Captains
  <2>2. ValidBasics(draft) /\ draft \subseteq Assignment
    BY DEF DraftIsValid
  <2>3. \A x, y \in draft : x.player = y.player => x = y
    BY <2>2 DEF ValidBasics
  <2>4. b \notin draft
    BY <2>1, <2>3
  <2>5. ASSUME NEW p \in Players, PlaceStarter(p) PROVE FALSE
    <3>1. PICK s \in StarterSlots : draft' = AssignStarter(draft, p, s)
      BY <2>5 DEF PlaceStarter
    <3> QED
      BY <2>1, <2>2, <3>1, PlacementKeepsArmband
  <2>6. ASSUME NEW p \in Players, GiveRole(p) PROVE FALSE
    <3>1. PICK role \in Role \ {"STARTER"} : draft' = SetPlayerRole(draft, p, role)
      BY <2>6 DEF GiveRole
    <3>2. b \in draft \/ b.role = role
      BY <3>1 DEF SetPlayerRole
    <3> QED
      BY <2>4, <3>1, <3>2
  <2>7. ASSUME NEW p \in Players, Remove(p) PROVE FALSE
    BY <2>4, <2>7 DEF Remove, RemovePlayer
  <2>8. ASSUME NEW p \in Players, AppointCaptain(p) PROVE Places(draft') = Places(draft)
    BY <2>2, <2>8, ChoiceWears, ArmbandMovesNobody
  <2>9. ASSUME ClearCaptain PROVE Places(draft') = Places(draft)
    BY <2>2, <2>9, NoChoiceWears, ArmbandMovesNobody
  <2> QED
    BY <2>5, <2>6, <2>7, <2>8, <2>9 DEF Next
<1> QED
  BY <1>1, DraftStaysValid, PTL DEF Spec, CaptainKeepsArmband

=============================================================================
