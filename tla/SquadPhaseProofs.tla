-------------------------- MODULE SquadPhaseProofs --------------------------
(***************************************************************************)
(* The squad phase for every number of players, slots, formations and      *)
(* pages: what the server locks is a legal squad, locking is final and     *)
(* happens to the squad its author was given, and a version names one      *)
(* content.  At the end, for any number of overlapping transactions: they  *)
(* run the squad phase.                                                    *)
(***************************************************************************)
EXTENDS SquadLocks, FiniteSetTheorems, TLAPS

(* What a step does to the server.                                         *)

Kept == UNCHANGED <<matchStatus, squad, ready>>

Begun == /\ matchStatus = "AUCTION"
         /\ matchStatus' = "SQUAD_BUILDING"
         /\ UNCHANGED <<squad, ready>>

Saved == \E p \in Participant, r \in Request : SaveSquad(p, r)

Locked == \E p \in Participant, version \in Nat : LockSquad(p, version)

\* Whoever acts, the server at most opens the phase, saves or locks.
LEMMA ServerStep ==
    ASSUME TypeOK, [Next]_vars
    PROVE  owned' = owned /\ (Kept \/ Begun \/ Saved \/ Locked)
<1>1. CASE UNCHANGED vars
  BY <1>1 DEF vars, Kept
<1>2. CASE StartSquadBuilding
  BY <1>2 DEF StartSquadBuilding, Begun
<1>3. ASSUME NEW p \in Participant, OtherSave(p) PROVE owned' = owned /\ Saved
  <2>1. PICK f \in Formations, m \in Managers, d \in Drafts :
           SaveSquad(p, [version |-> squad[p].version, formation |-> f,
                         manager |-> m, draft |-> d])
    BY <1>3 DEF OtherSave
  <2>2. squad[p].version \in Nat
    BY DEF TypeOK, Squad
  <2>3. [version |-> squad[p].version, formation |-> f, manager |-> m, draft |-> d]
            \in Request
    BY <2>2, SquadPhaseAssumption DEF Request
  <2> QED
    BY <2>1, <2>3 DEF Saved, SaveSquad
<1>4. ASSUME NEW p \in Participant, OtherLock(p) PROVE owned' = owned /\ Locked
  <2>1. squad[p].version \in Nat
    BY DEF TypeOK, Squad
  <2> QED
    BY <1>4, <2>1 DEF OtherLock, Locked, LockSquad
<1>5. ASSUME NEW g \in Pages
      PROVE  Owner[g] \in Participant /\ call[g].request \in Request
                /\ call[g].request.version \in Nat
  BY SquadPhaseAssumption DEF TypeOK, Call, Request
<1>6. ASSUME NEW g \in Pages, ServeSave(g) PROVE owned' = owned /\ (Kept \/ Saved)
  BY <1>5, <1>6 DEF ServeSave, Saved, Kept, SaveSquad
<1>7. ASSUME NEW g \in Pages, ServeLock(g) PROVE owned' = owned /\ (Kept \/ Locked)
  BY <1>5, <1>7 DEF ServeLock, Locked, Kept, LockSquad
<1>8. ASSUME NEW g \in Pages,
             \/ Load(g) \/ Edit(g) \/ SaveDraft(g) \/ ConfirmLock(g) \/ ReceiveSaved(g)
             \/ ReceiveLocked(g) \/ ReceiveFailure(g) \/ Vanish(g)
      PROVE  owned' = owned /\ Kept
  BY <1>8 DEF Load, Edit, SaveDraft, ConfirmLock, Ask, ReceiveSaved, ReceiveLocked,
              ReceiveFailure, Vanish, Kept
<1> QED
  BY <1>1, <1>2, <1>3, <1>4, <1>6, <1>7, <1>8 DEF Next

-----------------------------------------------------------------------------
(* Types.                                                                  *)

\* What a participant may choose from exists.
LEMMA Available ==
    ASSUME TypeOK, NEW p \in Participant
    PROVE  /\ FormationsOf(p) \subseteq Formations
           /\ ManagersOf(p) \subseteq Managers
           /\ owned[p].formations \subseteq Formations
           /\ owned[p].managers \subseteq Managers
BY SquadPhaseAssumption DEF TypeOK, FormationsOf, ManagersOf, Inventory

\* The rows of a draft are rows.
LEMMA PlacedRows ==
    ASSUME NEW f, NEW d \in SUBSET Assignment
    PROVE  /\ Placed(f, d) \subseteq Row
           /\ AssignmentsOf(Placed(f, d)) = d
<1>1. \A a \in d : AssignedPosition(f, a) \in Position
  BY SquadRulesAssumption DEF AssignedPosition, Position, Assignment
<1>2. \A a \in d : [assignment |-> a, position |-> AssignedPosition(f, a)] \in Row
  BY <1>1 DEF Row
<1>3. Placed(f, d) \subseteq Row
  BY <1>2 DEF Placed
<1>4. ASSUME NEW a \in d PROVE a \in AssignmentsOf(Placed(f, d))
  <2>1. [assignment |-> a, position |-> AssignedPosition(f, a)] \in Placed(f, d)
    BY DEF Placed
  <2> QED
    BY <2>1 DEF AssignmentsOf
<1>5. \A r \in Placed(f, d) : r.assignment \in d
  BY DEF Placed
<1>6. AssignmentsOf(Placed(f, d)) \subseteq d
  BY <1>5 DEF AssignmentsOf
<1> QED
  BY <1>3, <1>4, <1>6

\* The assignments of rows are assignments.
LEMMA RowsAssigned ==
    ASSUME NEW rows \in SUBSET Row
    PROVE  AssignmentsOf(rows) \subseteq Assignment
BY DEF AssignmentsOf, Row

\* The values the program starts from have their types.
LEMMA BlankTypes ==
    /\ NoSquad \in Squad
    /\ BlankPage \in Page
    /\ NoRequest \in Request
    /\ NoCall \in Call
<1>1. NoSquad \in Squad
  BY DEF NoSquad, Squad
<1>2. NoRequest \in Request
  BY DEF NoRequest, Request
<1> QED
  BY <1>1, <1>2 DEF BlankPage, Page, NoCall, Call

\* Locking changes the lock and the version only.
LEMMA LockedContent ==
    ASSUME NEW p, squad[p] \in Squad
    PROVE  /\ LockedSquad(p) \in Squad
           /\ LockedSquad(p).locked
           /\ LockedSquad(p).version = squad[p].version + 1
           /\ LockedSquad(p).formation = squad[p].formation
           /\ LockedSquad(p).manager = squad[p].manager
           /\ LockedSquad(p).rows = squad[p].rows
<1> DEFINE old == squad[p]
<1>1. LockedSquad(p) = [old EXCEPT !.locked = TRUE, !.version = old.version + 1]
  BY DEF LockedSquad
<1>2. old \in [version : Nat, formation : Formations \cup {None},
               manager : Managers \cup {None}, rows : SUBSET Row, locked : BOOLEAN]
  BY DEF Squad
<1> HIDE DEF old
<1>3. LockedSquad(p) = [version |-> old.version + 1, formation |-> old.formation,
                       manager |-> old.manager, rows |-> old.rows, locked |-> TRUE]
  BY <1>1, <1>2
<1>4. old.version + 1 \in Nat
  BY <1>2
<1>5. LockedSquad(p) \in Squad
  BY <1>2, <1>3, <1>4 DEF Squad
<1> QED
  BY <1>3, <1>5 DEF old

\* Saving and locking keep the server's types.
LEMMA ServerTypes ==
    ASSUME TypeOK, [Next]_vars
    PROVE  /\ matchStatus' \in {"AUCTION", "SQUAD_BUILDING", "READY"}
           /\ owned' \in Inventories
           /\ squad' \in [Participant -> Squad]
           /\ ready' \subseteq Participant
<1>1. owned' = owned /\ (Kept \/ Begun \/ Saved \/ Locked)
  BY ServerStep
<1>2. CASE Kept
  BY <1>1, <1>2 DEF Kept, TypeOK
<1>3. CASE Begun
  BY <1>1, <1>3 DEF Begun, TypeOK
<1>4. CASE Saved
  <2>1. PICK p \in Participant, r \in Request : SaveSquad(p, r)
    BY <1>4 DEF Saved
  <2>2. SavedSquad(p, r) \in Squad
    <3>1. Placed(r.formation, r.draft) \subseteq Row
      BY PlacedRows DEF Request
    <3>2. squad[p].version + 1 \in Nat
      BY DEF TypeOK, Squad
    <3> QED
      BY <3>1, <3>2 DEF SavedSquad, Squad, Request
  <2> QED
    BY <1>1, <2>1, <2>2 DEF SaveSquad, TypeOK
<1>5. CASE Locked
  <2>1. PICK p \in Participant, version \in Nat : LockSquad(p, version)
    BY <1>5 DEF Locked
  <2>2. squad' \in [Participant -> Squad]
    <3>1. squad[p] \in Squad
      BY DEF TypeOK
    <3>2. \A new \in Squad : [squad EXCEPT ![p] = new] \in [Participant -> Squad]
      BY DEF TypeOK
    <3>3. LockedSquad(p) \in Squad
      BY <3>1, LockedContent
    <3> QED
      BY <2>1, <3>2, <3>3 DEF LockSquad
  <2>3. matchStatus' \in {"AUCTION", "SQUAD_BUILDING", "READY"}
    BY <2>1 DEF LockSquad, TypeOK
  <2>4. ready' \subseteq Participant
    BY <2>1 DEF LockSquad, TypeOK
  <2> QED
    BY <1>1, <2>2, <2>3, <2>4 DEF TypeOK
<1> QED
  BY <1>1, <1>2, <1>3, <1>4, <1>5

\* The formation or manager a page offers first is one, or none.
LEMMA OfferedType ==
    ASSUME NEW own, NEW neutral, NEW all, own \subseteq all, neutral \subseteq all
    PROVE  OwnedElseNeutral(own, neutral) \in all \cup {None}
<1>1. CASE own \cup neutral = {}
  BY <1>1 DEF OwnedElseNeutral
<1>2. CASE own \cup neutral # {}
  <2>1. \E x \in own \cup neutral : own # {} => x \in own
    BY <1>2
  <2>2. (CHOOSE x \in own \cup neutral : own # {} => x \in own) \in own \cup neutral
    BY <2>1
  <2> QED
    BY <1>2, <2>2 DEF OwnedElseNeutral
<1> QED
  BY <1>1, <1>2

\* The pages keep their types.
LEMMA PageTypes ==
    ASSUME TypeOK, [Next]_vars
    PROVE  page' \in [Pages -> Page]
<1> USE DEF TypeOK
<1>1. CASE UNCHANGED page
  BY <1>1
<1>2. ASSUME NEW g \in Pages
      PROVE  /\ page[g] \in Page
             /\ \A new \in Page : [page EXCEPT ![g] = new] \in [Pages -> Page]
             /\ squad[Owner[g]] \in Squad
             /\ call[g].answer \in Squad
             /\ Owner[g] \in Participant
  BY SquadPhaseAssumption, BlankTypes DEF Call
<1>3. ASSUME NEW g \in Pages, Load(g) PROVE page' \in [Pages -> Page]
  <2>1. /\ OwnedElseNeutral(owned[Owner[g]].formations, NeutralFormations)
               \in Formations \cup {None}
        /\ OwnedElseNeutral(owned[Owner[g]].managers, NeutralManagers)
               \in Managers \cup {None}
    BY <1>2, Available, OfferedType, SquadPhaseAssumption
  <2>2. AssignmentsOf(squad[Owner[g]].rows) \subseteq Assignment
    BY <1>2, RowsAssigned DEF Squad
  <2> DEFINE s == squad[Owner[g]]
             new == [editable |-> matchStatus = "SQUAD_BUILDING" /\ ~s.locked,
                     seen |-> s,
                     formation |-> IF s # NoSquad THEN s.formation
                         ELSE OwnedElseNeutral(owned[Owner[g]].formations, NeutralFormations),
                     manager |-> IF s # NoSquad THEN s.manager
                         ELSE OwnedElseNeutral(owned[Owner[g]].managers, NeutralManagers),
                     draft |-> AssignmentsOf(s.rows),
                     dirty |-> FALSE,
                     waiting |-> "no"]
  <2>3. new \in Page
    BY <1>2, <2>1, <2>2 DEF Page, Squad
  <2>4. page' = [page EXCEPT ![g] = new]
    BY <1>3 DEF Load
  <2> QED
    BY <1>2, <2>3, <2>4
<1>4. ASSUME NEW g \in Pages, Edit(g) PROVE page' \in [Pages -> Page]
  <2>1. /\ FormationsOf(Owner[g]) \cup {None} \subseteq Formations \cup {None}
        /\ ManagersOf(Owner[g]) \cup {None} \subseteq Managers \cup {None}
        /\ \A d \in Drafts : d \in SUBSET Assignment
    BY <1>2, Available, SquadPhaseAssumption
  <2>2. /\ page \in [Pages -> Page]
        /\ page[g] \in Page
    BY DEF TypeOK
  <2> HIDE DEF TypeOK
  <2>3. ASSUME NEW f \in Formations \cup {None},
               page' = [page EXCEPT ![g].formation = f, ![g].dirty = TRUE]
        PROVE  page' \in [Pages -> Page]
    <3>1. [page[g] EXCEPT !.formation = f, !.dirty = TRUE] \in Page
      BY <2>2 DEF Page
    <3> QED
      BY <2>2, <2>3, <3>1
  <2>4. ASSUME NEW m \in Managers \cup {None},
               page' = [page EXCEPT ![g].manager = m, ![g].dirty = TRUE]
        PROVE  page' \in [Pages -> Page]
    <3>1. [page[g] EXCEPT !.manager = m, !.dirty = TRUE] \in Page
      BY <2>2 DEF Page
    <3> QED
      BY <2>2, <2>4, <3>1
  <2>5. ASSUME NEW d \in SUBSET Assignment,
               page' = [page EXCEPT ![g].draft = d, ![g].dirty = TRUE]
        PROVE  page' \in [Pages -> Page]
    <3>1. [page[g] EXCEPT !.draft = d, !.dirty = TRUE] \in Page
      BY <2>2 DEF Page
    <3> QED
      BY <2>2, <2>5, <3>1
  <2> QED
    BY <1>4, <2>1, <2>3, <2>4, <2>5 DEF Edit
<1>5. ASSUME NEW g \in Pages, SaveDraft(g) \/ ConfirmLock(g) PROVE page' \in [Pages -> Page]
  <2>1. /\ [page[g] EXCEPT !.waiting = "save"] \in Page
        /\ [page[g] EXCEPT !.waiting = "lock"] \in Page
    BY <1>2 DEF Page
  <2>2. \/ page' = [page EXCEPT ![g] = [page[g] EXCEPT !.waiting = "save"]]
        \/ page' = [page EXCEPT ![g] = [page[g] EXCEPT !.waiting = "lock"]]
    BY <1>5 DEF SaveDraft, ConfirmLock, Ask
  <2> QED
    BY <1>2, <2>1, <2>2
<1>6. ASSUME NEW g \in Pages, ReceiveSaved(g) \/ ReceiveLocked(g) \/ ReceiveFailure(g)
      PROVE  page' \in [Pages -> Page]
  <2>1. AssignmentsOf(call[g].answer.rows) \subseteq Assignment
    BY <1>2, RowsAssigned DEF Squad
  <2>2. CASE ReceiveSaved(g)
    BY <1>2, <2>1, <2>2 DEF ReceiveSaved, Page
  <2>3. CASE ReceiveLocked(g)
    BY <1>2, <2>1, <2>3 DEF ReceiveLocked, Page
  <2>4. CASE ReceiveFailure(g)
    BY <1>2, <2>4 DEF ReceiveFailure, Page
  <2> QED
    BY <1>6, <2>2, <2>3, <2>4
<1> QED
  <2>1. CASE UNCHANGED vars
    BY <2>1, <1>1 DEF vars
  <2>2. ASSUME NEW g \in Pages, ServeSave(g) \/ ServeLock(g) \/ Vanish(g)
        PROVE  page' \in [Pages -> Page]
    BY <2>2, <1>1 DEF ServeSave, ServeLock, Vanish
  <2>3. CASE StartSquadBuilding \/ \E p \in Participant : OtherSave(p) \/ OtherLock(p)
    BY <2>3, <1>1 DEF StartSquadBuilding, OtherSave, OtherLock
  <2> HIDE DEF TypeOK
  <2> QED
    BY <1>3, <1>4, <1>5, <1>6, <2>1, <2>2, <2>3 DEF Next

\* The requests and their answers keep their types.
LEMMA CallTypes ==
    ASSUME TypeOK, [Next]_vars
    PROVE  call' \in [Pages -> Call]
<1>1. CASE UNCHANGED call
  BY <1>1 DEF TypeOK
<1>2. ASSUME NEW g \in Pages, NEW new \in Call
      PROVE  [call EXCEPT ![g] = new] \in [Pages -> Call]
  BY DEF TypeOK
<1>3. ASSUME NEW g \in Pages, NEW stage \in {"done", "refused"}, NEW s \in Squad,
             Answer(g, stage, s)
      PROVE  call' \in [Pages -> Call]
  <2>1. call[g] \in Call /\ call[g].request \in Request
    BY DEF TypeOK, Call
  <2>2. [stage |-> stage, request |-> call[g].request, answer |-> s] \in Call
    BY <2>1 DEF Call
  <2>3. call' = [call EXCEPT ![g] =
                    [stage |-> stage, request |-> call[g].request, answer |-> s]]
    BY <1>3 DEF Answer
  <2> QED
    BY <1>2, <2>2, <2>3
<1>4. ASSUME NEW g \in Pages
      PROVE  squad'[Owner[g]] \in Squad /\ squad[Owner[g]] \in Squad /\ NoSquad \in Squad
  BY ServerTypes, BlankTypes, SquadPhaseAssumption DEF TypeOK
<1>5. ASSUME NEW g \in Pages, ServeSave(g) \/ ServeLock(g) PROVE call' \in [Pages -> Call]
  BY <1>3, <1>4, <1>5 DEF ServeSave, ServeLock
<1>6. ASSUME NEW g \in Pages, SaveDraft(g) \/ ConfirmLock(g) PROVE call' \in [Pages -> Call]
  <2>1. ASSUME NEW stage \in {"saving", "locking"}
        PROVE [stage |-> stage, answer |-> NoSquad,
               request |-> [version |-> page[g].seen.version,
                            formation |-> page[g].formation,
                            manager |-> page[g].manager,
                            draft |-> page[g].draft]] \in Call
    BY DEF TypeOK, Page, Squad, Request, Call
  <2> QED
    BY <1>2, <1>6, <2>1 DEF SaveDraft, ConfirmLock, Ask
<1>7. ASSUME NEW g \in Pages,
             ReceiveSaved(g) \/ ReceiveLocked(g) \/ ReceiveFailure(g) \/ Vanish(g)
      PROVE  call' \in [Pages -> Call]
  BY <1>1, <1>2, <1>7, BlankTypes
     DEF ReceiveSaved, ReceiveLocked, ReceiveFailure, Vanish
<1> QED
  BY <1>1, <1>5, <1>6, <1>7
     DEF Next, vars, StartSquadBuilding, OtherSave, OtherLock, Load, Edit

\* Every value in the phase has the type its column, field or state variable
\* declares; in particular every row has a position, and only locked or saved
\* squads have versions.
THEOREM TypesAreCorrect == Spec => []TypeOK
<1>1. Init => TypeOK
  BY BlankTypes DEF Init, TypeOK
<1>2. TypeOK /\ [Next]_vars => TypeOK'
  BY ServerTypes, PageTypes, CallTypes DEF TypeOK
<1> QED
  BY <1>1, <1>2, PTL DEF Spec

-----------------------------------------------------------------------------
(* What is stored is sound: locking looks at rows only, and they still say *)
(* what their formation, checked when they were saved, made of them.       *)

Sound(p, s) ==
    LET side == AssignmentsOf(s.rows)
    IN  /\ s # NoSquad =>
               /\ s.rows = Placed(s.formation, side)
               /\ ValidBasics(side)
               /\ PlayersOf(side) \subseteq owned[p].players
               /\ s.formation \in FormationsOf(p)
               /\ s.manager \in ManagersOf(p)
        /\ s.locked => s # NoSquad /\ Lockable(s.rows)

SquadsAreSound == \A p \in Participant : Sound(p, squad[p])

\* What saveSquad accepts is sound.
LEMMA SavedIsSound ==
    ASSUME TypeOK, NEW p \in Participant, NEW r \in Request, SaveAllowed(p, r)
    PROVE  Sound(p, SavedSquad(p, r))
<1> DEFINE s == SavedSquad(p, r)
<1>1. /\ s.rows = Placed(r.formation, r.draft)
      /\ s.formation = r.formation
      /\ s.manager = r.manager
      /\ ~s.locked
  BY DEF SavedSquad
<1>2. AssignmentsOf(s.rows) = r.draft
  BY <1>1, PlacedRows DEF Request
<1> HIDE DEF s
<1>3. Sound(p, s)
  BY <1>1, <1>2 DEF Sound, SaveAllowed
<1> QED
  BY <1>3 DEF s

\* A sound squad that may be locked is sound when it is.
LEMMA LockedIsSound ==
    ASSUME TypeOK, NEW p \in Participant, NEW version, LockAllowed(p, version),
           Sound(p, squad[p])
    PROVE  Sound(p, LockedSquad(p))
<1> DEFINE s == LockedSquad(p)
<1>1. /\ s.rows = squad[p].rows
      /\ s.formation = squad[p].formation
      /\ s.manager = squad[p].manager
      /\ s.locked
      /\ squad[p].version \in Nat
  BY LockedContent DEF TypeOK, Squad
<1>2. s # NoSquad
  BY <1>1 DEF NoSquad
<1> HIDE DEF s
<1>3. Sound(p, s)
  BY <1>1, <1>2 DEF Sound, LockAllowed
<1> QED
  BY <1>3 DEF s

\* What the server changes, participant by participant.
LEMMA SquadStep ==
    ASSUME TypeOK, [Next]_vars
    PROVE  \/ UNCHANGED squad
           \/ \E p \in Participant, r \in Request :
                  /\ SaveAllowed(p, r)
                  /\ squad' = [squad EXCEPT ![p] = SavedSquad(p, r)]
                  /\ UNCHANGED <<matchStatus, ready>>
           \/ \E p \in Participant, version \in Nat :
                  /\ LockAllowed(p, version)
                  /\ squad' = [squad EXCEPT ![p] = LockedSquad(p)]
                  /\ LockSquad(p, version)
<1>1. Kept \/ Begun \/ Saved \/ Locked
  BY ServerStep
<1> QED
  BY <1>1 DEF Kept, Begun, Saved, Locked, SaveSquad, LockSquad

\* Soundness is inductive.
LEMMA SoundStep ==
    ASSUME TypeOK, SquadsAreSound, [Next]_vars
    PROVE  SquadsAreSound'
<1>1. owned' = owned
  BY ServerStep
<1>2. squad \in [Participant -> Squad]
  BY DEF TypeOK
<1>3. ASSUME NEW p \in Participant PROVE Sound(p, squad'[p])
  <2>1. CASE UNCHANGED squad
    BY <2>1 DEF SquadsAreSound
  <2>2. ASSUME NEW q \in Participant, NEW r \in Request, SaveAllowed(q, r),
               squad' = [squad EXCEPT ![q] = SavedSquad(q, r)]
        PROVE  Sound(p, squad'[p])
    <3>1. CASE p = q
      BY <1>2, <2>2, <3>1, SavedIsSound
    <3>2. CASE p # q
      BY <1>2, <2>2, <3>2 DEF SquadsAreSound
    <3> QED
      BY <3>1, <3>2
  <2>3. ASSUME NEW q \in Participant, NEW version \in Nat, LockAllowed(q, version),
               squad' = [squad EXCEPT ![q] = LockedSquad(q)]
        PROVE  Sound(p, squad'[p])
    <3>1. CASE p = q
      <4>1. Sound(q, squad[q])
        BY DEF SquadsAreSound
      <4>2. Sound(q, LockedSquad(q))
        BY <2>3, <4>1, LockedIsSound
      <4> QED
        BY <1>2, <2>3, <3>1, <4>2
    <3>2. CASE p # q
      BY <1>2, <2>3, <3>2 DEF SquadsAreSound
    <3> QED
      BY <3>1, <3>2
  <2> QED
    BY <2>1, <2>2, <2>3, SquadStep
<1> QED
  BY <1>1, <1>3 DEF SquadsAreSound, Sound, FormationsOf, ManagersOf

\* A sound squad that is locked is a legal side.
LEMMA SoundIsLegal ==
    ASSUME TypeOK, NEW p \in Participant, Sound(p, squad[p]), squad[p].locked
    PROVE  LegalSide(p)
<1> DEFINE f == squad[p].formation
           rows == squad[p].rows
           side == AssignmentsOf(rows)
           starters == {r \in rows : r.assignment.role = "STARTER"}
<1>1. /\ rows = Placed(f, side)
      /\ ValidBasics(side)
      /\ PlayersOf(side) \subseteq owned[p].players
      /\ f \in FormationsOf(p)
      /\ squad[p].manager \in ManagersOf(p)
      /\ Lockable(rows)
  BY DEF Sound
<1>2. \A r \in rows : /\ r.assignment \in side
                      /\ r.position = AssignedPosition(f, r.assignment)
  BY <1>1 DEF Placed
<1>3. \A a \in side : \E r \in rows : r.assignment = a
  BY DEF AssignmentsOf
<1>4. /\ \A s \in StarterSlots : \E r \in starters : r.assignment.slot = s
      /\ \E r \in starters : {c \in starters : c.assignment.captain} = {r}
      /\ \E r \in starters : /\ {k \in starters : k.position = "GK"} = {r}
                             /\ CanKeep(r.assignment.player)
  BY <1>1 DEF Lockable
<1> HIDE DEF f, rows, side
<1>5. {a.slot : a \in Starters(side)} = StarterSlots
  <2>1. \A a \in Starters(side) : a.slot \in StarterSlots
    BY <1>1 DEF ValidBasics, Starters, Slots
  <2>2. \A s \in StarterSlots : \E a \in Starters(side) : a.slot = s
    BY <1>2, <1>4 DEF Starters
  <2> QED
    BY <2>1, <2>2
<1>6. \E c \in Starters(side) : Captains(side) = {c}
  <2>1. PICK r \in starters : {c \in starters : c.assignment.captain} = {r}
    BY <1>4
  <2>2. r.assignment \in Captains(side) /\ r.assignment \in Starters(side)
    BY <1>2, <2>1 DEF Captains, Starters
  <2>3. \A c \in Captains(side) : c = r.assignment
    BY <1>1, <2>2 DEF ValidBasics
  <2> QED
    BY <2>2, <2>3
<1>7. \E k \in Starters(side) :
         /\ CanKeep(k.player)
         /\ \A s \in StarterSlots : KeeperSlot(f, s) <=> s = k.slot
  <2>1. PICK r \in starters : /\ {k \in starters : k.position = "GK"} = {r}
                              /\ CanKeep(r.assignment.player)
    BY <1>4
  <2>2. \A x \in starters : x.position = "GK" <=> KeeperSlot(f, x.assignment.slot)
    BY <1>2 DEF AssignedPosition
  <2>3. KeeperSlot(f, r.assignment.slot)
    BY <2>1, <2>2
  <2>4. ASSUME NEW s \in StarterSlots, KeeperSlot(f, s) PROVE s = r.assignment.slot
    <3>1. PICK x \in starters : x.assignment.slot = s
      BY <1>4
    <3>2. x = r
      BY <2>1, <2>2, <2>4, <3>1
    <3> QED
      BY <3>1, <3>2
  <2>5. r.assignment \in Starters(side)
    BY <1>2 DEF Starters
  <2> QED
    BY <2>1, <2>3, <2>4, <2>5
<1> QED
  BY <1>1, <1>5, <1>6, <1>7 DEF LegalSide, f, rows, side

\* The server stores only sound squads.
THEOREM SquadsStaySound == Spec => []SquadsAreSound
<1>1. Init => SquadsAreSound
  BY DEF Init, SquadsAreSound, Sound, NoSquad
<1>2. TypeOK /\ SquadsAreSound /\ [Next]_vars => SquadsAreSound'
  BY SoundStep
<1> QED
  BY <1>1, <1>2, TypesAreCorrect, PTL DEF Spec

\* Whatever the clients send, and however saves and locks interleave, a locked
\* squad is a legal side of players its owner has.
THEOREM LockedSquadsAreLegal == Spec => []LockedSquadIsLegal
<1>1. TypeOK /\ SquadsAreSound => LockedSquadIsLegal
  BY SoundIsLegal DEF SquadsAreSound, LockedSquadIsLegal
<1> QED
  BY <1>1, TypesAreCorrect, SquadsStaySound, PTL

-----------------------------------------------------------------------------
(* READY.                                                                  *)

\* Two of two participants are both of them.
LEMMA BothParticipants ==
    ASSUME NEW S \in SUBSET Participant
    PROVE  Cardinality(S) = 2 <=> S = Participant
<1>1. IsFiniteSet({Host}) /\ Cardinality({Host}) = 1
  BY FS_Singleton
<1>2. IsFiniteSet(Participant) /\ Cardinality(Participant) = 2
  <2>1. Participant = {Host} \cup {Guest} /\ Guest \notin {Host}
    BY SquadPhaseAssumption DEF Participant
  <2> QED
    BY <1>1, <2>1, FS_AddElement
<1> QED
  BY <1>2, FS_Subset

\* The match and its participants follow the squads.
LEMMA ReadyStep ==
    ASSUME TypeOK, ReadyWhenBothLocked, [Next]_vars
    PROVE  ReadyWhenBothLocked'
<1>1. Kept \/ Begun \/ Saved \/ Locked
  BY ServerStep
<1>2. CASE Kept
  BY <1>2 DEF Kept, ReadyWhenBothLocked
<1>3. CASE Begun
  BY <1>3 DEF Begun, ReadyWhenBothLocked
<1>4. CASE Saved
  <2>1. PICK p \in Participant, r \in Request : SaveSquad(p, r)
    BY <1>4 DEF Saved
  <2>2. /\ ~squad[p].locked /\ ~squad'[p].locked
        /\ \A q \in Participant : q # p => squad'[q] = squad[q]
        /\ UNCHANGED <<matchStatus, ready>>
    BY <2>1 DEF SaveSquad, SaveAllowed, SavedSquad, TypeOK
  <2> QED
    BY <2>2 DEF ReadyWhenBothLocked
<1>5. CASE Locked
  <2>1. PICK p \in Participant, version \in Nat : LockSquad(p, version)
    BY <1>5 DEF Locked
  <2>2. squad' = [squad EXCEPT ![p] = LockedSquad(p)] /\ squad[p] \in Squad
    BY <2>1 DEF LockSquad, TypeOK
  <2>3. /\ squad'[p].locked
        /\ \A q \in Participant : q # p => squad'[q] = squad[q]
    BY <2>2, LockedContent DEF TypeOK
  <2>4. /\ matchStatus = "SQUAD_BUILDING"
        /\ ready' = ready \cup {p}
    BY <2>1 DEF LockSquad, LockAllowed
  <2> DEFINE lockedNow == {q \in Participant : squad'[q].locked}
  <2>5. matchStatus' = IF Cardinality(lockedNow) = 2 THEN "READY" ELSE matchStatus
    BY <2>1 DEF LockSquad
  <2>6. Cardinality(lockedNow) = 2 <=> lockedNow = Participant
    BY BothParticipants
  <2>7. lockedNow = Participant <=> \A q \in Participant : squad'[q].locked
    OBVIOUS
  <2> HIDE DEF lockedNow
  <2>8. (matchStatus = "READY")' <=> \A q \in Participant : squad'[q].locked
    BY <2>4, <2>5, <2>6, <2>7
  <2>9. \A q \in Participant : q \in ready' <=> squad'[q].locked
    BY <2>3, <2>4 DEF ReadyWhenBothLocked
  <2> QED
    BY <2>8, <2>9 DEF ReadyWhenBothLocked
<1> QED
  BY <1>1, <1>2, <1>3, <1>4, <1>5

\* The match is READY when both squads are locked and not before: no order of
\* the two locks leaves it waiting, none starts it early.
THEOREM ReadyExactlyWhenLocked == Spec => []ReadyWhenBothLocked
<1>1. Init => ReadyWhenBothLocked
  BY SquadPhaseAssumption DEF Init, ReadyWhenBothLocked, NoSquad, Participant
<1>2. TypeOK /\ ReadyWhenBothLocked /\ [Next]_vars => ReadyWhenBothLocked'
  BY ReadyStep
<1> QED
  BY <1>1, <1>2, TypesAreCorrect, PTL DEF Spec

\* Nobody changes a locked squad, or anything once the match is READY.
THEOREM LockIsFinal == Spec => LockingIsFinal
<1>1. ASSUME TypeOK, [Next]_vars
      PROVE  /\ \A p \in Participant : squad[p].locked => squad'[p] = squad[p]
             /\ matchStatus = "READY" => UNCHANGED <<matchStatus, squad, ready>>
  <2>1. Kept \/ Begun \/ Saved \/ Locked
    BY <1>1, ServerStep
  <2>2. CASE Kept
    BY <2>2 DEF Kept
  <2>3. CASE Begun
    BY <2>3 DEF Begun
  <2>4. CASE Saved
    BY <1>1, <2>4 DEF Saved, SaveSquad, SaveAllowed, TypeOK
  <2>5. CASE Locked
    BY <1>1, <2>5 DEF Locked, LockSquad, LockAllowed, TypeOK
  <2> QED
    BY <2>1, <2>2, <2>3, <2>4, <2>5
<1> QED
  BY <1>1, TypesAreCorrect, PTL DEF Spec, LockingIsFinal

-----------------------------------------------------------------------------
(* Versions.                                                               *)

\* A squad held somewhere is the stored one, or an older one.
Behind(held, stored) ==
    /\ held.version <= stored.version
    /\ held.version = stored.version => held = stored

\* Every change of a squad gives it a higher version.
LEMMA VersionsGrow ==
    ASSUME TypeOK, [Next]_vars, NEW p \in Participant
    PROVE  \/ squad'[p] = squad[p]
           \/ squad'[p].version = squad[p].version + 1
<1>1. squad \in [Participant -> Squad]
  BY DEF TypeOK
<1>2. ASSUME NEW q \in Participant, NEW r,
             squad' = [squad EXCEPT ![q] = SavedSquad(q, r)]
      PROVE  \/ squad'[p] = squad[p]
             \/ squad'[p].version = squad[p].version + 1
  BY <1>1, <1>2 DEF SavedSquad
<1>3. ASSUME NEW q \in Participant,
             squad' = [squad EXCEPT ![q] = LockedSquad(q)]
      PROVE  \/ squad'[p] = squad[p]
             \/ squad'[p].version = squad[p].version + 1
  BY <1>1, <1>3, LockedContent
<1> QED
  BY <1>2, <1>3, SquadStep

\* So what was behind stays behind.
LEMMA BehindStep ==
    ASSUME TypeOK, [Next]_vars, NEW p \in Participant, NEW held \in Squad,
           Behind(held, squad[p])
    PROVE  Behind(held, squad'[p])
<1>1. held.version \in Nat /\ squad[p].version \in Nat
  BY DEF TypeOK, Squad
<1> QED
  BY <1>1, VersionsGrow DEF Behind

\* What a page waits for was asked with the version it still shows.
CallFromPage ==
    \A g \in Pages :
        page[g].waiting # "no" => call[g].request.version = page[g].seen.version

\* An edit touches what a page shows, not what it was given.
LEMMA EditKeeps ==
    ASSUME TypeOK, NEW g \in Pages, NEW h \in Pages, Edit(h)
    PROVE  page'[g].seen = page[g].seen /\ page'[g].waiting = page[g].waiting
<1>1. page \in [Pages -> Page] /\ page[h] \in Page
  BY DEF TypeOK
<1>2. ASSUME NEW f, page' = [page EXCEPT ![h].formation = f, ![h].dirty = TRUE]
      PROVE  page'[g].seen = page[g].seen /\ page'[g].waiting = page[g].waiting
  BY <1>1, <1>2 DEF Page
<1>3. ASSUME NEW m, page' = [page EXCEPT ![h].manager = m, ![h].dirty = TRUE]
      PROVE  page'[g].seen = page[g].seen /\ page'[g].waiting = page[g].waiting
  BY <1>1, <1>3 DEF Page
<1>4. ASSUME NEW d, page' = [page EXCEPT ![h].draft = d, ![h].dirty = TRUE]
      PROVE  page'[g].seen = page[g].seen /\ page'[g].waiting = page[g].waiting
  BY <1>1, <1>4 DEF Page
<1> QED
  BY <1>2, <1>3, <1>4 DEF Edit

\* A page is given squads from the server only: one it loads, or one that
\* answered its request.
LEMMA PageStep ==
    ASSUME TypeOK, [Next]_vars, NEW g \in Pages
    PROVE  \/ page'[g].seen = page[g].seen
           \/ page'[g].seen = squad[Owner[g]] /\ squad' = squad
           \/ page'[g].seen = call[g].answer /\ call[g].stage = "done"
<1>1. page \in [Pages -> Page]
  BY DEF TypeOK
<1>2. CASE UNCHANGED page
  BY <1>2
<1>3. ASSUME NEW h \in Pages, Load(h)
      PROVE  \/ page'[g].seen = page[g].seen
             \/ page'[g].seen = squad[Owner[g]] /\ squad' = squad
  <2>1. g # h => page'[g] = page[g]
    BY <1>1, <1>3 DEF Load
  <2>2. g = h => page'[g].seen = squad[Owner[g]]
    BY <1>1, <1>3 DEF Load
  <2>3. squad' = squad
    BY <1>3 DEF Load
  <2> QED
    BY <2>1, <2>2, <2>3
<1>4. ASSUME NEW h \in Pages, Edit(h) PROVE page'[g].seen = page[g].seen
  BY <1>4, EditKeeps
<1>5. ASSUME NEW h \in Pages, SaveDraft(h) \/ ConfirmLock(h) \/ ReceiveFailure(h)
      PROVE  page'[g].seen = page[g].seen
  BY <1>1, <1>5 DEF SaveDraft, ConfirmLock, Ask, ReceiveFailure, Page
<1>6. ASSUME NEW h \in Pages, ReceiveSaved(h) \/ ReceiveLocked(h)
      PROVE  \/ page'[g].seen = page[g].seen
             \/ page'[g].seen = call[g].answer /\ call[g].stage = "done"
  BY <1>1, <1>6 DEF ReceiveSaved, ReceiveLocked, Page
<1> QED
  BY <1>2, <1>3, <1>4, <1>5, <1>6
     DEF Next, vars, StartSquadBuilding, OtherSave, OtherLock, ServeSave, ServeLock, Vanish

\* A request is answered with the squad stored in the same step.
LEMMA AnswerStep ==
    ASSUME TypeOK, [Next]_vars, NEW g \in Pages
    PROVE  \/ call'[g].stage # "done"
           \/ call'[g] = call[g]
           \/ call'[g].answer = squad'[Owner[g]]
<1>1. call \in [Pages -> Call]
  BY DEF TypeOK
<1>2. CASE UNCHANGED call
  BY <1>2
<1>3. ASSUME NEW h \in Pages, ServeSave(h) \/ ServeLock(h)
      PROVE  \/ call'[g].stage # "done"
             \/ call'[g] = call[g]
             \/ call'[g].answer = squad'[Owner[g]]
  <2>1. PICK stage, s :
           /\ stage \in {"done", "refused"}
           /\ Answer(h, stage, s)
           /\ stage = "done" => s = squad'[Owner[h]]
    BY <1>3 DEF ServeSave, ServeLock
  <2>2. CASE g = h
    BY <1>1, <2>1, <2>2 DEF Answer
  <2>3. CASE g # h
    BY <1>1, <2>1, <2>3 DEF Answer
  <2> QED
    BY <2>2, <2>3
<1>4. ASSUME NEW h \in Pages, SaveDraft(h) \/ ConfirmLock(h)
      PROVE  call'[g].stage # "done" \/ call'[g] = call[g]
  BY <1>1, <1>4 DEF SaveDraft, ConfirmLock, Ask
<1>5. ASSUME NEW h \in Pages,
             ReceiveSaved(h) \/ ReceiveLocked(h) \/ ReceiveFailure(h) \/ Vanish(h)
      PROVE  call'[g].stage # "done" \/ call'[g] = call[g]
  BY <1>1, <1>5 DEF ReceiveSaved, ReceiveLocked, ReceiveFailure, Vanish, NoCall
<1> QED
  BY <1>2, <1>3, <1>4, <1>5
     DEF Next, vars, StartSquadBuilding, OtherSave, OtherLock, Load, Edit

\* A page that waits has asked with what it shows, and keeps showing it.
LEMMA CallFromPageStep ==
    ASSUME TypeOK, CallFromPage, [Next]_vars
    PROVE  CallFromPage'
<1>1. call \in [Pages -> Call] /\ page \in [Pages -> Page]
  BY DEF TypeOK
<1>2. ASSUME NEW g \in Pages, page'[g].waiting # "no"
      PROVE  call'[g].request.version = page'[g].seen.version
  <2>1. page[g].waiting # "no" => call[g].request.version = page[g].seen.version
    BY DEF CallFromPage
  <2>2. CASE UNCHANGED <<page, call>>
    BY <1>2, <2>1, <2>2
  <2>3. ASSUME NEW h \in Pages, ServeSave(h) \/ ServeLock(h)
        PROVE  call'[g].request.version = page'[g].seen.version
    <3>1. PICK stage, s : Answer(h, stage, s)
      BY <2>3 DEF ServeSave, ServeLock
    <3>2. call'[g].request = call[g].request
      BY <1>1, <3>1 DEF Answer
    <3>3. page' = page
      BY <2>3 DEF ServeSave, ServeLock
    <3> QED
      BY <1>2, <2>1, <3>2, <3>3
  <2>4. ASSUME NEW h \in Pages, Load(h) \/ Edit(h)
        PROVE  call'[g].request.version = page'[g].seen.version
    <3>1. UNCHANGED call
      BY <2>4 DEF Load, Edit
    <3>2. page'[g].seen = page[g].seen /\ page'[g].waiting = page[g].waiting
      <4>1. CASE Load(h)
        <5>1. g # h
          BY <1>1, <1>2, <4>1 DEF Load
        <5> QED
          BY <1>1, <4>1, <5>1 DEF Load
      <4>2. CASE Edit(h)
        BY <4>2, EditKeeps
      <4> QED
        BY <2>4, <4>1, <4>2
    <3> QED
      BY <1>2, <2>1, <3>1, <3>2
  <2>5. ASSUME NEW h \in Pages, SaveDraft(h) \/ ConfirmLock(h)
        PROVE  call'[g].request.version = page'[g].seen.version
    <3>1. page'[g].seen = page[g].seen
      BY <1>1, <2>5 DEF SaveDraft, ConfirmLock, Ask, Page
    <3>2. CASE g = h
      BY <1>1, <2>5, <3>1, <3>2 DEF SaveDraft, ConfirmLock, Ask
    <3>3. CASE g # h
      BY <1>1, <1>2, <2>1, <2>5, <3>3 DEF SaveDraft, ConfirmLock, Ask
    <3> QED
      BY <3>2, <3>3
  <2>6. ASSUME NEW h \in Pages,
               ReceiveSaved(h) \/ ReceiveLocked(h) \/ ReceiveFailure(h) \/ Vanish(h)
        PROVE  call'[g].request.version = page'[g].seen.version
    <3>1. h # g
      BY <1>1, <1>2, <2>6 DEF ReceiveSaved, ReceiveLocked, ReceiveFailure, Vanish, Page
    <3>2. call'[g] = call[g] /\ page'[g] = page[g]
      BY <1>1, <2>6, <3>1 DEF ReceiveSaved, ReceiveLocked, ReceiveFailure, Vanish
    <3> QED
      BY <1>2, <2>1, <3>2
  <2> QED
    BY <2>2, <2>3, <2>4, <2>5, <2>6
       DEF Next, vars, StartSquadBuilding, OtherSave, OtherLock
<1> QED
  BY <1>2 DEF CallFromPage

\* Versions name squads: inductive with the types.
LEMMA VersionStep ==
    ASSUME TypeOK, VersionNamesSquad, [Next]_vars
    PROVE  VersionNamesSquad'
<1>1. ASSUME NEW g \in Pages
      PROVE  /\ Behind(page[g].seen, squad[Owner[g]])
             /\ call[g].stage = "done" => Behind(call[g].answer, squad[Owner[g]])
             /\ Owner[g] \in Participant
             /\ page[g].seen \in Squad
             /\ call[g].answer \in Squad
             /\ squad[Owner[g]] \in Squad
             /\ squad'[Owner[g]] \in Squad
  BY SquadPhaseAssumption, BlankTypes, ServerTypes
     DEF TypeOK, Page, Call, VersionNamesSquad, Behind
<1>2. \A s \in Squad : Behind(s, s)
  BY DEF Behind, Squad
<1>3. ASSUME NEW g \in Pages PROVE Behind(page'[g].seen, squad'[Owner[g]])
  <2>1. Behind(page[g].seen, squad'[Owner[g]])
    BY <1>1, BehindStep
  <2>2. call[g].stage = "done" => Behind(call[g].answer, squad'[Owner[g]])
    BY <1>1, BehindStep
  <2> QED
    BY <1>1, <1>2, <2>1, <2>2, PageStep
<1>4. ASSUME NEW g \in Pages, call'[g].stage = "done"
      PROVE  Behind(call'[g].answer, squad'[Owner[g]])
  <2>1. call[g].stage = "done" => Behind(call[g].answer, squad'[Owner[g]])
    BY <1>1, BehindStep
  <2> QED
    BY <1>1, <1>2, <1>4, <2>1, AnswerStep
<1>5. ASSUME NEW g \in Pages
      PROVE  /\ Behind(page'[g].seen, squad'[Owner[g]])
             /\ call'[g].stage = "done" => Behind(call'[g].answer, squad'[Owner[g]])
  BY <1>3, <1>4
<1> QED
  BY <1>5 DEF VersionNamesSquad, Behind

\* A version names one content, for every page and every answer on its way.
THEOREM VersionsNameSquads == Spec => [](VersionNamesSquad /\ CallFromPage)
<1>1. Init => VersionNamesSquad /\ CallFromPage
  <2>1. ASSUME Init, NEW g \in Pages
        PROVE  /\ page[g].seen = NoSquad /\ page[g].waiting = "no"
               /\ call[g].stage = "none"
               /\ squad[Owner[g]] = NoSquad
    BY <2>1, SquadPhaseAssumption DEF Init, BlankPage, NoCall
  <2>2. NoSquad.version <= NoSquad.version
    BY DEF NoSquad
  <2> QED
    BY <2>1, <2>2 DEF VersionNamesSquad, CallFromPage
<1>2. TypeOK /\ VersionNamesSquad /\ CallFromPage /\ [Next]_vars
          => (VersionNamesSquad /\ CallFromPage)'
  BY VersionStep, CallFromPageStep
<1> QED
  BY <1>1, <1>2, TypesAreCorrect, PTL DEF Spec

\* A lock confirmed on a page locks what the page was given, although others
\* save and lock in between and answers get lost.
THEOREM LockedAsGiven == Spec => LocksWhatWasGiven
<1>1. ASSUME TypeOK, VersionNamesSquad, CallFromPage, NEW g \in Pages,
             ServeLock(g), page[g].waiting = "lock", squad' # squad
      PROVE  squad'[Owner[g]] = [page[g].seen EXCEPT !.locked = TRUE, !.version = @ + 1]
  <2> DEFINE p == Owner[g]
  <2>1. p \in Participant
    BY SquadPhaseAssumption
  <2>2. LockSquad(p, call[g].request.version)
    BY <1>1 DEF ServeLock
  <2>3. squad[p].version = page[g].seen.version
    BY <1>1, <2>2 DEF LockSquad, LockAllowed, CallFromPage
  <2>4. page[g].seen = squad[p]
    BY <1>1, <2>3 DEF VersionNamesSquad
  <2>5. squad'[p] = LockedSquad(p)
    BY <1>1, <2>1, <2>2 DEF LockSquad, TypeOK
  <2> QED
    BY <2>4, <2>5 DEF LockedSquad
<1>2. TypeOK /\ VersionNamesSquad /\ CallFromPage /\ [Next]_vars =>
          \A g \in Pages :
              LET p == Owner[g]
              IN  ServeLock(g) /\ page[g].waiting = "lock" /\ squad' # squad =>
                      squad'[p] = [page[g].seen EXCEPT !.locked = TRUE,
                                                       !.version = @ + 1]
  BY <1>1
<1> QED
  BY <1>2, TypesAreCorrect, VersionsNameSquads, PTL DEF Spec, LocksWhatWasGiven

-----------------------------------------------------------------------------
(* The transactions behind the steps of the server.                        *)

\* What an open transaction decided on its snapshot would be decided on the
\* rows of now.
Stands(t) ==
    LET p == transaction[t].by
        r == transaction[t].request
    IN  /\ transaction[t].kind = "save" =>
               /\ SaveAllowed(p, r) /\ ~transaction[t].both
               /\ r.formation \in Formations /\ r.manager \in Managers /\ r.draft \in Drafts
        /\ transaction[t].kind = "lock" =>
               /\ LockAllowed(p, r.version)
               /\ transaction[t].both <=> BothLocked(p)

\* A transaction that may still commit decided what is still so.
DecisionsStand ==
    /\ transaction \in [Transactions -> Transaction]
    /\ \A t \in Transactions : MayCommit(t) => Stands(t)

LEMMA ClosedIsTyped == Closed \in Transaction
  BY BlankTypes DEF Closed, Opened, Transaction, Participant

LEMMA DecisionsStandInit == LocksInit => DecisionsStand
<1>1. LocksInit => transaction \in [Transactions -> Transaction]
  BY ClosedIsTyped DEF LocksInit
<1>2. LocksInit => \A t \in Transactions : ~MayCommit(t)
  BY DEF LocksInit, MayCommit, Closed, Opened
<1> QED
  BY <1>1, <1>2 DEF DecisionsStand

\* The rows a decision is about.
Rows == <<matchStatus, owned, squad>>

LEMMA StandsWithRows ==
    ASSUME NEW t \in Transactions, UNCHANGED Rows,
           transaction'[t] = transaction[t], MayCommit(t) => Stands(t)
    PROVE  MayCommit(t)' => Stands(t)'
BY DEF Rows, MayCommit, Serializable, Stands, SaveAllowed, LockAllowed, BothLocked,
       FormationsOf, ManagersOf

\* Who begins, decides on the rows of now.
LEMMA OpenedStands ==
    ASSUME DecisionsStand, NEW t \in Transactions, NEW p \in Participant,
           NEW kind \in {"save", "lock"}, NEW r \in Request, NEW both \in BOOLEAN,
           transaction' = [transaction EXCEPT ![t] = Opened(kind, p, r, both)],
           UNCHANGED vars,
           kind = "save" =>
               /\ SaveAllowed(p, r) /\ ~both
               /\ r.formation \in Formations /\ r.manager \in Managers /\ r.draft \in Drafts,
           kind = "lock" => LockAllowed(p, r.version) /\ (both <=> BothLocked(p))
    PROVE  DecisionsStand'
<1>1. UNCHANGED Rows
  BY DEF vars, Rows
<1>2. Opened(kind, p, r, both) \in Transaction
  BY DEF Opened, Transaction
<1>3. /\ transaction' \in [Transactions -> Transaction]
      /\ transaction'[t] = Opened(kind, p, r, both)
      /\ \A u \in Transactions \ {t} : transaction'[u] = transaction[u]
  BY <1>2 DEF DecisionsStand
<1>4. Stands(t)'
  BY <1>1, <1>3 DEF Rows, Opened, Stands, SaveAllowed, LockAllowed, BothLocked,
     FormationsOf, ManagersOf
<1>5. ASSUME NEW u \in Transactions, u # t
      PROVE  MayCommit(u)' => Stands(u)'
  BY <1>1, <1>3, <1>5, StandsWithRows DEF DecisionsStand
<1> QED
  BY <1>3, <1>4, <1>5 DEF DecisionsStand

LEMMA BeginStands ==
    ASSUME TypeOK, DecisionsStand, NEW t \in Transactions, NEW p \in Participant,
           BeginSave(t, p) \/ BeginLock(t, p)
    PROVE  DecisionsStand'
<1>v. squad[p].version \in Nat
  BY DEF TypeOK, Squad
<1>1. CASE BeginSave(t, p)
  <2>1. PICK f \in Formations, m \in Managers, d \in Drafts :
           LET r == [version |-> squad[p].version, formation |-> f,
                     manager |-> m, draft |-> d]
           IN  /\ SaveAllowed(p, r)
               /\ transaction' = [transaction EXCEPT ![t] = Opened("save", p, r, FALSE)]
    BY <1>1 DEF BeginSave
  <2> DEFINE r == [version |-> squad[p].version, formation |-> f,
                   manager |-> m, draft |-> d]
  <2>2. /\ r \in Request
        /\ r.formation \in Formations /\ r.manager \in Managers /\ r.draft \in Drafts
    BY <1>v, SquadPhaseAssumption DEF Request
  <2>3. SaveAllowed(p, r)
        /\ transaction' = [transaction EXCEPT ![t] = Opened("save", p, r, FALSE)]
    BY <2>1
  <2>4. UNCHANGED vars
    BY <1>1 DEF BeginSave
  <2> HIDE DEF r
  <2> QED
    BY <2>2, <2>3, <2>4, OpenedStands
<1>2. CASE BeginLock(t, p)
  <2> DEFINE r == [NoRequest EXCEPT !.version = squad[p].version]
  <2>1. /\ LockAllowed(p, r.version)
        /\ transaction' = [transaction EXCEPT ![t] = Opened("lock", p, r, BothLocked(p))]
        /\ UNCHANGED vars
    BY <1>2 DEF BeginLock
  <2>2. r \in Request
    BY <1>v, BlankTypes DEF Request
  <2>3. BothLocked(p) \in BOOLEAN
    BY DEF BothLocked
  <2> HIDE DEF r
  <2> QED
    BY <2>1, <2>2, <2>3, OpenedStands
<1> QED
  BY <1>1, <1>2

\* What a commit leaves to the other transactions: one that may still commit
\* could before, is of the other participant, and does not lock if this did.
LEMMA OthersAfterCommit ==
    ASSUME DecisionsStand, NEW t \in Transactions, MayCommit(t), Ended(t),
           NEW u \in Transactions, MayCommit(u)'
    PROVE  /\ MayCommit(u)
           /\ transaction[u].by # transaction[t].by
           /\ ~(transaction[u].kind = "lock" /\ transaction[t].kind = "lock")
           /\ transaction'[u].by = transaction[u].by
           /\ transaction'[u].kind = transaction[u].kind
           /\ transaction'[u].request = transaction[u].request
           /\ transaction'[u].both = transaction[u].both
<1> DEFINE a == transaction[u]
           b == transaction[t]
<1>1. transaction'[u] = IF u = t THEN Closed ELSE AfterCommit(a, b)
  BY DEF Ended
<1>2. u # t
  BY <1>1 DEF MayCommit, Closed, Opened
<1>3. a \in Transaction /\ b \in Transaction
  BY DEF DecisionsStand
<1>4. a.open
  BY <1>1, <1>2 DEF MayCommit, AfterCommit
<1>5. transaction'[u] = [a EXCEPT !.missed = @ \/ Reads(a, b),
                                  !.read = @ \/ Reads(b, a),
                                  !.changed = @ \/ a.by = b.by \/ (a.both /\ b.both)]
  BY <1>1, <1>2, <1>4 DEF AfterCommit
<1>6. /\ transaction'[u].missed <=> a.missed \/ Reads(a, b)
      /\ transaction'[u].read <=> a.read \/ Reads(b, a)
      /\ transaction'[u].changed <=> a.changed \/ a.by = b.by \/ (a.both /\ b.both)
      /\ transaction'[u].by = a.by /\ transaction'[u].kind = a.kind
      /\ transaction'[u].request = a.request /\ transaction'[u].both = a.both
  BY <1>3, <1>5 DEF Transaction
<1>7. ~a.changed /\ a.by # b.by /\ ~(a.missed /\ a.read)
      /\ ~(Reads(a, b) /\ Reads(b, a))
  BY <1>6 DEF MayCommit, Serializable
<1> QED
  BY <1>4, <1>6, <1>7 DEF MayCommit, Serializable, Reads

\* A commit leaves every transaction typed.
LEMMA EndedIsTyped ==
    ASSUME DecisionsStand, NEW t \in Transactions, Ended(t)
    PROVE  transaction' \in [Transactions -> Transaction]
<1>1. ASSUME NEW u \in Transactions
      PROVE  AfterCommit(transaction[u], transaction[t]) \in Transaction
  <2>1. transaction[u] \in Transaction
    BY DEF DecisionsStand
  <2> QED
    BY <2>1 DEF AfterCommit, Transaction, Reads
<1> QED
  BY <1>1, ClosedIsTyped DEF Ended

\* A save keeps what the others decided: the saved squad is as unlocked as it
\* was, and theirs is another.
LEMMA SaveCommitStands ==
    ASSUME TypeOK, DecisionsStand, NEW t \in Transactions, CommitSave(t)
    PROVE  DecisionsStand'
<1> DEFINE p == transaction[t].by
           r == transaction[t].request
<1>1. /\ MayCommit(t) /\ Ended(t) /\ transaction[t].kind = "save"
      /\ squad' = [squad EXCEPT ![p] = SavedSquad(p, r)]
      /\ UNCHANGED <<matchStatus, owned>>
  BY DEF CommitSave
<1>2. /\ transaction' \in [Transactions -> Transaction]
      /\ p \in Participant
      /\ squad \in [Participant -> Squad]
      /\ ~squad[p].locked
  BY <1>1, EndedIsTyped DEF DecisionsStand, Transaction, Stands, SaveAllowed, TypeOK
<1>3. /\ ~squad'[p].locked
      /\ \A q \in Participant \ {p} : squad'[q] = squad[q]
  BY <1>1, <1>2 DEF SavedSquad
<1>4. \A q : BothLocked(q)' <=> BothLocked(q)
  BY <1>2, <1>3 DEF BothLocked
<1> HIDE DEF p, r
<1>5. ASSUME NEW u \in Transactions, MayCommit(u)' PROVE Stands(u)'
  <2>1. /\ MayCommit(u)
        /\ transaction[u].by # transaction[t].by
        /\ transaction'[u].by = transaction[u].by
        /\ transaction'[u].kind = transaction[u].kind
        /\ transaction'[u].request = transaction[u].request
        /\ transaction'[u].both = transaction[u].both
    BY <1>1, <1>5, OthersAfterCommit
  <2>2. transaction[u].by \in Participant /\ Stands(u)
    BY <2>1 DEF DecisionsStand, Transaction
  <2>3. squad'[transaction[u].by] = squad[transaction[u].by]
    BY <1>3, <2>1, <2>2 DEF p
  <2> QED
    BY <1>1, <1>4, <2>1, <2>2, <2>3
       DEF Stands, SaveAllowed, LockAllowed, FormationsOf, ManagersOf
<1> QED
  BY <1>2, <1>5 DEF DecisionsStand

\* A lock leaves nothing open that locks.  What may still save has an unlocked
\* squad of the other participant, so the match did not become READY.
LEMMA LockCommitStands ==
    ASSUME TypeOK, DecisionsStand, NEW t \in Transactions, CommitLock(t)
    PROVE  DecisionsStand'
<1> DEFINE p == transaction[t].by
<1>1. /\ MayCommit(t) /\ Ended(t) /\ transaction[t].kind = "lock"
      /\ squad' = [squad EXCEPT ![p] = LockedSquad(p)]
      /\ matchStatus' = IF transaction[t].both THEN "READY" ELSE matchStatus
      /\ UNCHANGED owned
  BY DEF CommitLock
<1>2. /\ transaction' \in [Transactions -> Transaction]
      /\ p \in Participant
      /\ squad \in [Participant -> Squad]
      /\ transaction[t].both <=> BothLocked(p)
  BY <1>1, EndedIsTyped DEF DecisionsStand, Transaction, Stands, TypeOK
<1>3. \A q \in Participant \ {p} : squad'[q] = squad[q]
  BY <1>1, <1>2
<1> HIDE DEF p
<1>4. ASSUME NEW u \in Transactions, MayCommit(u)' PROVE Stands(u)'
  <2>1. /\ MayCommit(u)
        /\ transaction[u].by # p
        /\ transaction[u].kind # "lock"
        /\ transaction'[u].by = transaction[u].by
        /\ transaction'[u].kind = transaction[u].kind
        /\ transaction'[u].request = transaction[u].request
        /\ transaction'[u].both = transaction[u].both
    BY <1>1, <1>4, OthersAfterCommit DEF p
  <2>2. /\ transaction[u].by \in Participant \ {p} /\ Stands(u)
        /\ transaction[u].kind = "save"
    BY <2>1 DEF DecisionsStand, Transaction
  <2>3. ~squad[transaction[u].by].locked
    BY <2>2 DEF Stands, SaveAllowed
  <2>4. matchStatus' = matchStatus
    BY <1>1, <1>2, <2>2, <2>3 DEF BothLocked
  <2>5. squad'[transaction[u].by] = squad[transaction[u].by]
    BY <1>3, <2>2
  <2> QED
    BY <1>1, <2>1, <2>2, <2>4, <2>5 DEF Stands, SaveAllowed, FormationsOf, ManagersOf
<1> QED
  BY <1>2, <1>4 DEF DecisionsStand

\* So no transaction that may commit is mistaken about the rows.
LEMMA DecisionsStandStep ==
    ASSUME TypeOK, DecisionsStand, [LocksNext]_locks
    PROVE  DecisionsStand'
<1>1. CASE UNCHANGED locks
  <2>1. UNCHANGED Rows /\ UNCHANGED transaction
    BY <1>1 DEF locks, vars, Rows
  <2> QED
    BY <2>1, StandsWithRows DEF DecisionsStand
<1>2. CASE StartSquadBuilding /\ UNCHANGED transaction
  <2>1. \A t \in Transactions : ~MayCommit(t)
    BY <1>2 DEF StartSquadBuilding, DecisionsStand, Transaction, Stands,
                SaveAllowed, LockAllowed
  <2> QED
    BY <1>2, <2>1 DEF DecisionsStand, MayCommit, Serializable
<1>3. ASSUME NEW t \in Transactions, Abort(t) PROVE DecisionsStand'
  <2>1. /\ UNCHANGED Rows
        /\ transaction' = [transaction EXCEPT ![t] = Closed]
    BY <1>3 DEF Abort, vars, Rows
  <2>2. /\ transaction' \in [Transactions -> Transaction]
        /\ transaction'[t] = Closed
        /\ \A u \in Transactions \ {t} : transaction'[u] = transaction[u]
    BY <2>1, ClosedIsTyped DEF DecisionsStand
  <2>3. ~MayCommit(t)'
    BY <2>2 DEF MayCommit, Closed, Opened
  <2>4. ASSUME NEW u \in Transactions, u # t PROVE MayCommit(u)' => Stands(u)'
    BY <2>1, <2>2, <2>4, StandsWithRows DEF DecisionsStand
  <2> QED
    BY <2>2, <2>3, <2>4 DEF DecisionsStand
<1> QED
  BY <1>1, <1>2, <1>3, BeginStands, SaveCommitStands, LockCommitStands DEF LocksNext

\* A commit is the one step that SquadPhase takes the transaction for.
LEMMA SaveCommitRuns ==
    ASSUME TypeOK, DecisionsStand, NEW t \in Transactions, CommitSave(t)
    PROVE  OtherSave(transaction[t].by)
<1> DEFINE p == transaction[t].by
           r == transaction[t].request
<1>1. /\ squad[Host].version + squad[Guest].version < MaxVersions
      /\ squad' = [squad EXCEPT ![p] = SavedSquad(p, r)]
      /\ UNCHANGED <<matchStatus, owned, ready, page, call>>
  BY DEF CommitSave
<1>2. /\ r \in Request /\ SaveAllowed(p, r)
      /\ r.formation \in Formations /\ r.manager \in Managers /\ r.draft \in Drafts
  BY DEF CommitSave, DecisionsStand, Transaction, Stands
<1>3. r = [version |-> squad[p].version, formation |-> r.formation,
           manager |-> r.manager, draft |-> r.draft]
  BY <1>2 DEF Request, SaveAllowed
<1> HIDE DEF p, r
<1>4. SaveSquad(p, r)
  BY <1>1, <1>2 DEF SaveSquad
<1>5. OtherSave(p)
  BY <1>1, <1>2, <1>3, <1>4 DEF OtherSave
<1> QED
  BY <1>5 DEF p

LEMMA LockCommitRuns ==
    ASSUME TypeOK, DecisionsStand, NEW t \in Transactions, CommitLock(t)
    PROVE  OtherLock(transaction[t].by)
<1> DEFINE p == transaction[t].by
           lockedNow == {q \in Participant : squad'[q].locked}
<1>1. /\ squad' = [squad EXCEPT ![p] = LockedSquad(p)]
      /\ ready' = ready \cup {p}
      /\ matchStatus' = IF transaction[t].both THEN "READY" ELSE matchStatus
      /\ UNCHANGED <<owned, page, call>>
  BY DEF CommitLock
<1>2. /\ p \in Participant
      /\ LockAllowed(p, squad[p].version)
      /\ transaction[t].both <=> BothLocked(p)
      /\ squad \in [Participant -> Squad]
  BY DEF CommitLock, DecisionsStand, Transaction, Stands, LockAllowed, TypeOK
<1> HIDE DEF p
<1>3. /\ squad'[p].locked
      /\ \A q \in Participant \ {p} : squad'[q] = squad[q]
  BY <1>1, <1>2, LockedContent
<1>4. Cardinality(lockedNow) = 2 <=> lockedNow = Participant
  BY BothParticipants
<1>5. lockedNow = Participant <=> BothLocked(p)
  BY <1>2, <1>3 DEF BothLocked
<1>6. LockSquad(p, squad[p].version)
  BY <1>1, <1>2, <1>4, <1>5 DEF LockSquad
<1>7. OtherLock(p)
  BY <1>1, <1>6 DEF OtherLock
<1> QED
  BY <1>7 DEF p

LEMMA LocksStepRuns ==
    ASSUME TypeOK, DecisionsStand, [LocksNext]_locks
    PROVE  [Next]_vars
<1>1. ASSUME NEW t \in Transactions, CommitSave(t) \/ CommitLock(t) PROVE Next
  <2>1. transaction[t].by \in Participant
    BY DEF DecisionsStand, Transaction
  <2> QED
    BY <1>1, <2>1, SaveCommitRuns, LockCommitRuns DEF Next
<1>2. ASSUME NEW t \in Transactions, NEW p \in Participant,
             BeginSave(t, p) \/ BeginLock(t, p) \/ Abort(t)
      PROVE  UNCHANGED vars
  BY <1>2 DEF BeginSave, BeginLock, Abort
<1>3. CASE UNCHANGED locks
  BY <1>3 DEF locks
<1>4. CASE StartSquadBuilding
  BY <1>4 DEF Next
<1>5. Participant # {}
  BY DEF Participant
<1> QED
  BY <1>1, <1>2, <1>3, <1>4, <1>5 DEF LocksNext

LEMMA LocksInvariant == LocksSpec => [](TypeOK /\ DecisionsStand)
<1>1. LocksInit => TypeOK /\ DecisionsStand
  <2>1. LocksInit => Init
    BY DEF LocksInit
  <2>2. Init => TypeOK
    BY BlankTypes DEF Init, TypeOK
  <2> QED
    BY <2>1, <2>2, DecisionsStandInit
<1>2. TypeOK /\ DecisionsStand /\ [LocksNext]_locks => (TypeOK /\ DecisionsStand)'
  <2>1. TypeOK /\ [Next]_vars => TypeOK'
    BY ServerTypes, PageTypes, CallTypes DEF TypeOK
  <2> QED
    BY <2>1, LocksStepRuns, DecisionsStandStep
<1> QED
  BY <1>1, <1>2, PTL DEF LocksSpec

\* However many saves and locks overlap as transactions, each that commits does
\* to the rows what it would do alone.
THEOREM TransactionsCommitAsIfAlone == LocksSpec => CommitsAsIfAlone
<1>1. TypeOK /\ DecisionsStand =>
          \A t \in Transactions :
              LET p == transaction[t].by
              IN  /\ CommitSave(t) => OtherSave(p)
                  /\ CommitLock(t) => OtherLock(p)
  BY SaveCommitRuns, LockCommitRuns
<1> QED
  BY <1>1, LocksInvariant, PTL DEF CommitsAsIfAlone

\* So whatever transactions do is a behaviour of the squad phase, of which all
\* that is shown above holds.
THEOREM TransactionsRunSquadPhase == LocksSpec => RunsSquadPhase
<1>1. LocksInit => Init
  BY DEF LocksInit
<1>2. TypeOK /\ DecisionsStand /\ [LocksNext]_locks => [Next]_vars
  BY LocksStepRuns
<1> QED
  BY <1>1, <1>2, LocksInvariant, PTL DEF LocksSpec, RunsSquadPhase, Spec

\* So two locks at once do not both count one squad and leave the match
\* waiting, and none makes it READY early.
THEOREM ReadyUnderTransactions == LocksSpec => []ReadyWhenBothLocked
BY TransactionsRunSquadPhase, ReadyExactlyWhenLocked, PTL DEF RunsSquadPhase

=============================================================================
