----------------------------- MODULE SquadPhase -----------------------------
(***************************************************************************)
(* The squad phase of one match: the server's squads                       *)
(* (apps/api/src/squads/squads.service.ts), saved and locked under an      *)
(* optimistic version, and the pages of the squad builder                  *)
(* (apps/web/src/components/squads/squad-builder-view.tsx) that edit a     *)
(* local draft, send it and take the answer when it comes, or never get it.*)
(*                                                                         *)
(* saveSquad and lockSquad are one step each here.  SquadLocks takes them  *)
(* for the transactions they are, and shows that they run this module.     *)
(* What the participants own no longer changes: AuctionRoom shows it for   *)
(* the phase (SquadPhaseIsFrozen), so the inventory is chosen at the start.*)
(* An edit gives the draft any of the values in Drafts; SquadDraft shows   *)
(* what the view's edits can produce.                                      *)
(***************************************************************************)
EXTENDS SquadRules

CONSTANTS
    Host, Guest,
    Managers,
    NeutralFormations, NeutralManagers, \* active, FREE and neutral
    Inventories,    \* what the participants may own when the phase starts
    Drafts,         \* the assignments clients may send
    Pages,          \* open pages of the squad builder
    Owner,          \* of a page: the participant whose page it is
    MaxVersions     \* bound: no save once the versions add up to it

Participant == {Host, Guest}
None == "none"

Inventory == [players : SUBSET Players, formations : SUBSET Formations,
              managers : SUBSET Managers]

ASSUME SquadPhaseAssumption ==
    /\ Host # Guest
    /\ None \notin Formations \cup Managers
    /\ NeutralFormations \subseteq Formations
    /\ NeutralManagers \subseteq Managers
    /\ Inventories \subseteq [Participant -> Inventory]
    /\ \A owned \in Inventories : owned[Host].players \cap owned[Guest].players = {}
    /\ Drafts \subseteq SUBSET Assignment
    /\ Owner \in [Pages -> Participant]
    /\ MaxVersions \in Nat

VARIABLES
    matchStatus,    \* Match.status
    owned,          \* the ownership tables
    squad,          \* Squad and SquadPlayer rows of each participant
    ready,          \* participants whose MatchParticipant.status is READY
    page,           \* the state of each page
    call            \* the request each page has under way, or its answer

vars == <<matchStatus, owned, squad, ready, page, call>>

-----------------------------------------------------------------------------
Row == [assignment : Assignment, position : Position]
Squad == [version : Nat, formation : Formations \cup {None},
          manager : Managers \cup {None}, rows : SUBSET Row, locked : BOOLEAN]

\* No row yet: a first save must name version 0.
NoSquad == [version |-> 0, formation |-> None, manager |-> None, rows |-> {},
            locked |-> FALSE]

\* A page: the response it holds (canEdit, squad), what it shows, the dirty
\* flag, and whether it is saving or locking.
Page == [editable : BOOLEAN, seen : Squad, formation : Formations \cup {None},
         manager : Managers \cup {None}, draft : SUBSET Assignment,
         dirty : BOOLEAN, waiting : {"no", "save", "lock"}]
BlankPage == [editable |-> FALSE, seen |-> NoSquad, formation |-> None,
              manager |-> None, draft |-> {}, dirty |-> FALSE, waiting |-> "no"]

Request == [version : Nat, formation : Formations \cup {None},
            manager : Managers \cup {None}, draft : SUBSET Assignment]
Call == [stage : {"none", "saving", "locking"}, request : Request, answer : {NoSquad}]
        \cup [stage : {"done", "refused"}, request : Request, answer : Squad]
NoRequest == [version |-> 0, formation |-> None, manager |-> None, draft |-> {}]
NoCall == [stage |-> "none", request |-> NoRequest, answer |-> NoSquad]

FormationsOf(p) == NeutralFormations \cup owned[p].formations
ManagersOf(p) == NeutralManagers \cup owned[p].managers

-----------------------------------------------------------------------------
(* The server.                                                             *)

\* Mutant: a locked squad may be saved over.
SaveAllowedWhenLocked(p, r) ==
    /\ ValidBasics(r.draft)
    /\ matchStatus = "SQUAD_BUILDING"
    /\ squad[p].version = r.version
    /\ r.formation \in FormationsOf(p)
    /\ r.manager \in ManagersOf(p)
    /\ ValidShape(r.formation)
    /\ PlayersOf(r.draft) \subseteq owned[p].players
    /\ KeepersFit(r.formation, r.draft)

\* saveSquad does not throw.
SaveAllowed(p, r) ==
    /\ ValidBasics(r.draft)
    /\ matchStatus = "SQUAD_BUILDING"
    /\ ~squad[p].locked
    /\ squad[p].version = r.version
    /\ r.formation \in FormationsOf(p)
    /\ r.manager \in ManagersOf(p)
    /\ ValidShape(r.formation)
    /\ PlayersOf(r.draft) \subseteq owned[p].players
    /\ KeepersFit(r.formation, r.draft)

\* Mutant: only the first save gives a version.
SavedSquadSameVersion(p, r) ==
    [version |-> 1, formation |-> r.formation, manager |-> r.manager,
     rows |-> Placed(r.formation, r.draft), locked |-> FALSE]

SavedSquad(p, r) ==
    [version |-> squad[p].version + 1, formation |-> r.formation,
     manager |-> r.manager, rows |-> Placed(r.formation, r.draft),
     locked |-> FALSE]

SaveSquad(p, r) ==
    /\ squad[Host].version + squad[Guest].version < MaxVersions
    /\ SaveAllowed(p, r)
    /\ squad' = [squad EXCEPT ![p] = SavedSquad(p, r)]
    /\ UNCHANGED <<matchStatus, owned, ready>>

\* Mutant: the version is not looked at.
LockAllowedAnyVersion(p, version) ==
    /\ squad[p] # NoSquad
    /\ matchStatus = "SQUAD_BUILDING"
    /\ ~squad[p].locked
    /\ Lockable(squad[p].rows)

\* lockSquad locks the squad: it neither throws nor replays.
LockAllowed(p, version) ==
    /\ squad[p] # NoSquad
    /\ matchStatus = "SQUAD_BUILDING"
    /\ ~squad[p].locked
    /\ squad[p].version = version
    /\ Lockable(squad[p].rows)

LockedSquad(p) == [squad[p] EXCEPT !.locked = TRUE, !.version = @ + 1]

\* Mutant: the locked squads are counted before this one is.
LockSquadCountingFirst(p, version) ==
    /\ LockAllowed(p, version)
    /\ squad' = [squad EXCEPT ![p] = LockedSquad(p)]
    /\ ready' = ready \cup {p}
    /\ matchStatus' = IF Cardinality({q \in Participant : squad[q].locked}) = 2
                        THEN "READY" ELSE matchStatus
    /\ UNCHANGED owned

LockSquad(p, version) ==
    /\ LockAllowed(p, version)
    /\ squad' = [squad EXCEPT ![p] = LockedSquad(p)]
    /\ ready' = ready \cup {p}
    /\ matchStatus' = IF Cardinality({q \in Participant : squad'[q].locked}) = 2
                        THEN "READY" ELSE matchStatus
    /\ UNCHANGED owned

\* startSquadBuilding; that no auction is open is AuctionRoom's matter.
StartSquadBuilding ==
    /\ matchStatus = "AUCTION"
    /\ \A p \in Participant : Cardinality(owned[p].players) >= XI
    /\ matchStatus' = "SQUAD_BUILDING"
    /\ UNCHANGED <<owned, squad, ready, page, call>>

-----------------------------------------------------------------------------
(* Requests of clients that keep no page open.  Of the versions they could *)
(* name only the stored one is not refused.                                *)

OtherSave(p) ==
    /\ \E f \in Formations, m \in Managers, d \in Drafts :
           SaveSquad(p, [version |-> squad[p].version, formation |-> f,
                         manager |-> m, draft |-> d])
    /\ UNCHANGED <<page, call>>

OtherLock(p) ==
    /\ LockSquad(p, squad[p].version)
    /\ UNCHANGED <<page, call>>

-----------------------------------------------------------------------------
(* The requests of a page, on the server.                                  *)

Answer(g, stage, answer) ==
    call' = [call EXCEPT ![g] =
        [stage |-> stage, request |-> call[g].request, answer |-> answer]]

ServeSave(g) ==
    LET p == Owner[g]
        r == call[g].request
    IN  /\ call[g].stage = "saving"
        /\ \/ /\ SaveSquad(p, r)
              /\ Answer(g, "done", squad'[p])
           \/ /\ ~SaveAllowed(p, r)
              /\ Answer(g, "refused", NoSquad)
              /\ UNCHANGED <<matchStatus, owned, squad, ready>>
        /\ UNCHANGED page

\* A squad that is locked already is answered as it is.
ServeLock(g) ==
    LET p == Owner[g]
        version == call[g].request.version
        replayed == squad[p].locked /\ matchStatus \in {"SQUAD_BUILDING", "READY"}
    IN  /\ call[g].stage = "locking"
        /\ \/ /\ LockSquad(p, version)
              /\ Answer(g, "done", squad'[p])
           \/ /\ ~LockAllowed(p, version)
              /\ IF replayed THEN Answer(g, "done", squad[p])
                             ELSE Answer(g, "refused", NoSquad)
              /\ UNCHANGED <<matchStatus, owned, squad, ready>>
        /\ UNCHANGED page

-----------------------------------------------------------------------------
(* The page.                                                               *)

OwnedElseNeutral(own, neutral) ==
    IF own \cup neutral = {}
      THEN None
      ELSE CHOOSE x \in own \cup neutral : own # {} => x \in own

\* getSquad and applySnapshot: opening the page, Refresh, or the browser's
\* reload, which forgets a request under way but does not stop it.
Load(g) ==
    LET s == squad[Owner[g]]
        p == Owner[g]
    IN  /\ page' = [page EXCEPT ![g] =
               [editable |-> matchStatus = "SQUAD_BUILDING" /\ ~s.locked,
                seen |-> s,
                formation |-> IF s # NoSquad THEN s.formation
                    ELSE OwnedElseNeutral(owned[p].formations, NeutralFormations),
                manager |-> IF s # NoSquad THEN s.manager
                    ELSE OwnedElseNeutral(owned[p].managers, NeutralManagers),
                draft |-> AssignmentsOf(s.rows),
                dirty |-> FALSE,
                waiting |-> "no"]]
        /\ UNCHANGED <<matchStatus, owned, squad, ready, call>>

CanEdit(g) == page[g].editable /\ ~page[g].seen.locked

\* Nothing on the page is disabled while a request is under way.  None is
\* the first entry of both lists.
Edit(g) ==
    /\ CanEdit(g)
    /\ \/ \E f \in FormationsOf(Owner[g]) \cup {None} :
              page' = [page EXCEPT ![g].formation = f, ![g].dirty = TRUE]
       \/ \E m \in ManagersOf(Owner[g]) \cup {None} :
              page' = [page EXCEPT ![g].manager = m, ![g].dirty = TRUE]
       \/ \E d \in Drafts :
              /\ ValidBasics(d)
              /\ PlayersOf(d) \subseteq owned[Owner[g]].players
              /\ page' = [page EXCEPT ![g].draft = d, ![g].dirty = TRUE]
    /\ UNCHANGED <<matchStatus, owned, squad, ready, call>>

Ask(g, kind, stage) ==
    /\ call[g] = NoCall
    /\ call' = [call EXCEPT ![g] =
           [stage |-> stage, answer |-> NoSquad,
            request |-> [version |-> page[g].seen.version,
                         formation |-> page[g].formation,
                         manager |-> page[g].manager,
                         draft |-> page[g].draft]]]
    /\ page' = [page EXCEPT ![g].waiting = kind]
    /\ UNCHANGED <<matchStatus, owned, squad, ready>>

SaveDraft(g) ==
    /\ CanEdit(g)
    /\ page[g].dirty
    /\ page[g].formation # None
    /\ page[g].manager # None
    /\ page[g].waiting = "no"
    /\ Ask(g, "save", "saving")

CanLock(g) ==
    LET starters == Starters(page[g].draft)
    IN  /\ CanEdit(g)
        /\ page[g].seen # NoSquad
        /\ ~page[g].dirty
        /\ Cardinality(starters) = XI
        /\ \A s \in StarterSlots : \E a \in starters : a.slot = s
        /\ Cardinality(Captains(starters)) = 1
        /\ page[g].waiting = "no"

ConfirmLock(g) == CanLock(g) /\ Ask(g, "lock", "locking")

\* saveDraft goes on: the assignments are replaced by the saved ones, the
\* formation and the manager shown are left as they are.
ReceiveSaved(g) ==
    /\ page[g].waiting = "save"
    /\ call[g].stage = "done"
    /\ page' = [page EXCEPT ![g].seen = call[g].answer,
                            ![g].draft = AssignmentsOf(call[g].answer.rows),
                            ![g].dirty = FALSE,
                            ![g].waiting = "no"]
    /\ call' = [call EXCEPT ![g] = NoCall]
    /\ UNCHANGED <<matchStatus, owned, squad, ready>>

ReceiveLocked(g) ==
    /\ page[g].waiting = "lock"
    /\ call[g].stage = "done"
    /\ page' = [page EXCEPT ![g].editable = FALSE,
                            ![g].seen = call[g].answer,
                            ![g].draft = AssignmentsOf(call[g].answer.rows),
                            ![g].dirty = FALSE,
                            ![g].waiting = "no"]
    /\ call' = [call EXCEPT ![g] = NoCall]
    /\ UNCHANGED <<matchStatus, owned, squad, ready>>

\* The request is refused, or the connection breaks before its answer came:
\* before the server saw it, or after, and then it is still served.
ReceiveFailure(g) ==
    /\ page[g].waiting # "no"
    /\ page' = [page EXCEPT ![g].waiting = "no"]
    /\ IF call[g].stage \in {"done", "refused"}
         THEN call' = [call EXCEPT ![g] = NoCall]
         ELSE UNCHANGED call
    /\ UNCHANGED <<matchStatus, owned, squad, ready>>

\* A request that never reaches the server, or an answer to nobody.
Vanish(g) ==
    /\ page[g].waiting = "no"
    /\ call[g] # NoCall
    /\ call' = [call EXCEPT ![g] = NoCall]
    /\ UNCHANGED <<matchStatus, owned, squad, ready, page>>

-----------------------------------------------------------------------------
Init ==
    /\ matchStatus = "AUCTION"
    /\ owned \in Inventories
    /\ squad = [p \in Participant |-> NoSquad]
    /\ ready = {}
    /\ page = [g \in Pages |-> BlankPage]
    /\ call = [g \in Pages |-> NoCall]

Next ==
    \/ StartSquadBuilding
    \/ \E p \in Participant : OtherSave(p) \/ OtherLock(p)
    \/ \E g \in Pages :
           \/ ServeSave(g) \/ ServeLock(g)
           \/ Load(g) \/ Edit(g)
           \/ SaveDraft(g) \/ ConfirmLock(g)
           \/ ReceiveSaved(g) \/ ReceiveLocked(g) \/ ReceiveFailure(g)
           \/ Vanish(g)

Spec == Init /\ [][Next]_vars

-----------------------------------------------------------------------------
TypeOK ==
    /\ matchStatus \in {"AUCTION", "SQUAD_BUILDING", "READY"}
    /\ owned \in Inventories
    /\ squad \in [Participant -> Squad]
    /\ ready \subseteq Participant
    /\ page \in [Pages -> Page]
    /\ call \in [Pages -> Call]

\* A locked squad is a legal side: each starter slot filled by one owned
\* player at the position its formation gives the slot, one keeper who can
\* keep, one captain who starts, and no player in two places.
LegalSide(p) ==
    LET side == AssignmentsOf(squad[p].rows)
        starters == Starters(side)
    IN  /\ ValidBasics(side)
        /\ PlayersOf(side) \subseteq owned[p].players
        /\ squad[p].formation \in FormationsOf(p)
        /\ squad[p].manager \in ManagersOf(p)
        /\ squad[p].rows = Placed(squad[p].formation, side)
        /\ {a.slot : a \in starters} = StarterSlots
        /\ \E c \in starters : Captains(side) = {c}
        /\ \E k \in starters :
               /\ CanKeep(k.player)
               /\ \A s \in StarterSlots :
                      KeeperSlot(squad[p].formation, s) <=> s = k.slot

\* Locked squads are legal, although locking only looks at rows that an
\* earlier request stored under a formation checked then.
LockedSquadIsLegal ==
    \A p \in Participant : squad[p].locked => LegalSide(p)

\* The match is READY exactly when both squads are locked, and a participant
\* is READY exactly when its own is.
ReadyWhenBothLocked ==
    /\ matchStatus = "READY" <=> \A p \in Participant : squad[p].locked
    /\ \A p \in Participant : p \in ready <=> squad[p].locked

\* A version stands for one content: a page or an answer that has the stored
\* version has the stored squad.  So no accepted save overwrites a squad its
\* author has not seen.
VersionNamesSquad ==
    \A g \in Pages :
        LET stored == squad[Owner[g]]
        IN  /\ page[g].seen.version <= stored.version
            /\ page[g].seen.version = stored.version => page[g].seen = stored
            /\ call[g].stage = "done" =>
                   /\ call[g].answer.version <= stored.version
                   /\ call[g].answer.version = stored.version =>
                          call[g].answer = stored

\* A lock confirmed on a page locks the squad that page was given, and
\* nothing in it changes by locking.
LocksWhatWasGiven ==
    [][\A g \in Pages :
          LET p == Owner[g]
          IN  ServeLock(g) /\ page[g].waiting = "lock" /\ squad' # squad =>
                  squad'[p] = [page[g].seen EXCEPT !.locked = TRUE,
                                                   !.version = @ + 1]]_vars

\* Locking is final, for the squad and for the match.
LockingIsFinal ==
    [][/\ \A p \in Participant : squad[p].locked => squad'[p] = squad[p]
       /\ matchStatus = "READY" => UNCHANGED <<matchStatus, squad, ready>>]_vars

\* "You have unsaved squad changes." (squad-builder-view.tsx): what an idle
\* page shows without that warning is what it saved.
UnsavedChangesAreFlagged ==
    \A g \in Pages :
        LET shown == page[g]
        IN  CanEdit(g) /\ shown.seen # NoSquad /\ ~shown.dirty =>
                /\ shown.formation = shown.seen.formation
                /\ shown.manager = shown.seen.manager
                /\ shown.draft = AssignmentsOf(shown.seen.rows)

=============================================================================
