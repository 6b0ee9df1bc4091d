---------------------------- MODULE WorkflowStore ----------------------------
(***************************************************************************)
(* One source item in the WorkflowEventStore of                            *)
(* factoryline/agentic_control.py: the issue or pull request a provider    *)
(* reports, and the run an owner has claimed on it.  Every operation opens *)
(* BEGIN IMMEDIATE before it reads, so what one transaction does is one    *)
(* step.  An operation that is refused rolls back and is no step.          *)
(*                                                                         *)
(* A run is identified by its epoch (run.id is a digest of the key and the *)
(* epoch), a source by its revision and content.  The lease of a run only  *)
(* decides whether a heartbeat is refused, and the wall clock may refuse   *)
(* any: expires_at is not kept.  Operations that compare an item with an   *)
(* older copy compare expires_at too, and refuse at least what is refused  *)
(* here.                                                                   *)
(***************************************************************************)
EXTENDS Integers, Sequences, FiniteSets

CONSTANTS
  Owners,          \* names that claim runs
  Events,          \* ids of adapter events
  Sources,         \* what the provider may report of the item
  WorkPhases,      \* triage, planning, building, auditing, reviewing, in order
  IncidentPhases,  \* INCIDENT_PHASES, in order
  Policies,        \* driver, policy and action digest of an action intent
  MaxAttempts,     \* claims without progress: 3
  None             \* NULL

SourceStates == {"open", "closed", "merged", "missing"}
PhaseOf == [open |-> "intake", closed |-> "closed_external",
            merged |-> "merged_external", missing |-> "source_missing"]
Work == {WorkPhases[i] : i \in DOMAIN WorkPhases}
Phases == Work \cup {"intake", "closed_external", "merged_external",
                     "source_missing", "retirement_required", "ready_for_merge"}

\* An action intent: what _incident_driver_binding binds.
Bindings == [phase : {IncidentPhases[i] : i \in DOMAIN IncidentPhases},
             source : Sources, policy : Policies]
\* A live handle names the action, or the run outside any incident.
Handles == [action : Bindings \cup {None}, run : Nat]
Runs == [epoch : Nat, source : Sources, owner : Owners, handle : Handles \cup {None},
         invalidated : BOOLEAN, binding : Bindings \cup {None},
         ended : {"no", "terminal", "missing"}]
\* What others may know of a run: see FencedOwnership.
Holders == [owner : Owners, epoch : Nat, handle : Handles \cup {None}, fenced : BOOLEAN]
Evidence == [phase : Work, source : Sources, run : Nat]
Checkpoints == [binding : Bindings, phase : STRING, source : Sources, run : Nat]
Items == [source : Sources, epoch : Nat, phase : Phases, run : Runs \cup {None},
          last : Runs \cup {None}, attempts : Nat,
          evidence : Evidence \cup {None}, checkpoints : Seq(Checkpoints)]

ASSUME SourceAssumption == Sources \subseteq [rev : Nat, state : SourceStates]
ASSUME PhaseAssumption ==
  /\ WorkPhases \in Seq(STRING) /\ IncidentPhases \in Seq(STRING)
  /\ WorkPhases # <<>>
  /\ \A i, j \in DOMAIN WorkPhases : WorkPhases[i] = WorkPhases[j] => i = j
  /\ \A i, j \in DOMAIN IncidentPhases : IncidentPhases[i] = IncidentPhases[j] => i = j
  /\ Work \cap {"intake", "closed_external", "merged_external",
                "source_missing", "retirement_required", "ready_for_merge"} = {}
ASSUME AttemptAssumption == MaxAttempts \in Nat
ASSUME NoneAssumption ==
  None \notin Owners \cup Sources \cup Bindings \cup Handles \cup Runs \cup Holders
               \cup Evidence \cup Items

VARIABLES
  item,      \* the row of items
  ingress    \* the rows of ingress: event ids and the sources they carried

storeVars == <<item, ingress>>

-----------------------------------------------------------------------------
\* The event id under which advance records a source it observed itself.
Observed(src) == <<"observed", src>>

Fresh(src, epoch, phase, run) ==
  [source |-> src, epoch |-> epoch, phase |-> phase, run |-> run, last |-> None,
   attempts |-> 0, evidence |-> None, checkpoints |-> <<>>]
NewItem(src) == Fresh(src, 1, PhaseOf[src.state], None)

Invalidated == [item.run EXCEPT !.invalidated = TRUE]

\* Mutation: a source event leaves the claimed run in force.
Overwritten(src) == Fresh(src, item.epoch + 1, PhaseOf[src.state], item.run)

\* Mutation: an item nobody works on keeps its phase.
KeptInPhase(src) ==
  IF item.run = None THEN Fresh(src, item.epoch + 1, item.phase, None)
  ELSE Fresh(src, item.epoch + 1, "retirement_required", Invalidated)

\* The item under a newer revision: the run is fenced, its evidence is gone.
Superseded(src) ==
  IF item.run = None THEN Fresh(src, item.epoch + 1, PhaseOf[src.state], None)
  ELSE Fresh(src, item.epoch + 1, "retirement_required", Invalidated)

\* Mutation: a revision that is not the present one is taken.
DiffersFrom(src) == src.rev # item.source.rev

Newer(src) == src.rev > item.source.rev

\* _apply_source: one revision with two contents is refused.
ApplySource(src) ==
  item' = IF item = None THEN NewItem(src)
          ELSE IF Newer(src) THEN Superseded(src) ELSE item

Conflicts(src) ==
  item # None /\ src.rev = item.source.rev /\ src # item.source

\* An event id that is known is a duplicate, or refused: no change.
Intake(e, src) ==
  /\ \A x \in ingress : x[1] # e
  /\ ~Conflicts(src)
  /\ ApplySource(src)
  /\ ingress' = ingress \cup {<<e, src>>}

-----------------------------------------------------------------------------
\* Mutation: a run whose lease is over can be claimed anew.
ClaimableOverRun == item # None /\ item.phase \in Work \cup {"intake"}
                      /\ item.attempts < MaxAttempts

\* _validate_claim_item: whatever its lease, a run that is there stops a claim.
Claimable == item # None /\ item.run = None /\ item.phase \in Work \cup {"intake"}
               /\ item.attempts < MaxAttempts

NewRun(o, b) ==
  [epoch |-> item.epoch + 1, source |-> item.source, owner |-> o,
   handle |-> None, invalidated |-> FALSE, binding |-> b, ended |-> "no"]

Claim(o, b) ==
  /\ Claimable
  /\ item' = [item EXCEPT
                !.epoch = @ + 1, !.attempts = @ + 1, !.run = NewRun(o, b),
                !.phase = IF @ = "intake" THEN WorkPhases[1] ELSE @]
  /\ UNCHANGED ingress

\* Mutation: the owner's name is enough.
OwnedByName(o, epoch) == item.run # None /\ item.run.owner = o

Owned(o, epoch) ==
  /\ item.run # None /\ item.run.owner = o
  /\ item.run.epoch = epoch /\ item.epoch = epoch
  /\ ~item.run.invalidated

Heartbeat(o, epoch, h) ==
  /\ item # None /\ Owned(o, epoch)
  /\ item.run.handle \in {None, h}
  /\ item' = [item EXCEPT !.run.handle = h]
  /\ UNCHANGED ingress

\* What _reconcile_observation makes of an item whose run was observed.
Kept(h) == [item EXCEPT !.run.handle = IF @ = None THEN h ELSE @]

Retired(state, h) ==
  [item EXCEPT
     !.last = [item.run EXCEPT !.handle = IF @ = None THEN h ELSE @,
                               !.ended = state],
     !.run = None, !.epoch = @ + 1,
     !.phase = IF @ = "retirement_required" THEN PhaseOf[item.source.state] ELSE @]

\* Observations that end a run.
Ends(state) == state \in {"terminal", "missing"}

Reconcile(state, h) ==
  /\ item' = IF Ends(state) THEN Retired(state, h) ELSE Kept(h)
  /\ UNCHANGED ingress

-----------------------------------------------------------------------------
\* _workflow_phase_evidence: evidence is taken on the last run of the source.
AdmitsEvidence(it) ==
  /\ it.phase \in Work
  /\ it.run = None /\ it.last # None
  /\ it.last.ended = "terminal" /\ it.last.handle # None
  /\ it.last.source = it.source /\ ~it.last.invalidated

After(phase) ==
  LET i == CHOOSE j \in DOMAIN WorkPhases : WorkPhases[j] = phase
  IN IF i = Len(WorkPhases) THEN "ready_for_merge" ELSE WorkPhases[i + 1]

\* Mutation: the run stays at hand for the next phase.
AdvancedItem ==
  [item EXCEPT !.phase = After(@), !.attempts = 0,
     !.evidence = [phase |-> item.phase, source |-> item.last.source,
                   run |-> item.last.epoch]]

\* The item after advance.
Advanced ==
  [item EXCEPT !.phase = After(@), !.attempts = 0, !.last = None,
     !.evidence = [phase |-> item.phase, source |-> item.last.source,
                   run |-> item.last.epoch]]
=============================================================================
