--------------------------- MODULE IncidentDriver ---------------------------
(***************************************************************************)
(* The callers of a workflow item: DurableIncidentDriver of factoryline/   *)
(* agentic_control.py (launch_phase and checkpoint), the two operations of *)
(* the store that leave its lock to ask somebody (reconcile_run, advance), *)
(* owners that claim a run without a driver, and the registered driver     *)
(* that performs the actions.  Any number of workers call at once, under   *)
(* any owner's name; a worker may fail a check, be refused or die between  *)
(* any two steps, which leaves the item as it is.                          *)
(*                                                                         *)
(* The driver is the one docs/research-integration.md asks for: lookup is  *)
(* authoritative or unknown, launch is idempotent per action intent.  An   *)
(* unknown answer, a denied authorization and a verifier that does not     *)
(* confirm end the call.                                                   *)
(***************************************************************************)
EXTENDS WorkflowStore

CONSTANT Workers

VARIABLES
  action,    \* per action intent: was it never started, is it live, has it ended?
  worker     \* the workers: how far a call got, and what it has read

vars == <<item, ingress, action, worker>>

Idle == [pc |-> "idle", owner |-> None, snap |-> None, binding |-> None,
         state |-> "none", handle |-> None]

Becomes(w, new) == worker' = [worker EXCEPT ![w] = new]
At(w, pc) == worker[w].pc = pc
Moves(w, pc) == Becomes(w, [worker[w] EXCEPT !.pc = pc])

\* item == snapshot
Unchanged(w) == item = worker[w].snap

HandleOf(run) ==
  IF run.binding = None THEN [action |-> None, run |-> run.epoch]
  ELSE [action |-> run.binding, run |-> 0]

\* What an authoritative lookup tells of an action intent.
Seen(b) == IF action[b] = "never" THEN "missing" ELSE action[b]

-----------------------------------------------------------------------------
(* launch_phase *)

Pending(it) == IncidentPhases[Len(it.checkpoints) + 1]

\* _phase_allowed: there is a pending phase, and the source of the checkpoints
\* is the present one.
PhaseAllowed(it) ==
  /\ Len(it.checkpoints) < Len(IncidentPhases)
  /\ it.checkpoints # <<>> =>
       it.checkpoints[Len(it.checkpoints)].source = it.source

Intent(it, policy) ==
  [phase |-> Pending(it), source |-> it.source, policy |-> policy]

\* _validate_previous_launch answers that the phase has to be recorded first.
MustBeRecorded(it, b) ==
  /\ it.run = None /\ it.last # None /\ it.last.binding # None
  /\ it.last.binding.phase = b.phase /\ it.last.ended # "missing"

\* _validate_launch_run lets the call go on.
RunAdmits(it, o, b) ==
  IF it.run # None THEN it.run.binding = b /\ it.run.owner = o
  ELSE it.last # None =>
         IF it.last.binding # None /\ it.last.binding.phase = b.phase
         THEN it.last.ended = "missing" /\ it.last.binding = b
         ELSE it.last.binding # None \/ it.checkpoints # <<>>

Prepare(w) ==
  /\ At(w, "idle") /\ item # None /\ PhaseAllowed(item)
  /\ \E o \in Owners, policy \in Policies :
       LET b == Intent(item, policy)
       IN /\ RunAdmits(item, o, b)
          /\ Becomes(w, [Idle EXCEPT !.pc = "lookup", !.owner = o,
                                     !.snap = item, !.binding = b])
  /\ UNCHANGED <<storeVars, action>>

Lookup(w) ==
  /\ At(w, "lookup")
  /\ Becomes(w, [worker[w] EXCEPT !.pc = "looked", !.state = Seen(worker[w].binding)])
  /\ UNCHANGED <<storeVars, action>>

\* _observe_launch_phase: a run goes on to be reconciled, an action that is
\* there without a run is only reported, a missing one may be claimed.
Proceed(w) ==
  /\ At(w, "looked") /\ Unchanged(w)
  /\ \/ item.run # None /\ Moves(w, "reconcile")
     \/ item.run = None /\ worker[w].state = "missing" /\ Moves(w, "claim")
  /\ UNCHANGED <<storeVars, action>>

\* reconcile_run reads the item itself before it is handed the observation.
ReadAgain(w) ==
  /\ At(w, "reconcile")
  /\ item.run # None /\ item.run.epoch = worker[w].snap.run.epoch
  /\ LET h == IF worker[w].state = "missing" THEN worker[w].snap.run.handle
              ELSE HandleOf(worker[w].snap.run)
     IN /\ \/ h = item.run.handle
           \/ item.run.handle = None /\ worker[w].state # "missing"
        /\ Becomes(w, [worker[w] EXCEPT !.pc = "commit", !.snap = item, !.handle = h])
  /\ UNCHANGED <<storeVars, action>>

\* _reconcile_observation
Commit(w) ==
  /\ At(w, "commit") /\ Unchanged(w)
  /\ Reconcile(worker[w].state, worker[w].handle)
  /\ Becomes(w, Idle)
  /\ UNCHANGED action

ClaimPhase(w) ==
  /\ At(w, "claim")
  /\ item.epoch = worker[w].snap.epoch
  /\ item.source = worker[w].snap.source
  /\ Claim(worker[w].owner, worker[w].binding)
  /\ Becomes(w, [worker[w] EXCEPT !.pc = "claimed", !.snap = item'])
  /\ UNCHANGED action

CheckClaim(w) ==
  /\ At(w, "claimed") /\ Unchanged(w)
  /\ Moves(w, "launch")
  /\ UNCHANGED <<storeVars, action>>

\* The driver accepts the intent; a launch it has accepted before has no effect.
\* The call may come back with the handle or not at all.
Launch(w) ==
  /\ At(w, "launch")
  /\ action' = [action EXCEPT ![worker[w].binding] =
                  IF @ = "never" THEN "live" ELSE @]
  /\ Moves(w, "bind")
  /\ UNCHANGED storeVars

BindHandle(w) ==
  /\ At(w, "bind")
  /\ Heartbeat(worker[w].owner, worker[w].snap.run.epoch, HandleOf(worker[w].snap.run))
  /\ Becomes(w, Idle)
  /\ UNCHANGED action

-----------------------------------------------------------------------------
(* checkpoint *)

\* Mutation: any terminal run of the owner will do.
AnyRunConcluded(it, o) ==
  /\ it.run = None /\ it.last # None
  /\ it.last.ended = "terminal" /\ it.last.owner = o /\ it.last.binding # None

\* _checkpoint_run_context
Concluded(it, o) ==
  /\ it.run = None /\ it.last # None
  /\ it.last.ended = "terminal" /\ it.last.owner = o
  /\ it.last.binding # None /\ it.last.binding.phase = Pending(it)
  /\ it.last.source = it.source

ReadConclusion(w) ==
  /\ At(w, "idle") /\ item # None /\ PhaseAllowed(item)
  /\ \E o \in Owners :
       /\ Concluded(item, o)
       /\ Becomes(w, [Idle EXCEPT !.pc = "checkpoint", !.owner = o, !.snap = item])
  /\ UNCHANGED <<storeVars, action>>

\* The item after its pending phase was recorded.
Checkpointed ==
  [item EXCEPT
     !.attempts = 0,
     !.checkpoints = Append(@, [binding |-> item.last.binding,
                                phase |-> Pending(item),
                                source |-> item.last.source,
                                run |-> item.last.epoch])]

\* The source is the same and the verifier has confirmed success.
Checkpoint(w) ==
  /\ At(w, "checkpoint") /\ Unchanged(w)
  /\ item' = Checkpointed
  /\ Becomes(w, Idle)
  /\ UNCHANGED <<ingress, action>>

-----------------------------------------------------------------------------
(* Users of the store without a driver. *)

ClaimAlone(w) ==
  /\ At(w, "idle")
  /\ \E o \in Owners :
       /\ Claim(o, None)
       /\ Becomes(w, [Idle EXCEPT !.pc = "working", !.owner = o, !.snap = item'])
  /\ UNCHANGED action

BindAlone(w) ==
  /\ At(w, "working")
  /\ Heartbeat(worker[w].owner, worker[w].snap.run.epoch, HandleOf(worker[w].snap.run))
  /\ Moves(w, "working")
  /\ UNCHANGED action

\* reconcile_run with an observer of the host: of a run without a driver it may
\* see anything.
StartObserving(w) ==
  /\ At(w, "idle") /\ item # None /\ item.run # None
  /\ Becomes(w, [Idle EXCEPT !.pc = "observe", !.snap = item])
  /\ UNCHANGED <<storeVars, action>>

Observe(w) ==
  /\ At(w, "observe")
  /\ LET run == worker[w].snap.run
     IN \E state \in {"live", "terminal", "missing", "unknown"},
           h \in {run.handle, HandleOf(run)} :
          /\ run.binding # None => state \in {Seen(run.binding), "unknown"}
          /\ h = run.handle \/ state \in {"live", "terminal"}
          /\ Becomes(w, [worker[w] EXCEPT !.pc = "commit", !.state = state,
                                         !.handle = h])
  /\ UNCHANGED <<storeVars, action>>

ReadEvidence(w) ==
  /\ At(w, "idle") /\ item # None /\ AdmitsEvidence(item)
  /\ Becomes(w, [Idle EXCEPT !.pc = "advance", !.snap = item])
  /\ UNCHANGED <<storeVars, action>>

\* The provider shows another source than the item has: it is taken in.
Moved(w) ==
  /\ At(w, "advance")
  /\ \E src \in Sources \ {worker[w].snap.source} : Intake(Observed(src), src)
  /\ Becomes(w, Idle)
  /\ UNCHANGED action

\* It shows the same, and the registered verifier confirms the evidence.
Advance(w) ==
  /\ At(w, "advance") /\ Unchanged(w)
  /\ item' = Advanced
  /\ Becomes(w, Idle)
  /\ UNCHANGED <<ingress, action>>

-----------------------------------------------------------------------------
\* A check fails, the store or the driver refuses, an answer is unknown, or the
\* process dies.
GiveUp(w) ==
  /\ ~At(w, "idle")
  /\ Becomes(w, Idle)
  /\ UNCHANGED <<storeVars, action>>

ActionEnds ==
  /\ \E b \in Bindings : action[b] = "live" /\ action' = [action EXCEPT ![b] = "terminal"]
  /\ UNCHANGED <<storeVars, worker>>

Deliver ==
  /\ \E e \in Events, src \in Sources : Intake(e, src)
  /\ UNCHANGED <<action, worker>>

Init ==
  /\ item = None /\ ingress = {}
  /\ action = [b \in Bindings |-> "never"]
  /\ worker = [w \in Workers |-> Idle]

Step(w) ==
  \/ Prepare(w) \/ Lookup(w) \/ Proceed(w) \/ ReadAgain(w) \/ Commit(w)
  \/ ClaimPhase(w) \/ CheckClaim(w) \/ Launch(w) \/ BindHandle(w)
  \/ ReadConclusion(w) \/ Checkpoint(w)
  \/ ClaimAlone(w) \/ BindAlone(w) \/ StartObserving(w) \/ Observe(w)
  \/ ReadEvidence(w) \/ Moved(w) \/ Advance(w)
  \/ GiveUp(w)

Next == (\E w \in Workers : Step(w)) \/ ActionEnds \/ Deliver

Spec == Init /\ [][Next]_vars

-----------------------------------------------------------------------------
(* Properties. *)

Positions == {"idle", "lookup", "looked", "reconcile", "commit", "claim",
              "claimed", "launch", "bind", "checkpoint", "working", "observe",
              "advance"}
WorkerType == [pc : Positions, owner : Owners \cup {None}, snap : Items \cup {None},
               binding : Bindings \cup {None},
               state : {"none", "live", "terminal", "missing", "unknown"},
               handle : Handles \cup {None}]

TypeOK ==
  /\ item \in Items \cup {None}
  /\ ingress \subseteq (Events \cup {Observed(src) : src \in Sources}) \X Sources
  /\ action \in [Bindings -> {"never", "live", "terminal"}]
  /\ worker \in [Workers -> WorkerType]

\* However late or out of order the events of a provider arrive, and whatever
\* advance observes itself, the item is at the newest revision of them all
\* (_apply_source).
SourceIsNewest ==
  /\ item = None <=> ingress = {}
  /\ item # None =>
       /\ \E x \in ingress : x[2] = item.source
       /\ \A x \in ingress : x[2].rev < item.source.rev \/ x[2] = item.source

\* A run is in force exactly as long as the source it was claimed under is the
\* present one; one that is not must be retired before anything else happens,
\* and is never worked from or recorded (_apply_source, _owned).
StaleRunIsFenced ==
  item # None /\ item.run # None =>
    /\ item.run.invalidated <=> item.run.source # item.source
    /\ item.run.invalidated <=> item.phase = "retirement_required"
    /\ ~item.run.invalidated => item.run.epoch = item.epoch

\* A handle in the store is that of the run's own action, although owners that
\* were replaced meanwhile still report theirs (heartbeat, reconcile_run).
HandleIsOfItsRun ==
  item # None =>
    \A run \in {item.run, item.last} \ {None} : run.handle \in {None, HandleOf(run)}

\* The checkpoints of an incident are its first phases in order, each recorded
\* of another run, all under the present source, and the driver's action of each
\* of them was started and has ended (checkpoint).
CheckpointsAreEarned ==
  item # None =>
    \A i \in DOMAIN item.checkpoints :
      LET c == item.checkpoints[i]
      IN /\ c.phase = IncidentPhases[i] /\ c.binding.phase = c.phase
         /\ c.source = item.source /\ c.binding.source = c.source
         /\ action[c.binding] = "terminal"
         /\ \A j \in 1..(i - 1) : item.checkpoints[j].run < c.run

\* A phase beyond the first rests on evidence of the phase before it, taken
\* under the present source (advance).
PhaseIsEvidenced ==
  item # None /\ item.phase \in (Work \ {WorkPhases[1]}) \cup {"ready_for_merge"} =>
    /\ item.evidence # None
    /\ item.evidence.source = item.source
    /\ item.evidence.phase \in Work /\ After(item.evidence.phase) = item.phase

\* No run carries an item through two phases: evidence is replaced by evidence
\* of a later run (advance).
EachPhaseHasItsRun ==
  [][item # None /\ item'.evidence # None /\ item.evidence # None
       /\ item'.evidence # item.evidence
     => item.evidence.run < item'.evidence.run]_vars

Ownership == INSTANCE FencedOwnership WITH
  epoch <- IF item = None THEN 0 ELSE item.epoch,
  holder <- IF item = None \/ item.run = None THEN None
            ELSE [owner |-> item.run.owner, epoch |-> item.run.epoch,
                  handle |-> item.run.handle, fenced |-> item.run.invalidated]

\* The store implements FencedOwnership: one holder at a time, each under an
\* epoch of its own, and none that comes back (WorkflowEventStore, "fenced run
\* ownership").
OwnershipSpec == Ownership!Spec

\* An incident whose phase has to be recorded before anything else is launched
\* can be recorded by the owner of the run: "Record evidence for the terminal
\* phase" (agentic_control.py:4331).
RecordableWhenAsked ==
  item # None /\ PhaseAllowed(item) =>
    \A policy \in Policies :
      MustBeRecorded(item, Intent(item, policy)) =>
        Concluded(item, item.last.owner)
=============================================================================
