---------------------------- MODULE AssemblyLine ----------------------------
(***************************************************************************)
(* factory assemble and factory continue for one feature                   *)
(* (factoryline/assembly.py, continuation.py).  A run takes the feature's  *)
(* lock file, binds a release contract, passes the gates and the stages of *)
(* the chain until one halts or pauses it, records a release checkpoint    *)
(* and removes the lock.  Runs are processes: any number of them at once,  *)
(* each of which may die at any point.                                     *)
(*                                                                         *)
(* The workspace (the author's files, the state of the module tools, the   *)
(* release contracts) changes between any two steps of a run, unless       *)
(* HandsOff.  A run reads one gate's files in one step.  A dry run, which  *)
(* takes no lock and writes nothing, is not modelled, nor is a feature     *)
(* whose name cannot name a checkpoint.                                    *)
(***************************************************************************)
EXTENDS Integers, Sequences, FiniteSets

CONSTANTS
  Runs,         \* invocations, by run_id
  Chain,        \* the stages in order, records [module, name]
  Paths,        \* where a release contract may lie
  Default,      \* .factory/release-contracts/<feature>.json
  Contracts,    \* contracts for this feature, by their content
  Required,     \* the required_stages of each
  Absent,       \* no file
  Garbled,      \* a file that is no release contract
  None,         \* no contract, no path
  Workspaces,   \* the states of the author's files and of the module tools
  MaxFiles,     \* MAX_RECEIPT_FILES
  HandsOff,     \* is the workspace left alone while a run is active?
  Crashes       \* may a run die?

Modules == {"specline", "forgeline", "hsf", "prestige"}
StageNames ==
  {"new", "strict", "verify-validators", "gate-spec", "tasks", "gate-plan",
   "expand", "architect", "review", "arch-gate", "verify-tests", "smoke",
   "score", "compile", "ship"}

Stage(m, n) == [module |-> m, name |-> n]
New == Stage("specline", "new")
Expand == Stage("forgeline", "expand")
Architect == Stage("forgeline", "architect")
Review == Stage("forgeline", "review")
Score == Stage("prestige", "score")
Compile == Stage("hsf", "compile")
ChainStages == {Chain[i] : i \in 1..Len(Chain)}
Stages == ChainStages \union {New, Expand}

ForgeStates == {"none", "intent", "expanded", "scaffolded", "malformed", "other"}
WorkspaceType ==
  [contracted: BOOLEAN,    \* there is no agent contract, or a valid one
   conflict: BOOLEAN,      \* the declared NFRs contradict each other
   spec: BOOLEAN, ui: BOOLEAN, decision: BOOLEAN, ssat: BOOLEAN,
   forge: ForgeStates,
   tools: SUBSET Modules]

ASSUME ChainAssumption == Chain \in Seq([module: Modules, name: StageNames])
ASSUME ContractAssumption ==
  /\ Default \in Paths /\ None \notin Paths
  /\ {Absent, Garbled, None} \intersect Contracts = {}
  /\ Required \in [Contracts -> SUBSET ChainStages]
ASSUME WorkspaceAssumption == Workspaces \subseteq WorkspaceType
ASSUME BoundAssumption == MaxFiles \in Nat
ASSUME SwitchAssumption == HandsOff \in BOOLEAN /\ Crashes \in BOOLEAN

VARIABLES
  lock,          \* does .factory/assembly-<feature>.lock exist?
  checkpoints,   \* the checkpoint files in receipts/
  receipts,      \* per stage its receipt files, by time of writing
  files,         \* how many files receipts/ holds
  file,          \* the content of each contract path
  bound,         \* contracts whose Oracle and evidence bindings hold now
  work,          \* the workspace
  run            \* the runs

vars == <<lock, checkpoints, receipts, files, file, bound, work, run>>
disk == <<checkpoints, receipts, files>>
world == <<file, bound, work>>

\* The program counters between taking the lock and removing it.
Active == {"locked", "resolved", "agent", "spec", "nfr", "stage", "gates",
           "executing", "persist", "writing", "unlock"}

-----------------------------------------------------------------------------
(* The checkpoint history. *)

\* The fields that a paused run hands on.
PolicyOf(c) == <<c.path, c.policy>>

\* _validate_release_checkpoint_history
Verifies(H) ==
  /\ {c.revision : c \in H} = 1..Cardinality(H)
  /\ \A c \in H : c.parent = c.revision - 1
  /\ \A c, d \in H :
       /\ d.revision = c.revision + 1
       /\ c.state = "waiting_for_human"
       => PolicyOf(c) = PolicyOf(d)

\* _release_checkpoint_records returns at all
Readable == files <= MaxFiles /\ Verifies(checkpoints)

Latest(H) == CHOOSE c \in H : \A d \in H : d.revision <= c.revision
Waiting(H) == H # {} /\ Latest(H).state = "waiting_for_human"

-----------------------------------------------------------------------------
(* The lock, and the ways a run ends. *)

\* Run r goes on as new; the other runs are where they were.
Becomes(r, new) == run' = [run EXCEPT ![r] = new]

\* Mutation: an exception ends the run without the finally clause.
RaiseOnly(r) == Becomes(r, [run[r] EXCEPT !.pc = "ended", !.end = "error"])

\* finally: every exception in the run leads to the removal of the lock.
Raise(r) == Becomes(r, [run[r] EXCEPT !.pc = "unlock", !.end = "error"])

Fails(r) ==
  /\ run[r].pc \in Active \ {"unlock"}
  /\ Raise(r)
  /\ UNCHANGED <<lock, disk, world>>

\* Mutation: the lock file is opened without O_EXCL.
OpenShared == TRUE

\* os.open(lock_path, O_CREAT | O_EXCL)
OpenExclusive == ~lock

Acquire(r) ==
  /\ run[r].pc = "idle"
  /\ \E p \in Paths \union {None} :
       IF OpenExclusive
       THEN /\ lock' = TRUE
            /\ Becomes(r, [run[r] EXCEPT !.pc = "locked", !.asked = p])
       ELSE /\ Becomes(r, [run[r] EXCEPT !.pc = "ended", !.end = "already active"])
            /\ UNCHANGED lock
  /\ UNCHANGED <<disk, world>>

\* A run before it starts, and what it is remembered by when it has ended.
Idle == [pc |-> "idle", asked |-> None, path |-> None, policy |-> None,
         binding |-> None, seen |-> {}, tools |-> {}, at |-> 0,
         required |-> FALSE, child |-> FALSE, passed |-> {}, failed |-> {},
         end |-> "none", revision |-> 0, receipted |-> FALSE]
Report(r, pc) == [Idle EXCEPT !.pc = pc, !.end = run[r].end,
                              !.passed = run[r].passed, !.failed = run[r].failed]

\* _remove_assembly_lock
Unlock(r) ==
  /\ run[r].pc = "unlock"
  /\ lock' = FALSE
  /\ Becomes(r, Report(r, IF run[r].end = "error" THEN "ended" ELSE "returned"))
  /\ UNCHANGED <<disk, world>>

\* continue_assembly writes its run receipt once assemble has returned.
WriteRunReceipt(r) ==
  /\ run[r].pc = "returned"
  /\ Becomes(r, [run[r] EXCEPT !.pc = "ended", !.receipted = TRUE])
  /\ UNCHANGED <<lock, disk, world>>

Crash(r) ==
  /\ Crashes
  /\ run[r].pc \in Active \union {"returned"}
  /\ Becomes(r, [Report(r, "crashed") EXCEPT !.child = run[r].child,
                                              !.at = run[r].at])
  /\ UNCHANGED <<lock, disk, world>>

-----------------------------------------------------------------------------
(* Binding a release contract. *)

\* A contract file that reads back and whose bindings hold.
Valid(p) == file[p] \in bound

Bind(r, p, c) ==
  Becomes(r, [run[r] EXCEPT !.pc = "resolved", !.path = p, !.policy = c,
                            !.seen = checkpoints])

\* Mutation: only the path of the paused run is kept, not what the file said.
ResumeByPath(r) ==
  LET c == Latest(checkpoints)
  IN IF run[r].asked \in {None, c.path} /\ Valid(c.path)
     THEN Bind(r, c.path, file[c.path]) ELSE Raise(r)

\* _resolve_checkpointed_release_contract
ResolvePaused(r) ==
  LET c == Latest(checkpoints)
  IN IF /\ run[r].asked \in {None, c.path}
        /\ Valid(c.path) /\ file[c.path] = c.policy
     THEN Bind(r, c.path, c.policy) ELSE Raise(r)

\* _resolve_requested_release_contract
ResolveRequested(r) ==
  LET p == IF run[r].asked = None THEN Default ELSE run[r].asked
  IN IF Valid(p) THEN Bind(r, p, file[p])
     ELSE IF run[r].asked = None THEN Bind(r, None, None) ELSE Raise(r)

Resolve(r) ==
  /\ run[r].pc = "locked"
  /\ IF ~Readable THEN Raise(r)
     ELSE IF Waiting(checkpoints) THEN ResolvePaused(r) ELSE ResolveRequested(r)
  /\ UNCHANGED <<lock, disk, world>>

\* The rest of _assemble_locked_state and the head of _assemble_unlocked: a run
\* without a contract looks at the default path a second time, and keeps the
\* path of a file that is there but not valid.
Begin(r) ==
  /\ run[r].pc = "resolved"
  /\ LET old == run[r].policy
         new == IF old = None /\ Valid(Default) THEN file[Default] ELSE old
     IN IF \/ ~Readable
           \/ run[r].seen # checkpoints
           \/ old # None /\ old \notin bound
        THEN Raise(r)
        ELSE Becomes(r,
          [run[r] EXCEPT !.pc = "agent",
            !.policy = new,
            !.path = IF old # None THEN @
                     ELSE IF file[Default] # Absent THEN Default ELSE None,
            !.binding = IF new # None THEN new
                        ELSE IF file[Default] \in Contracts
                        THEN file[Default] ELSE None,
            !.tools = work.tools])
  /\ UNCHANGED <<lock, disk, world>>

-----------------------------------------------------------------------------
(* Gates and stages. *)

Halted(r, s) ==
  [run[r] EXCEPT !.pc = "persist", !.end = "halted", !.failed = @ \union {s}]
Paused(r) == [run[r] EXCEPT !.pc = "persist", !.end = "paused"]
Continues(r) == [run[r] EXCEPT !.pc = "stage", !.at = @ + 1]

\* A stage that ran is written with its outcome and the contract of the run.
Receipt(r, s, ok) ==
  /\ receipts' = [receipts EXCEPT ![s] =
                    Append(@, [run |-> r, ok |-> ok, binding |-> run[r].binding])]
  /\ files' = files + 1
  /\ UNCHANGED checkpoints

\* _assembly_agent_contract
AgentContract(r) ==
  /\ run[r].pc = "agent"
  /\ Becomes(r, IF ~work.contracted
                THEN Halted(r, Stage("factoryline", "agent-contract"))
                ELSE [run[r] EXCEPT !.pc = "spec"])
  /\ UNCHANGED <<lock, disk, world>>

\* _assembly_spec_bootstrap
SpecBootstrap(r) ==
  /\ run[r].pc = "spec"
  /\ \/ /\ work.spec \/ "specline" \notin run[r].tools
        /\ Becomes(r, [run[r] EXCEPT !.pc = "nfr"])
        /\ UNCHANGED disk
     \/ /\ ~work.spec /\ "specline" \in run[r].tools
        /\ \E ok \in BOOLEAN :
             /\ Receipt(r, New, ok)
             /\ Becomes(r, IF ok THEN Paused(r) ELSE Halted(r, New))
  /\ UNCHANGED <<lock, world>>

\* _assembly_cdte_gate
ConflictGate(r) ==
  /\ run[r].pc = "nfr"
  /\ Becomes(r, IF work.conflict THEN Paused(r) ELSE Continues(r))
  /\ UNCHANGED <<lock, disk, world>>

\* Mutation: every stage reads the contract file again.
RequiresNow(r, s) ==
  LET c == file[Default] IN c \in Contracts /\ s \in Required[c]

\* _release_contract_requires
Requires(r, s) ==
  LET c == IF run[r].policy # None THEN run[r].policy ELSE file[Default]
  IN c \in Contracts /\ s \in Required[c]

\* _assembly_scope_blocked
ScopeMissing(s) == \/ s.module = "prestige" /\ ~work.ui
                   \/ s.module = "hsf" /\ ~work.decision

\* _plan_assembly_stage and the first gate of _assembly_stage_halts
Plan(r) ==
  /\ run[r].pc = "stage" /\ run[r].at <= Len(Chain)
  /\ LET s == Chain[run[r].at]
     IN Becomes(r, IF Requires(r, s) /\ ScopeMissing(s) THEN Halted(r, s)
                   ELSE [run[r] EXCEPT !.pc = "gates", !.required = Requires(r, s)])
  /\ UNCHANGED <<lock, disk, world>>

\* _assembly_availability_action and _assembly_hsf_action: stages that are
\* passed over.  The UI gate does not ask whether the stage is required.
PassedOver(r, s) ==
  \/ s.module \notin run[r].tools /\ ~run[r].required
  \/ s.module \in run[r].tools /\ s.module = "prestige" /\ ~work.ui
  \/ /\ s.module \in run[r].tools /\ s = Compile
     /\ ~work.decision /\ ~run[r].required

\* Required stages that cannot be fulfilled, and a Forge state nobody can read.
Unfulfilled(r, s) ==
  \/ s.module \notin run[r].tools /\ run[r].required
  \/ s.module \in run[r].tools /\ s = Review /\ work.forge = "malformed"
  \/ /\ s.module \in run[r].tools /\ s = Compile
     /\ ~work.decision /\ run[r].required

\* _assembly_forge_architect and _assembly_forge_review: the human's turn.
Expands(r, s) ==
  /\ s.module \in run[r].tools /\ s = Architect
  /\ work.ssat /\ work.forge \in {"none", "intent", "malformed"}
HumanTurn(r, s) ==
  /\ s.module \in run[r].tools
  /\ \/ s = Architect /\ (~work.ssat \/ work.forge = "expanded")
     \/ s = Review /\ work.forge = "scaffolded"

Skip(r, s) ==
  /\ PassedOver(r, s)
  /\ Becomes(r, Continues(r))
  /\ UNCHANGED disk

HaltAt(r, s) ==
  /\ Unfulfilled(r, s)
  /\ Becomes(r, Halted(r, s))
  /\ UNCHANGED disk

Pause(r, s) ==
  /\ HumanTurn(r, s)
  /\ Becomes(r, Paused(r))
  /\ UNCHANGED disk

\* forge expand: the run pauses for an approval however the command ended.
ExpandAndPause(r, s) ==
  /\ Expands(r, s)
  /\ \E ok \in BOOLEAN :
       /\ Receipt(r, Expand, ok)
       /\ Becomes(r, [Paused(r) EXCEPT !.failed =
                         IF ok THEN @ ELSE @ \union {Expand}])

\* Mutation: the stage is enrolled as if it had already passed.
Promise(r) == TRUE

\* What an enrolled stage is worth as evidence before its command has ended.
Enrolled(r) == FALSE

\* The head of _execute_assembly_stage: the receipt of the attempt is written
\* before the command is started.
Enroll(r, s) ==
  /\ ~PassedOver(r, s) /\ ~Unfulfilled(r, s) /\ ~HumanTurn(r, s) /\ ~Expands(r, s)
  /\ Receipt(r, s, Enrolled(r))
  /\ Becomes(r, [run[r] EXCEPT !.pc = "executing", !.child = TRUE])

Gate(r) ==
  /\ run[r].pc = "gates"
  /\ LET s == Chain[run[r].at]
     IN Skip(r, s) \/ HaltAt(r, s) \/ Pause(r, s) \/ ExpandAndPause(r, s)
          \/ Enroll(r, s)
  /\ UNCHANGED <<lock, world>>

\* The command has ended (or was stopped, or timed out): the receipt file of the
\* attempt is replaced by its outcome.
Complete(r) ==
  /\ run[r].pc = "executing"
  /\ LET s == Chain[run[r].at]
     IN \E ok \in BOOLEAN :
          /\ receipts' = [receipts EXCEPT ![s] =
               [i \in DOMAIN @ |-> IF @[i].run = r THEN [@[i] EXCEPT !.ok = ok]
                                   ELSE @[i]]]
          /\ Becomes(r, IF ok
                        THEN [Continues(r) EXCEPT !.child = FALSE,
                                                  !.passed = @ \union {s}]
                        ELSE [Halted(r, s) EXCEPT !.child = FALSE])
  /\ UNCHANGED <<lock, checkpoints, files, world>>

EndOfChain(r) ==
  /\ run[r].pc = "stage" /\ run[r].at > Len(Chain)
  /\ Becomes(r, [run[r] EXCEPT !.pc = "persist", !.end = "completed"])
  /\ UNCHANGED <<lock, disk, world>>

-----------------------------------------------------------------------------
(* The release checkpoint. *)

Checkpoint(r) ==
  [run |-> r, revision |-> run[r].revision, parent |-> Cardinality(run[r].seen),
   state |-> IF run[r].end = "completed" THEN "terminal" ELSE "waiting_for_human",
   path |-> run[r].path, policy |-> run[r].policy]

\* _write_release_checkpoint up to the writing of the file
Persist(r) ==
  /\ run[r].pc = "persist"
  /\ LET next == Cardinality(checkpoints) + 1
         new == [Checkpoint(r) EXCEPT !.revision = next]
     IN IF \/ run[r].policy = None
           \/ Readable /\ run[r].end = "completed" /\ checkpoints = {}
        THEN Becomes(r, [run[r] EXCEPT !.pc = "unlock"])
        ELSE IF \/ ~Readable \/ new.parent # next - 1
                \/ ~Verifies(checkpoints \union {new})
        THEN Raise(r)
        ELSE Becomes(r, [run[r] EXCEPT !.pc = "writing", !.revision = next])
  /\ UNCHANGED <<lock, disk, world>>

Write(r) ==
  /\ run[r].pc = "writing"
  /\ checkpoints' = checkpoints \union {Checkpoint(r)}
  /\ files' = files + 1
  /\ Becomes(r, [run[r] EXCEPT !.pc = "unlock"])
  /\ UNCHANGED <<lock, receipts, world>>

-----------------------------------------------------------------------------
(* The surroundings: people, and the tools they and the runs call. *)

Busy == \E r \in Runs : run[r].pc \in Active

EditContract ==
  /\ \/ \E p \in Paths, x \in Contracts \union {Absent, Garbled} :
          file' = [file EXCEPT ![p] = x] /\ UNCHANGED bound
     \/ \E B \in SUBSET Contracts : bound' = B /\ UNCHANGED file
  /\ UNCHANGED <<lock, disk, work, run>>

EditWorkspace ==
  /\ HandsOff => ~Busy
  /\ work' \in Workspaces
  /\ UNCHANGED <<lock, disk, file, bound, run>>

\* The operator deletes a lock file whose process is gone, which no code does.
ClearStaleLock ==
  /\ lock /\ ~Busy
  /\ lock' = FALSE
  /\ UNCHANGED <<disk, world, run>>

-----------------------------------------------------------------------------
Init ==
  /\ lock = FALSE /\ checkpoints = {} /\ files = 0
  /\ receipts = [s \in Stages |-> <<>>]
  /\ file \in [Paths -> Contracts \union {Absent, Garbled}]
  /\ bound \in SUBSET Contracts
  /\ work \in Workspaces
  /\ run = [r \in Runs |-> Idle]

RunStep(r) ==
  \/ Resolve(r) \/ Begin(r) \/ AgentContract(r) \/ SpecBootstrap(r)
  \/ ConflictGate(r) \/ Plan(r) \/ Gate(r) \/ Complete(r) \/ EndOfChain(r)
  \/ Persist(r) \/ Write(r) \/ Unlock(r) \/ WriteRunReceipt(r)

Next ==
  \/ \E r \in Runs : Acquire(r) \/ RunStep(r) \/ Fails(r) \/ Crash(r)
  \/ EditContract \/ EditWorkspace \/ ClearStaleLock

Spec == Init /\ [][Next]_vars

\* A run is a process that goes on until it ends: every stage is stopped at its
\* time limit.
FairSpec == Spec /\ \A r \in Runs : WF_vars(RunStep(r))

-----------------------------------------------------------------------------
(* Properties. *)

Ends == {"none", "halted", "paused", "completed", "error", "already active"}
Named == [module: Modules \union {"factoryline"},
          name: StageNames \union {"agent-contract"}]

Attempts == [run: Runs, ok: BOOLEAN, binding: Contracts \union {None}]

CheckpointType ==
  [run: Runs, revision: Nat, parent: Int, state: {"waiting_for_human", "terminal"},
   path: Paths, policy: Contracts]

RunType ==
  [pc: Active \union {"idle", "returned", "ended", "crashed"},
   asked: Paths \union {None}, path: Paths \union {None},
   policy: Contracts \union {None}, binding: Contracts \union {None},
   seen: SUBSET CheckpointType, tools: SUBSET Modules, at: Nat,
   required: BOOLEAN, child: BOOLEAN, passed: SUBSET Named, failed: SUBSET Named,
   end: Ends, revision: Nat, receipted: BOOLEAN]

\* The types of the variables: what the files and the run records may hold, and
\* that a run with a contract knows where it came from.
TypeOK ==
  /\ lock \in BOOLEAN /\ files \in Nat
  /\ checkpoints \in SUBSET CheckpointType
  /\ receipts \in [Stages -> Seq(Attempts)]
  /\ file \in [Paths -> Contracts \union {Absent, Garbled}]
  /\ bound \in SUBSET Contracts
  /\ work \in Workspaces
  /\ run \in [Runs -> RunType]
  /\ \A r \in Runs : run[r].policy # None => run[r].path # None

\* Whatever runs start, race, fail and die, the checkpoint files of the feature
\* stay a history that the next run accepts: revisions 1 to n, each once, each
\* naming its predecessor, and none that changes the contract of a paused run
\* (_validate_release_checkpoint_history).
HistoryVerifies == Verifies(checkpoints)

Working == {"agent", "spec", "nfr", "stage", "gates", "executing", "persist",
            "writing"}

\* While the last recorded run waits for a human, every stage that is run is run
\* under the contract that run was bound to, however the contract files were
\* edited since (resolve_continuation_release_contract).
PausedPolicyHolds ==
  Waiting(checkpoints) =>
    \A r \in Runs : run[r].pc \in Working =>
      /\ PolicyOf(run[r]) = PolicyOf(Latest(checkpoints))
      /\ run[r].binding = run[r].policy

\* A checkpoint says terminal only of a run in which every stage its contract
\* requires was run and passed (_assembly_stage_halts).
CompletedRanRequired ==
  \A c \in checkpoints :
    c.state = "terminal" => Required[c.policy] \subseteq run[c.run].passed

\* A command that was started and has not reported, its run dead or alive, is on
\* record as an attempt that did not pass (_execute_assembly_stage).
AttemptIsOnRecord ==
  \A r \in Runs : run[r].child =>
    LET s == Chain[run[r].at]
    IN \E i \in DOMAIN receipts[s] : receipts[s][i].run = r /\ ~receipts[s][i].ok

\* The feature is never locked for good: whatever gate, stage or exception ends a
\* run, the lock file goes (_assemble_with_lock).
LockIsReleased == lock ~> ~lock

\* "release-contract assembly is already active for this feature" is said only
\* while an assembly of the feature is active (assembly.py:1594).
ActiveMeansActive ==
  [][\A r \in Runs :
       run[r].pc = "idle" /\ run'[r].end = "already active" => Busy]_vars

\* A run in which a stage failed ends as halted, never as waiting for a human
\* (specs/assembly-continue-v1.md, R7).
FailedStageHalts ==
  \A r \in Runs : run[r].failed # {} => run[r].end # "paused"

\* A run whose contract is in order and whose history verifies is let in
\* (docs/ASSEMBLY_CONTINUE.md: it returns completed, waiting or halted).
SoundRunIsLetIn ==
  [][\A r \in Runs :
       Resolve(r) /\ run'[r].end = "error" =>
         \/ ~Verifies(checkpoints) \/ Waiting(checkpoints)
         \/ run[r].asked # None]_vars

=============================================================================
