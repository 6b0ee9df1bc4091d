------------------------- MODULE AssemblyLineProofs -------------------------
(***************************************************************************)
(* Theorems about AssemblyLine and ReleaseVerify, for any chain, any       *)
(* number of runs, any contracts and workspaces, crashes included.         *)
(*                                                                         *)
(* The lock makes the active run the only one, so that what a run has      *)
(* checked about the checkpoint history still holds when it writes, and    *)
(* what it was bound to still governs when it works.                       *)
(*                                                                         *)
(* A release that is called ready was ready at one moment.  The receipts   *)
(* are read one by one while a run goes on; but of what was listed only    *)
(* the stage that was being executed can still come to pass, and as long   *)
(* as it is executed nothing else is written.                              *)
(***************************************************************************)
EXTENDS ReleaseVerify, FiniteSetTheorems, TLAPS

-----------------------------------------------------------------------------
(* Stages and the types of runs. *)

LEMMA StageFacts ==
  /\ Stages \subseteq Named /\ ChainStages \subseteq Stages
  /\ New \in Stages /\ Expand \in Stages
  /\ Stage("factoryline", "agent-contract") \in Named
  /\ \A i \in 1..Len(Chain) : Chain[i] \in ChainStages
<1> DEFINE T == [module: Modules, name: StageNames]
<1>0. Chain \in Seq(T)
  BY ChainAssumption
<1> HIDE DEF T
<1>1. \A i \in 1..Len(Chain) : Chain[i] \in T
  BY <1>0
<1>2. /\ New \in Named /\ Expand \in Named
      /\ Stage("factoryline", "agent-contract") \in Named
  BY DEF New, Expand, Stage, Named, Modules, StageNames
<1>3. ChainStages \subseteq Named
  BY <1>1 DEF ChainStages, Named, T
<1>4. Stages \subseteq Named /\ ChainStages \subseteq Stages
  BY <1>2, <1>3 DEF Stages
<1>5. New \in Stages /\ Expand \in Stages
  BY DEF Stages
<1>6. \A i \in 1..Len(Chain) : Chain[i] \in ChainStages
  BY DEF ChainStages
<1> QED BY <1>2, <1>4, <1>5, <1>6

LEMMA NoneIsNothing == None \notin Paths /\ None \notin Contracts
BY ContractAssumption

\* A run before it starts, and one that has ended, are runs.
LEMMA IdleType ==
  /\ Idle \in RunType
  /\ Idle.policy = None /\ Idle.seen = {} /\ ~Idle.child
BY DEF Idle, RunType, Active, Ends

LEMMA ReportType ==
  ASSUME TypeOK, NEW r \in Runs,
         NEW pc \in {"returned", "ended", "crashed"}
  PROVE  /\ Report(r, pc) \in RunType
         /\ Report(r, pc).pc = pc
         /\ Report(r, pc).passed = run[r].passed
         /\ Report(r, pc).policy = None /\ Report(r, pc).seen = {}
         /\ ~Report(r, pc).child
<1>1. run[r] \in RunType
  BY DEF TypeOK
<1> DEFINE m == run[r]
<1>2. /\ m.passed \in SUBSET Named /\ m.failed \in SUBSET Named
      /\ m.end \in Ends /\ m.receipted \in BOOLEAN /\ m.revision \in Nat
  BY <1>1 DEF RunType
<1> QED BY <1>2, IdleType DEF Report, RunType

\* The checkpoint files and what a run has seen of them are finite sets.
Finite == IsFiniteSet(checkpoints) /\ \A r \in Runs : IsFiniteSet(run[r].seen)

\* A run that looks at a stage is at a place in the chain.
Placed ==
  \A r \in Runs :
    /\ run[r].pc = "stage" => run[r].at > 0
    /\ run[r].pc \in {"gates", "executing"} => run[r].at \in 1..Len(Chain)

\* The files other than the checkpoints keep their types through a receipt.
LEMMA ReceiptType ==
  ASSUME TypeOK, NEW r \in Runs, NEW s \in Stages, NEW ok \in BOOLEAN,
         Receipt(r, s, ok)
  PROVE  /\ receipts' \in [Stages -> Seq(Attempts)]
         /\ files' \in Nat /\ checkpoints' = checkpoints
<1> DEFINE row == [run |-> r, ok |-> ok, binding |-> run[r].binding]
<1>1. run[r].binding \in Contracts \union {None}
  BY DEF TypeOK, RunType
<1>2. row \in Attempts
  BY <1>1 DEF Attempts
<1>3. receipts \in [Stages -> Seq(Attempts)] /\ files \in Nat
  BY DEF TypeOK
<1>4. receipts' = [receipts EXCEPT ![s] = Append(receipts[s], row)]
  BY DEF Receipt
<1> HIDE DEF row
<1>5. Append(receipts[s], row) \in Seq(Attempts)
  BY <1>2, <1>3
<1>6. receipts' \in [Stages -> Seq(Attempts)]
  BY <1>3, <1>4, <1>5
<1> QED BY <1>3, <1>6 DEF Receipt

-----------------------------------------------------------------------------
(* Types. *)

\* The steps of an active run, and the ends it may have.
LEMMA Tags ==
  /\ "locked" \in Active /\ "resolved" \in Active /\ "agent" \in Active
  /\ "spec" \in Active /\ "nfr" \in Active /\ "stage" \in Active
  /\ "gates" \in Active /\ "executing" \in Active /\ "persist" \in Active
  /\ "writing" \in Active /\ "unlock" \in Active
  /\ "halted" \in Ends /\ "paused" \in Ends /\ "completed" \in Ends
  /\ "error" \in Ends /\ "already active" \in Ends
BY DEF Active, Ends

\* A run in good order.
GoodRun(m) ==
  /\ m \in RunType /\ (m.policy # None => m.path # None)
  /\ IsFiniteSet(m.seen)

RunsTyped == run \in [Runs -> RunType] /\ \A r \in Runs : GoodRun(run[r])

\* What a run keeps of its order when these fields change.
LEMMA GoodFields ==
  ASSUME NEW m, GoodRun(m), NEW b \in BOOLEAN,
         NEW s \in SUBSET Named, NEW i \in Nat
  PROVE  /\ GoodRun([m EXCEPT !.child = b, !.passed = s])
         /\ GoodRun([m EXCEPT !.child = b, !.at = i])
<1>1. GoodRun([m EXCEPT !.child = b, !.passed = s])
  BY DEF GoodRun, RunType
<1>2. GoodRun([m EXCEPT !.child = b, !.at = i])
  BY DEF GoodRun, RunType
<1> QED BY <1>1, <1>2

LEMMA BecomesTyped ==
  ASSUME RunsTyped, NEW r \in Runs, NEW new, GoodRun(new), Becomes(r, new)
  PROVE  RunsTyped'
BY DEF RunsTyped, GoodRun, Becomes

LEMMA AllGood ==
  ASSUME TypeOK, Finite
  PROVE  RunsTyped
BY DEF TypeOK, Finite, RunsTyped, GoodRun

\* A history that verifies ends with the checkpoint of the highest revision.
LEMMA LatestIn ==
  ASSUME NEW H, IsFiniteSet(H), Verifies(H), H # {}
  PROVE  Latest(H) \in H /\ \A d \in H : d.revision <= Latest(H).revision
<1> DEFINE n == Cardinality(H)
<1>1. n \in Nat /\ n # 0
  BY FS_CardinalityType, FS_EmptySet
<1>2. {c.revision : c \in H} = 1..n
  BY DEF Verifies
<1>3. \A d \in H : d.revision \in 1..n
  BY <1>2
<1>4. \E c \in H : c.revision = n
  BY <1>1, <1>2
<1>5. \E c \in H : \A d \in H : d.revision <= c.revision
  BY <1>1, <1>3, <1>4
<1> QED BY <1>5 DEF Latest

LEMMA ReportGood ==
  ASSUME TypeOK, NEW r \in Runs, NEW pc \in {"returned", "ended", "crashed"}
  PROVE  GoodRun(Report(r, pc))
BY ReportType, FS_EmptySet DEF GoodRun

\* What Begin makes of a run that goes on: bound to c, read from p.
Begun(r, c, p, b) ==
  /\ run[r].seen = checkpoints
  /\ c # None => p # None /\ b = c
  /\ run[r].policy # None => c = run[r].policy /\ p = run[r].path
  /\ Becomes(r, [run[r] EXCEPT !.pc = "agent", !.policy = c, !.path = p,
                               !.binding = b, !.tools = work.tools])

LEMMA BeginEffect ==
  ASSUME TypeOK, NEW r \in Runs, Begin(r)
  PROVE  \/ Raise(r)
         \/ \E c, b \in Contracts \union {None}, p \in Paths \union {None} :
              Begun(r, c, p, b)
<1> DEFINE old == run[r].policy
           new == IF old = None /\ Valid(Default) THEN file[Default] ELSE old
           path == IF old # None THEN run[r].path
                   ELSE IF file[Default] # Absent THEN Default ELSE None
           binding == IF new # None THEN new
                      ELSE IF file[Default] \in Contracts
                      THEN file[Default] ELSE None
<1> SUFFICES ASSUME ~Raise(r)
             PROVE  /\ new \in Contracts \union {None}
                    /\ binding \in Contracts \union {None}
                    /\ path \in Paths \union {None}
                    /\ Begun(r, new, path, binding)
  OBVIOUS
<1>1. old \in Contracts \union {None} /\ run[r].path \in Paths \union {None}
  BY DEF TypeOK, RunType
<1>2. old # None => run[r].path # None
  BY DEF TypeOK
<1>3. Valid(Default) => file[Default] \in Contracts
  BY DEF TypeOK, Valid
<1>4. Absent \notin Contracts /\ None \notin Contracts /\ Default # None
        /\ Default \in Paths
  BY ContractAssumption
<1>5. /\ new \in Contracts \union {None} /\ path \in Paths \union {None}
      /\ binding \in Contracts \union {None}
  BY <1>1, <1>3, <1>4
<1>6. /\ run[r].seen = checkpoints
      /\ Becomes(r, [run[r] EXCEPT !.pc = "agent", !.policy = new, !.path = path,
                                   !.binding = binding, !.tools = work.tools])
  BY DEF Begin
<1>7. new # None => path # None /\ binding = new
  BY <1>1, <1>2, <1>3, <1>4
<1>8. old # None => new = old /\ path = run[r].path
  OBVIOUS
<1> HIDE DEF new, path, binding
<1> QED BY <1>5, <1>6, <1>7, <1>8 DEF Begun

LEMMA HeadTyped ==
  ASSUME TypeOK, Finite, NEW r \in Runs,
         Acquire(r) \/ Fails(r) \/ Resolve(r) \/ Begin(r) \/ Unlock(r)
           \/ WriteRunReceipt(r) \/ Crash(r)
  PROVE  RunsTyped'
<1> DEFINE m == run[r]
<1>0. RunsTyped /\ GoodRun(m)
  BY AllGood DEF RunsTyped
<1> USE DEF GoodRun, RunType
<1> USE Tags
<1>r. ASSUME Raise(r) PROVE RunsTyped'
  BY <1>0, <1>r, BecomesTyped DEF Raise
<1>1. CASE Acquire(r)
  <2>1. \A p \in Paths \union {None} : GoodRun([m EXCEPT !.pc = "locked", !.asked = p])
    BY <1>0
  <2>2. GoodRun([m EXCEPT !.pc = "ended", !.end = "already active"])
    BY <1>0
  <2> QED BY <1>0, <1>1, <2>1, <2>2, BecomesTyped DEF Acquire
<1>2. CASE Fails(r)
  BY <1>2, <1>r DEF Fails
<1>3. CASE Resolve(r)
  <2>1. ASSUME NEW p \in Paths \union {None}, NEW c \in Contracts \union {None},
               c # None => p # None, Bind(r, p, c)
        PROVE  RunsTyped'
    <3>1. GoodRun([m EXCEPT !.pc = "resolved", !.path = p, !.policy = c,
                            !.seen = checkpoints])
      BY <1>0, <2>1 DEF TypeOK, Finite
    <3> QED BY <1>0, <2>1, <3>1, BecomesTyped DEF Bind
  <2>2. CASE Raise(r)
    BY <2>2, <1>r
  <2>3. CASE Readable /\ Waiting(checkpoints) /\ ResolvePaused(r)
    <3> DEFINE c == Latest(checkpoints)
    <3>1. c \in CheckpointType
      BY <2>3, LatestIn DEF Readable, Waiting, TypeOK, Finite
    <3>2. c.path \in Paths /\ c.policy \in Contracts
      BY <3>1 DEF CheckpointType
    <3>3. Bind(r, c.path, c.policy) \/ Raise(r)
      BY <2>3 DEF ResolvePaused
    <3> QED BY <3>2, <3>3, <2>1, <2>2, NoneIsNothing
  <2>4. CASE ResolveRequested(r)
    <3> DEFINE p == IF m.asked = None THEN Default ELSE m.asked
    <3>1. p \in Paths
      BY <1>0, ContractAssumption
    <3>2. \/ file[p] \in Contracts /\ Bind(r, p, file[p])
          \/ Bind(r, None, None) \/ Raise(r)
      BY <2>4, <3>1 DEF ResolveRequested, Valid, TypeOK
    <3> QED BY <3>1, <3>2, <2>1, <2>2, NoneIsNothing
  <2> QED BY <1>3, <2>2, <2>3, <2>4 DEF Resolve
<1>4. CASE Begin(r)
  <2>1. CASE Raise(r)
    BY <2>1, <1>r
  <2>2. ASSUME NEW c \in Contracts \union {None}, NEW p \in Paths \union {None},
               NEW b \in Contracts \union {None}, Begun(r, c, p, b)
        PROVE  RunsTyped'
    <3>1. work.tools \in SUBSET Modules
      BY WorkspaceAssumption DEF TypeOK, WorkspaceType
    <3>2. GoodRun([m EXCEPT !.pc = "agent", !.policy = c, !.path = p,
                            !.binding = b, !.tools = work.tools])
      <4>1. c # None => p # None
        BY <2>2 DEF Begun
      <4> QED BY <1>0, <3>1, <4>1
    <3> QED BY <1>0, <2>2, <3>2, BecomesTyped DEF Begun
  <2> QED BY <1>4, <2>1, <2>2, BeginEffect
<1>5. CASE Unlock(r)
  BY <1>0, <1>5, ReportGood, BecomesTyped DEF Unlock
<1>6. CASE WriteRunReceipt(r)
  <2>1. GoodRun([m EXCEPT !.pc = "ended", !.receipted = TRUE])
    BY <1>0
  <2> QED BY <1>0, <1>6, <2>1, BecomesTyped DEF WriteRunReceipt
<1>7. CASE Crash(r)
  <2>1. GoodRun(Report(r, "crashed"))
    BY ReportGood
  <2>2. GoodRun([Report(r, "crashed") EXCEPT !.child = m.child, !.at = m.at])
    <3>1. m.child \in BOOLEAN /\ m.at \in Nat
      BY <1>0
    <3> HIDE DEF m, GoodRun
    <3> QED BY <2>1, <3>1, GoodFields
  <2> QED BY <1>0, <1>7, <2>2, BecomesTyped DEF Crash
<1> QED BY <1>1, <1>2, <1>3, <1>4, <1>5, <1>6, <1>7

\* Ends of gates and stages.
LEMMA OutcomesGood ==
  ASSUME NEW r \in Runs, GoodRun(run[r]), NEW s \in Named
  PROVE  GoodRun(Halted(r, s)) /\ GoodRun(Paused(r)) /\ GoodRun(Continues(r))
<1> DEFINE m == run[r]
<1>1. GoodRun(m) /\ m.failed \union {s} \in SUBSET Named
  BY DEF GoodRun, RunType
<1> HIDE DEF m
<1>2. GoodRun([m EXCEPT !.pc = "persist", !.end = "halted", !.failed = m.failed \union {s}])
  BY <1>1, Tags DEF GoodRun, RunType
<1>3. GoodRun([m EXCEPT !.pc = "persist", !.end = "paused"])
  BY <1>1, Tags DEF GoodRun, RunType
<1>4. \A k \in Nat : GoodRun([m EXCEPT !.pc = "stage", !.at = k])
  BY <1>1, Tags DEF GoodRun, RunType
<1>5. m.at + 1 \in Nat
  BY <1>1 DEF GoodRun, RunType
<1>6. GoodRun([m EXCEPT !.pc = "stage", !.at = m.at + 1])
  BY <1>4, <1>5
<1> QED BY <1>2, <1>3, <1>6 DEF Halted, Paused, Continues, m

\* The steps of a run from its first gate to its checkpoint.
BodyStep(r) ==
  AgentContract(r) \/ SpecBootstrap(r) \/ ConflictGate(r) \/ Plan(r)
    \/ Gate(r) \/ Complete(r) \/ EndOfChain(r) \/ Persist(r) \/ Write(r)

LEMMA BodyTyped ==
  ASSUME TypeOK, Finite, Placed, NEW r \in Runs, BodyStep(r)
  PROVE  RunsTyped'
<1> DEFINE m == run[r]
<1>0. RunsTyped /\ GoodRun(m)
  BY AllGood DEF RunsTyped
<1> HIDE DEF m
<1>1. /\ \A s \in Named : GoodRun(Halted(r, s))
      /\ GoodRun(Paused(r)) /\ GoodRun(Continues(r))
  <2>1. GoodRun(run[r])
    BY <1>0 DEF m
  <2>2. New \in Named
    BY StageFacts
  <2> QED BY <2>1, <2>2, OutcomesGood
<1>2. \A pc \in {"spec", "nfr", "unlock"} : GoodRun([m EXCEPT !.pc = pc])
  BY <1>0, Tags DEF GoodRun, RunType
<1>3. CASE AgentContract(r)
  BY <1>0, <1>1, <1>2, <1>3, StageFacts, BecomesTyped DEF AgentContract, m, Active
<1>4. CASE SpecBootstrap(r)
  BY <1>0, <1>1, <1>2, <1>4, StageFacts, BecomesTyped DEF SpecBootstrap, m, Active
<1>5. CASE ConflictGate(r)
  BY <1>0, <1>1, <1>5, BecomesTyped DEF ConflictGate
<1>6. CASE Plan(r)
  <2> DEFINE s == Chain[m.at]
  <2>0. m.at \in 1..Len(Chain)
    BY <1>0, <1>6 DEF Plan, m, GoodRun, RunType, Placed
  <2>1. s \in Named /\ Requires(r, s) \in BOOLEAN
    BY <2>0, StageFacts DEF Requires
  <2>2. GoodRun([m EXCEPT !.pc = "gates", !.required = Requires(r, s)])
    BY <1>0, <2>1, Tags DEF GoodRun, RunType
  <2> QED BY <1>0, <1>1, <1>6, <2>1, <2>2, BecomesTyped DEF Plan, m
<1>7. CASE Gate(r)
  <2> DEFINE s == Chain[m.at]
  <2>1. m.at \in 1..Len(Chain) /\ s \in Named
    <3>1. m.at \in 1..Len(Chain)
      BY <1>7 DEF Gate, m, Placed
    <3> QED BY <3>1, StageFacts
  <2>2. CASE Skip(r, s) \/ HaltAt(r, s) \/ Pause(r, s)
    BY <1>0, <1>1, <2>1, <2>2, BecomesTyped DEF Skip, HaltAt, Pause
  <2>3. CASE ExpandAndPause(r, s)
    <3>1. Paused(r) \in RunType
      BY <1>1 DEF GoodRun
    <3>2. PICK f : /\ f = Paused(r).failed \/ f = Paused(r).failed \union {Expand}
                   /\ Becomes(r, [Paused(r) EXCEPT !.failed = f])
      BY <2>3 DEF ExpandAndPause
    <3>3. f \in SUBSET Named
      BY <3>1, <3>2, StageFacts DEF RunType
    <3>4. GoodRun([Paused(r) EXCEPT !.failed = f])
      BY <1>1, <3>3 DEF GoodRun, RunType
    <3> QED BY <1>0, <3>2, <3>4, BecomesTyped
  <2>4. CASE Enroll(r, s)
    <3>1. GoodRun([m EXCEPT !.pc = "executing", !.child = TRUE])
      BY <1>0, <2>1, Tags DEF GoodRun, RunType
    <3> QED BY <1>0, <2>4, <3>1, BecomesTyped DEF Enroll, m
  <2> QED BY <1>7, <2>2, <2>3, <2>4 DEF Gate, m
<1>8. CASE Complete(r)
  <2> DEFINE s == Chain[m.at]
  <2>1. s \in Named
    BY <1>8, StageFacts DEF Complete, m, Placed
  <2>2. Continues(r).passed \union {s} \in SUBSET Named
    BY <1>1, <2>1 DEF GoodRun, RunType
  <2>3. GoodRun([Halted(r, s) EXCEPT !.child = FALSE])
    BY <1>1, <2>1 DEF GoodRun, RunType
  <2>4. GoodRun([Continues(r) EXCEPT !.child = FALSE,
                   !.passed = Continues(r).passed \union {s}])
    BY <1>1, <2>2, GoodFields
  <2>5. \/ Becomes(r, [Continues(r) EXCEPT !.child = FALSE,
                          !.passed = Continues(r).passed \union {s}])
        \/ Becomes(r, [Halted(r, s) EXCEPT !.child = FALSE])
    BY <1>8 DEF Complete, m
  <2> HIDE DEF s
  <2> QED BY <1>0, <2>3, <2>4, <2>5, BecomesTyped
<1>9. CASE EndOfChain(r)
  <2>1. GoodRun([m EXCEPT !.pc = "persist", !.end = "completed"])
    BY <1>0, Tags DEF GoodRun, RunType
  <2> QED BY <1>0, <1>9, <2>1, BecomesTyped DEF EndOfChain, m
<1>10. CASE Persist(r)
  <2> DEFINE next == Cardinality(checkpoints) + 1
  <2>1. next \in Nat
    BY FS_CardinalityType DEF Finite
  <2> HIDE DEF next
  <2>2. /\ GoodRun([m EXCEPT !.pc = "unlock", !.end = "error"])
        /\ GoodRun([m EXCEPT !.pc = "writing", !.revision = next])
    BY <1>0, <2>1, Tags DEF GoodRun, RunType
  <2>3. \/ Becomes(r, [m EXCEPT !.pc = "unlock"])
        \/ Becomes(r, [m EXCEPT !.pc = "unlock", !.end = "error"])
        \/ Becomes(r, [m EXCEPT !.pc = "writing", !.revision = next])
    BY <1>10 DEF Persist, Raise, m, next
  <2> QED BY <1>0, <1>2, <2>2, <2>3, BecomesTyped
<1>11. CASE Write(r)
  BY <1>0, <1>2, <1>11, BecomesTyped DEF Write, m, Active
<1> QED BY <1>3, <1>4, <1>5, <1>6, <1>7, <1>8, <1>9, <1>10, <1>11 DEF BodyStep

-----------------------------------------------------------------------------
(* What a step of the body does to its run, and leaves alone. *)

LEMMA Became ==
  ASSUME TypeOK, NEW r \in Runs, NEW new, Becomes(r, new)
  PROVE  run'[r] = new /\ \A q \in Runs \ {r} : run'[q] = run[q]
BY DEF TypeOK, Becomes

\* What a run was bound to stays, and what it has passed; only to execute a stage
\* does it start a child.
Same(m, n) == /\ n.policy = m.policy /\ n.path = m.path
              /\ n.binding = m.binding /\ n.seen = m.seen
              /\ m.passed \subseteq n.passed
              /\ n.child => m.child \/ n.pc = "executing"

LEMMA Outcomes ==
  ASSUME NEW r \in Runs, run[r] \in RunType, NEW s \in Named
  PROVE  /\ Same(run[r], Halted(r, s)) /\ Halted(r, s).pc = "persist"
         /\ Halted(r, s).end = "halted" /\ Halted(r, s).child = run[r].child
         /\ Halted(r, s).passed = run[r].passed
         /\ Same(run[r], Paused(r)) /\ Paused(r).pc = "persist"
         /\ Paused(r).end = "paused" /\ Paused(r).child = run[r].child
         /\ Paused(r).passed = run[r].passed
         /\ Same(run[r], Continues(r)) /\ Continues(r).pc = "stage"
         /\ Continues(r).at = run[r].at + 1 /\ Continues(r).end = run[r].end
         /\ Continues(r).child = run[r].child
         /\ Continues(r).passed = run[r].passed
BY DEF Halted, Paused, Continues, Same, RunType

BodyEffect(r) ==
  /\ \A q \in Runs \ {r} : run'[q] = run[q]
  /\ Same(run[r], run'[r])
  /\ run[r].pc \in Working /\ run'[r].pc \in (Working \ {"agent"}) \union {"unlock"}
  /\ run'[r].pc = "stage" => run'[r].at = run[r].at + 1
  /\ run'[r].pc \in {"gates", "executing"} =>
       run'[r].at = run[r].at /\ run[r].at \in 1..Len(Chain)
  /\ run'[r].pc = "writing" => run[r].pc = "persist"
  /\ run'[r].pc = "executing" => Enroll(r, Chain[run[r].at])

LEMMA BodyEffects ==
  ASSUME TypeOK, Finite, Placed, NEW r \in Runs, BodyStep(r)
  PROVE  BodyEffect(r)
<1> DEFINE m == run[r]
<1>0. m \in RunType
  BY DEF TypeOK
<1>1. CASE AgentContract(r)
  <2> DEFINE new == IF ~work.contracted
                    THEN Halted(r, Stage("factoryline", "agent-contract"))
                    ELSE [m EXCEPT !.pc = "spec"]
  <2>1. Becomes(r, new) /\ m.pc = "agent"
    BY <1>1 DEF AgentContract
  <2>2. Same(m, new) /\ new.pc \in {"persist", "spec"}
    BY <1>0, Outcomes, StageFacts DEF Same, RunType
  <2> HIDE DEF new
  <2> QED BY <2>1, <2>2, Became DEF BodyEffect, Working
<1>2. CASE SpecBootstrap(r)
  <2>1. m.pc = "spec" /\ \/ Becomes(r, [m EXCEPT !.pc = "nfr"])
                         \/ Becomes(r, Paused(r)) \/ Becomes(r, Halted(r, New))
    BY <1>2 DEF SpecBootstrap
  <2>2. Same(m, [m EXCEPT !.pc = "nfr"]) /\ [m EXCEPT !.pc = "nfr"].pc = "nfr"
    BY <1>0 DEF Same, RunType
  <2>3. New \in Named
    BY StageFacts
  <2>4. /\ Same(m, Paused(r)) /\ Paused(r).pc = "persist"
        /\ Same(m, Halted(r, New)) /\ Halted(r, New).pc = "persist"
    BY <1>0, <2>3, Outcomes
  <2> QED BY <2>1, <2>2, <2>4, Became DEF BodyEffect, Working
<1>3. CASE ConflictGate(r)
  <2>1. m.pc = "nfr" /\ (Becomes(r, Paused(r)) \/ Becomes(r, Continues(r)))
    BY <1>3 DEF ConflictGate
  <2>2. New \in Named
    BY StageFacts
  <2>3. /\ Same(m, Paused(r)) /\ Paused(r).pc = "persist"
        /\ Same(m, Continues(r)) /\ Continues(r).pc = "stage"
        /\ Continues(r).at = m.at + 1
    BY <1>0, <2>2, Outcomes
  <2> QED BY <2>1, <2>3, Became DEF BodyEffect, Working
<1>4. CASE Plan(r)
  <2> DEFINE s == Chain[m.at]
             new == [m EXCEPT !.pc = "gates", !.required = Requires(r, s)]
  <2>1. /\ m.pc = "stage" /\ m.at \in 1..Len(Chain) /\ s \in Named
        /\ Becomes(r, Halted(r, s)) \/ Becomes(r, new)
    <3>1. m.pc = "stage" /\ m.at \in 1..Len(Chain)
      BY <1>0, <1>4 DEF Plan, Placed, RunType
    <3> QED BY <1>4, <3>1, StageFacts DEF Plan
  <2>2. Same(m, new) /\ new.pc = "gates" /\ new.at = m.at
    BY <1>0 DEF Same, RunType
  <2> HIDE DEF new, s
  <2>3. CASE Becomes(r, Halted(r, s))
    BY <1>0, <2>1, <2>3, Outcomes, Became DEF BodyEffect, Working
  <2>4. CASE Becomes(r, new)
    BY <2>1, <2>2, <2>4, Became DEF BodyEffect, Working
  <2> QED BY <2>1, <2>3, <2>4
<1>5. CASE Gate(r)
  <2> DEFINE s == Chain[m.at]
             new == [m EXCEPT !.pc = "executing", !.child = TRUE]
  <2>1. /\ m.pc = "gates" /\ m.at \in 1..Len(Chain) /\ s \in Named
        /\ Skip(r, s) \/ HaltAt(r, s) \/ Pause(r, s) \/ ExpandAndPause(r, s)
             \/ Enroll(r, s)
    BY <1>5, StageFacts DEF Gate, Placed
  <2>2. CASE Becomes(r, Continues(r)) \/ Becomes(r, Halted(r, s))
               \/ Becomes(r, Paused(r))
    <3> HIDE DEF s
    <3> QED BY <1>0, <2>1, <2>2, Outcomes, Became DEF BodyEffect, Working
  <2>3. CASE ExpandAndPause(r, s)
    <3>1. PICK f : Becomes(r, [Paused(r) EXCEPT !.failed = f])
      BY <2>3 DEF ExpandAndPause
    <3>2. /\ Same(m, [Paused(r) EXCEPT !.failed = f])
          /\ [Paused(r) EXCEPT !.failed = f].pc = "persist"
      BY <1>0 DEF Paused, Same, RunType
    <3> QED BY <2>1, <3>1, <3>2, Became DEF BodyEffect, Working
  <2>4. CASE Enroll(r, s)
    <3>1. Same(m, new) /\ new.pc = "executing" /\ new.at = m.at
      BY <1>0 DEF Same, RunType
    <3>2. Becomes(r, new)
      BY <2>4 DEF Enroll
    <3> HIDE DEF new
    <3> QED BY <2>1, <2>4, <3>1, <3>2, Became DEF BodyEffect, Working
  <2> QED BY <2>1, <2>2, <2>3, <2>4 DEF Skip, HaltAt, Pause
<1>6. CASE Complete(r)
  <2> DEFINE s == Chain[m.at]
             passed == [Continues(r) EXCEPT !.child = FALSE, !.passed = @ \union {s}]
             failed == [Halted(r, s) EXCEPT !.child = FALSE]
  <2>1. m.pc = "executing" /\ (Becomes(r, passed) \/ Becomes(r, failed))
    BY <1>6 DEF Complete
  <2>2. Same(m, passed) /\ passed.pc = "stage" /\ passed.at = m.at + 1
    BY <1>0 DEF Same, RunType, Continues
  <2>3. Same(m, failed) /\ failed.pc = "persist"
    BY <1>0 DEF Same, RunType, Halted
  <2> HIDE DEF s, passed, failed
  <2> QED BY <2>1, <2>2, <2>3, Became DEF BodyEffect, Working
<1>7. CASE EndOfChain(r)
  <2> DEFINE new == [m EXCEPT !.pc = "persist", !.end = "completed"]
  <2>1. m.pc = "stage" /\ Becomes(r, new)
    BY <1>7 DEF EndOfChain
  <2>2. Same(m, new) /\ new.pc = "persist"
    BY <1>0 DEF Same, RunType
  <2> HIDE DEF new
  <2> QED BY <2>1, <2>2, Became DEF BodyEffect, Working
<1>8. CASE Persist(r)
  <2>1. /\ m.pc = "persist"
        /\ \/ Becomes(r, [m EXCEPT !.pc = "unlock"])
           \/ Becomes(r, [m EXCEPT !.pc = "unlock", !.end = "error"])
           \/ \E n : Becomes(r, [m EXCEPT !.pc = "writing", !.revision = n])
    BY <1>8 DEF Persist, Raise
  <2>2. PICK new : /\ Becomes(r, new)
                   /\ \/ new = [m EXCEPT !.pc = "unlock"]
                      \/ new = [m EXCEPT !.pc = "unlock", !.end = "error"]
                      \/ \E n : new = [m EXCEPT !.pc = "writing", !.revision = n]
    BY <2>1
  <2>3. Same(m, new) /\ new.pc \in {"unlock", "writing"}
    <3>1. CASE new = [m EXCEPT !.pc = "unlock"]
      BY <1>0, <3>1 DEF Same, RunType
    <3>2. CASE new = [m EXCEPT !.pc = "unlock", !.end = "error"]
      BY <1>0, <3>2 DEF Same, RunType
    <3>3. ASSUME NEW n, new = [m EXCEPT !.pc = "writing", !.revision = n]
          PROVE  Same(m, new) /\ new.pc \in {"unlock", "writing"}
      BY <1>0, <3>3 DEF Same, RunType
    <3> QED BY <2>2, <3>1, <3>2, <3>3
  <2> QED BY <2>1, <2>2, <2>3, Became DEF BodyEffect, Working
<1>9. CASE Write(r)
  <2>1. m.pc = "writing" /\ Becomes(r, [m EXCEPT !.pc = "unlock"])
    BY <1>9 DEF Write
  <2>2. Same(m, [m EXCEPT !.pc = "unlock"]) /\ [m EXCEPT !.pc = "unlock"].pc = "unlock"
    BY <1>0 DEF Same, RunType
  <2> QED BY <2>1, <2>2, Became DEF BodyEffect, Working
<1> QED BY <1>1, <1>2, <1>3, <1>4, <1>5, <1>6, <1>7, <1>8, <1>9 DEF BodyStep

\* What the steps around the body do to their run.
HeadEffect(r) ==
  /\ \A q \in Runs \ {r} : run'[q] = run[q]
  /\ run'[r].pc \notin Working \ {"agent"}
  /\ run'[r].pc = "resolved" => Resolve(r)
  /\ run'[r].pc = "agent" => Begin(r)
  /\ \/ run[r].pc = "idle" /\ run'[r].pc = "locked" /\ ~lock /\ lock'
     \/ /\ run[r].pc \in Active /\ run'[r].pc \in {"resolved", "agent", "unlock"}
        /\ lock' = lock
     \/ run[r].pc \in Active /\ run'[r].pc \notin Active /\ ~lock'
     \/ run'[r].pc \notin Active /\ lock' = lock

LEMMA HeadEffects ==
  ASSUME TypeOK, NEW r \in Runs,
         Acquire(r) \/ Fails(r) \/ Resolve(r) \/ Begin(r) \/ Unlock(r)
           \/ WriteRunReceipt(r) \/ Crash(r)
  PROVE  HeadEffect(r)
<1> DEFINE m == run[r]
<1>0. m \in RunType
  BY DEF TypeOK
<1>r. ASSUME Raise(r)
      PROVE  run'[r].pc = "unlock" /\ \A q \in Runs \ {r} : run'[q] = run[q]
  <2>1. [m EXCEPT !.pc = "unlock", !.end = "error"].pc = "unlock"
    BY <1>0 DEF RunType
  <2> QED BY <1>r, <2>1, Became DEF Raise
<1>1. CASE Acquire(r)
  <2>1. PICK p : \/ ~lock /\ lock' /\ Becomes(r, [m EXCEPT !.pc = "locked", !.asked = p])
                 \/ /\ Becomes(r, [m EXCEPT !.pc = "ended", !.end = "already active"])
                    /\ lock' = lock
    BY <1>1 DEF Acquire, OpenExclusive, TypeOK
  <2>2. /\ [m EXCEPT !.pc = "locked", !.asked = p].pc = "locked"
        /\ [m EXCEPT !.pc = "ended", !.end = "already active"].pc = "ended"
    BY <1>0 DEF RunType
  <2>3. m.pc = "idle"
    BY <1>1 DEF Acquire
  <2> QED BY <2>1, <2>2, <2>3, Became DEF HeadEffect, Active, Working
<1>2. CASE Fails(r)
  BY <1>2, <1>r DEF Fails, HeadEffect, Active, Working
<1>3. CASE Resolve(r)
  <2>1. m.pc = "locked" /\ lock' = lock /\ (Raise(r) \/ \E p, c : Bind(r, p, c))
    BY <1>3 DEF Resolve, ResolvePaused, ResolveRequested
  <2>2. ASSUME NEW p, NEW c, Bind(r, p, c)
        PROVE  run'[r].pc = "resolved" /\ \A q \in Runs \ {r} : run'[q] = run[q]
    <3> DEFINE new == [m EXCEPT !.pc = "resolved", !.path = p, !.policy = c,
                                !.seen = checkpoints]
    <3>1. new.pc = "resolved" /\ Becomes(r, new)
      BY <1>0, <2>2 DEF RunType, Bind
    <3> HIDE DEF new
    <3> QED BY <3>1, Became
  <2>3. \/ run'[r].pc = "resolved" \/ run'[r].pc = "unlock"
    BY <2>1, <2>2, <1>r
  <2>4. \A q \in Runs \ {r} : run'[q] = run[q]
    BY <2>1, <2>2, <1>r
  <2> QED BY <1>3, <2>1, <2>3, <2>4 DEF HeadEffect, Active, Working
<1>4. CASE Begin(r)
  <2>1. m.pc = "resolved" /\ lock' = lock
    BY <1>4 DEF Begin
  <2>2. ASSUME NEW c, NEW p, NEW b, Begun(r, c, p, b)
        PROVE  run'[r].pc = "agent" /\ \A q \in Runs \ {r} : run'[q] = run[q]
    <3> DEFINE new == [m EXCEPT !.pc = "agent", !.policy = c, !.path = p,
                                !.binding = b, !.tools = work.tools]
    <3>1. new.pc = "agent" /\ Becomes(r, new)
      BY <1>0, <2>2 DEF RunType, Begun
    <3> HIDE DEF new
    <3> QED BY <3>1, Became
  <2> QED BY <1>4, <2>1, <2>2, <1>r, BeginEffect DEF HeadEffect, Active, Working
<1>5. CASE Unlock(r)
  <2>1. PICK pc \in {"returned", "ended"} : Becomes(r, Report(r, pc))
    BY <1>5 DEF Unlock
  <2>2. Report(r, pc).pc = pc
    BY <2>1, ReportType
  <2> QED BY <1>5, <2>1, <2>2, Became DEF Unlock, HeadEffect, Active, Working
<1>6. CASE WriteRunReceipt(r)
  <2>1. [m EXCEPT !.pc = "ended", !.receipted = TRUE].pc = "ended"
    BY <1>0 DEF RunType
  <2> QED BY <1>6, <2>1, Became DEF WriteRunReceipt, HeadEffect, Active, Working
<1>7. CASE Crash(r)
  <2> DEFINE new == [Report(r, "crashed") EXCEPT !.child = m.child, !.at = m.at]
  <2>1. Becomes(r, new) /\ lock' = lock
    BY <1>7 DEF Crash
  <2>2. new.pc = "crashed"
    BY ReportType DEF RunType
  <2> HIDE DEF new
  <2> QED BY <2>1, <2>2, Became DEF HeadEffect, Active, Working
<1> QED BY <1>1, <1>2, <1>3, <1>4, <1>5, <1>6, <1>7

-----------------------------------------------------------------------------
(* The places of the runs, and the lock. *)

\* Mutual exclusion: whoever is active has the lock, and is alone.
Mutex ==
  /\ \A r \in Runs : run[r].pc \in Active => lock
  /\ \A r, q \in Runs : run[r].pc \in Active /\ run[q].pc \in Active => r = q

Around(r) ==
  Acquire(r) \/ Fails(r) \/ Resolve(r) \/ Begin(r) \/ Unlock(r)
    \/ WriteRunReceipt(r) \/ Crash(r)

\* The steps of Next, those of a run by what part of it they belong to.
LEMMA NextSteps ==
  ASSUME Next
  PROVE  \/ \E r \in Runs : Around(r) \/ BodyStep(r)
         \/ EditContract \/ EditWorkspace \/ ClearStaleLock
BY DEF Next, RunStep, Around, BodyStep

LEMMA PlacedStep ==
  ASSUME TypeOK, Finite, Placed, Mutex, [Next]_vars
  PROVE  Placed' /\ Mutex'
<1>1. ASSUME NEW r \in Runs, BodyStep(r) PROVE Placed' /\ Mutex'
  <2>1. BodyEffect(r)
    BY <1>1, BodyEffects
  <2>2. run[r].at \in Nat
    BY DEF TypeOK, RunType
  <2>3. lock' = lock
    BY <1>1 DEF BodyStep, AgentContract, SpecBootstrap, ConflictGate, Plan, Gate,
                Complete, EndOfChain, Persist, Write
  <2>4. Placed'
    BY <2>1, <2>2 DEF BodyEffect, Placed
  <2>5. Mutex'
    BY <2>1, <2>3 DEF BodyEffect, Mutex, Active, Working
  <2> QED BY <2>4, <2>5
<1>2. ASSUME NEW r \in Runs, Around(r) PROVE Placed' /\ Mutex'
  <2>1. HeadEffect(r)
    BY <1>2, HeadEffects DEF Around
  <2>2. Placed'
    BY <2>1 DEF HeadEffect, Placed, Working
  <2>3. Mutex'
    BY <2>1 DEF HeadEffect, Mutex, Active
  <2> QED BY <2>2, <2>3
<1>3. CASE EditContract \/ EditWorkspace \/ UNCHANGED vars
  BY <1>3 DEF EditContract, EditWorkspace, vars, Placed, Mutex
<1>4. CASE ClearStaleLock
  BY <1>4 DEF ClearStaleLock, Busy, Placed, Mutex
<1> QED BY <1>1, <1>2, <1>3, <1>4, NextSteps

-----------------------------------------------------------------------------
(* The checkpoint history and the types. *)

\* The lock keeps what Persist has found out true until Write: the checkpoint to
\* be written still extends the history.
WriteReady ==
  \A r \in Runs : run[r].pc = "writing" =>
    run[r].policy # None /\ Verifies(checkpoints \union {Checkpoint(r)})

\* Only Write changes the checkpoint files.
LEMMA DiskKept ==
  ASSUME NEW r \in Runs, Around(r) \/ (BodyStep(r) /\ ~Write(r))
  PROVE  checkpoints' = checkpoints
BY DEF Around, BodyStep, Acquire, Fails, Resolve, Begin, Unlock, WriteRunReceipt, Crash,
       AgentContract, SpecBootstrap, ConflictGate, Plan, Gate, Skip, HaltAt, Pause,
       ExpandAndPause, Enroll, Receipt, Complete, EndOfChain, Persist, disk

LEMMA PersistEffect ==
  ASSUME TypeOK, NEW r \in Runs, Persist(r), run'[r].pc = "writing"
  PROVE  run'[r].policy # None /\ Verifies(checkpoints \union {Checkpoint(r)'})
<1> DEFINE m == run[r]
           next == Cardinality(checkpoints) + 1
           new == [m EXCEPT !.pc = "writing", !.revision = next]
<1>0. m \in RunType
  BY DEF TypeOK
<1>1. /\ m.policy # None
      /\ Verifies(checkpoints \union {[Checkpoint(r) EXCEPT !.revision = next]})
      /\ Becomes(r, new)
  <2>1. /\ [m EXCEPT !.pc = "unlock"].pc = "unlock"
        /\ [m EXCEPT !.pc = "unlock", !.end = "error"].pc = "unlock"
    BY <1>0 DEF RunType
  <2>2. ~Raise(r) /\ ~Becomes(r, [m EXCEPT !.pc = "unlock"])
    BY <2>1, Became DEF Raise
  <2> QED BY <2>2 DEF Persist
<1>2. run'[r] = new
  BY <1>1, Became
<1>3. /\ new.policy = m.policy /\ new.path = m.path /\ new.seen = m.seen
      /\ new.end = m.end /\ new.revision = next
  BY <1>0 DEF RunType
<1> HIDE DEF new
<1>4. Checkpoint(r)' = [Checkpoint(r) EXCEPT !.revision = next]
  BY <1>2, <1>3 DEF Checkpoint
<1> QED BY <1>1, <1>2, <1>3, <1>4

LEMMA HistoryStep ==
  ASSUME TypeOK, Finite, Placed, Mutex, HistoryVerifies, WriteReady, [Next]_vars
  PROVE  HistoryVerifies' /\ WriteReady'
<1>1. ASSUME NEW r \in Runs, Around(r) \/ (BodyStep(r) /\ ~Write(r))
      PROVE  HistoryVerifies' /\ WriteReady'
  <2>1. checkpoints' = checkpoints
    BY <1>1, DiskKept
  <2>2. HistoryVerifies'
    BY <2>1 DEF HistoryVerifies, Verifies, PolicyOf
  <2>3. \A q \in Runs \ {r} : run'[q] = run[q]
    BY <1>1, HeadEffects, BodyEffects DEF Around, HeadEffect, BodyEffect
  <2>4. ASSUME run'[r].pc = "writing" PROVE Persist(r)
    <3>1. ~Around(r)
      BY <2>4, HeadEffects DEF Around, HeadEffect, Working
    <3>2. run[r].pc = "persist"
      BY <1>1, <2>4, <3>1, BodyEffects DEF BodyEffect
    <3> QED BY <1>1, <3>1, <3>2 DEF BodyStep, AgentContract, SpecBootstrap,
              ConflictGate, Plan, Gate, Complete, EndOfChain
  <2>5. ASSUME NEW q \in Runs, run'[q].pc = "writing"
        PROVE  run'[q].policy # None /\ Verifies(checkpoints \union {Checkpoint(q)'})
    <3>1. CASE q = r
      BY <2>4, <2>5, <3>1, PersistEffect
    <3>2. CASE q # r
      BY <2>3, <2>5, <3>2 DEF WriteReady, Checkpoint
    <3> QED BY <3>1, <3>2
  <2>6. WriteReady'
    BY <2>1, <2>5 DEF WriteReady, Verifies, PolicyOf
  <2> QED BY <2>2, <2>6
<1>2. ASSUME NEW r \in Runs, Write(r) PROVE HistoryVerifies' /\ WriteReady'
  <2>1. run[r].pc = "writing" /\ checkpoints' = checkpoints \union {Checkpoint(r)}
    BY <1>2 DEF Write
  <2>2. HistoryVerifies'
    BY <2>1 DEF WriteReady, HistoryVerifies, Verifies, PolicyOf
  <2>3. \A q \in Runs : run'[q].pc # "writing"
    <3>1. run'[r].pc = "unlock" /\ \A q \in Runs \ {r} : run'[q] = run[q]
      <4>1. [run[r] EXCEPT !.pc = "unlock"].pc = "unlock"
        BY DEF TypeOK, RunType
      <4> QED BY <1>2, <4>1, Became DEF Write
    <3> QED BY <2>1, <3>1 DEF Mutex, Active
  <2> QED BY <2>2, <2>3 DEF WriteReady
<1>3. CASE EditContract \/ EditWorkspace \/ ClearStaleLock \/ UNCHANGED vars
  <2>1. checkpoints' = checkpoints /\ run' = run
    BY <1>3 DEF EditContract, EditWorkspace, ClearStaleLock, vars, disk
  <2> QED BY <2>1 DEF HistoryVerifies, WriteReady, Verifies, PolicyOf, Checkpoint
<1> QED BY <1>1, <1>2, <1>3, NextSteps DEF BodyStep

\* A receipt that is completed stays a receipt.
LEMMA CompleteType ==
  ASSUME TypeOK, NEW r \in Runs, Complete(r)
  PROVE  receipts' \in [Stages -> Seq(Attempts)]
<1> DEFINE s == Chain[run[r].at]
           row(ok, i) == IF receipts[s][i].run = r
                         THEN [receipts[s][i] EXCEPT !.ok = ok] ELSE receipts[s][i]
<1>1. receipts \in [Stages -> Seq(Attempts)]
  BY DEF TypeOK
<1>2. PICK ok \in BOOLEAN :
        receipts' = [receipts EXCEPT ![s] = [i \in DOMAIN receipts[s] |-> row(ok, i)]]
  BY DEF Complete
<1>3. ASSUME s \in Stages PROVE [i \in DOMAIN receipts[s] |-> row(ok, i)] \in Seq(Attempts)
  <2>1. receipts[s] \in Seq(Attempts)
    BY <1>1, <1>3
  <2>2. DOMAIN receipts[s] = 1..Len(receipts[s]) /\ Len(receipts[s]) \in Nat
    BY <2>1
  <2>3. \A i \in 1..Len(receipts[s]) : receipts[s][i] \in Attempts
    BY <2>1
  <2>4. \A i \in 1..Len(receipts[s]) : row(ok, i) \in Attempts
    BY <2>3 DEF Attempts
  <2> HIDE DEF row
  <2>5. [i \in 1..Len(receipts[s]) |-> row(ok, i)] \in [1..Len(receipts[s]) -> Attempts]
    BY <2>4
  <2> QED BY <2>2, <2>5
<1> HIDE DEF row
<1> QED BY <1>1, <1>2, <1>3

LEMMA TypeStep ==
  ASSUME TypeOK, Finite, Placed, Mutex, WriteReady, [Next]_vars
  PROVE  TypeOK' /\ Finite'
<1>0. /\ lock \in BOOLEAN /\ files \in Nat
      /\ checkpoints \in SUBSET CheckpointType /\ IsFiniteSet(checkpoints)
      /\ receipts \in [Stages -> Seq(Attempts)]
      /\ file \in [Paths -> Contracts \union {Absent, Garbled}]
      /\ bound \in SUBSET Contracts /\ work \in Workspaces
  BY DEF TypeOK, Finite
<1>1. ASSUME NEW r \in Runs, Around(r) \/ BodyStep(r) PROVE TypeOK' /\ Finite'
  <2>1. RunsTyped'
    BY <1>1, HeadTyped, BodyTyped DEF Around
  <2>2. lock' \in BOOLEAN /\ UNCHANGED world
    BY <1>0, <1>1 DEF Around, BodyStep, Acquire, Fails, Resolve, Begin, Unlock,
       WriteRunReceipt, Crash, AgentContract, SpecBootstrap, ConflictGate, Plan, Gate,
       Complete, EndOfChain, Persist, Write, world
  <2>3. receipts' \in [Stages -> Seq(Attempts)] /\ files' \in Nat
    <3>1. CASE Complete(r)
      BY <1>0, <3>1, CompleteType DEF Complete
    <3>2. CASE SpecBootstrap(r)
      BY <1>0, <3>2, ReceiptType, StageFacts DEF SpecBootstrap, disk
    <3>3. CASE Gate(r)
      <4> DEFINE s == Chain[run[r].at]
      <4>1. s \in Stages
        BY <3>3, StageFacts DEF Gate, Placed
      <4>2. CASE Receipt(r, s, Enrolled(r))
        BY <4>1, <4>2, ReceiptType DEF Enrolled
      <4>3. CASE \E ok \in BOOLEAN : Receipt(r, Expand, ok)
        BY <4>3, ReceiptType, StageFacts
      <4>4. CASE UNCHANGED disk
        BY <1>0, <4>4 DEF disk
      <4> QED BY <3>3, <4>2, <4>3, <4>4 DEF Gate, Skip, HaltAt, Pause, ExpandAndPause,
                Enroll
    <3>4. CASE Write(r)
      BY <1>0, <3>4 DEF Write
    <3> QED BY <1>0, <1>1, <3>1, <3>2, <3>3, <3>4 DEF Around, BodyStep, Acquire, Fails,
          Resolve, Begin, Unlock, WriteRunReceipt, Crash, AgentContract,
          ConflictGate, Plan, EndOfChain, Persist, disk
  <2>4. checkpoints' \in SUBSET CheckpointType /\ IsFiniteSet(checkpoints')
    <3>1. CASE Write(r)
      <4> DEFINE m == run[r]
      <4>1. m \in RunType /\ m.policy # None /\ m.path # None /\ IsFiniteSet(m.seen)
        BY <3>1 DEF Write, WriteReady, TypeOK, Finite
      <4>2. Cardinality(m.seen) \in Int
        BY <4>1, FS_CardinalityType
      <4>3. Checkpoint(r) \in CheckpointType
        BY <4>1, <4>2 DEF Checkpoint, CheckpointType, RunType
      <4>4. checkpoints' = checkpoints \union {Checkpoint(r)}
        BY <3>1 DEF Write
      <4> QED BY <1>0, <4>3, <4>4, FS_AddElement
    <3> QED BY <1>0, <1>1, <3>1, DiskKept
  <2> QED BY <1>0, <2>1, <2>2, <2>3, <2>4 DEF TypeOK, Finite, RunsTyped, GoodRun, world
<1>2. CASE EditContract
  <2>1. file' \in [Paths -> Contracts \union {Absent, Garbled}] /\ bound' \in SUBSET Contracts
    BY <1>0, <1>2 DEF EditContract
  <2>2. UNCHANGED <<lock, checkpoints, receipts, files, work, run>>
    BY <1>2 DEF EditContract, disk
  <2> QED BY <2>1, <2>2 DEF TypeOK, Finite
<1>3. CASE EditWorkspace
  BY <1>3 DEF EditWorkspace, TypeOK, Finite, disk
<1>4. CASE ClearStaleLock
  BY <1>4 DEF ClearStaleLock, TypeOK, Finite, disk, world
<1>5. CASE UNCHANGED vars
  BY <1>5 DEF vars, TypeOK, Finite
<1> QED BY <1>1, <1>2, <1>3, <1>4, <1>5, NextSteps

-----------------------------------------------------------------------------
(* The contract a run is bound to. *)

\* From binding to checkpoint, a run has seen the history as it is, and if that
\* ends with a paused run it has taken over that run's contract.
BoundFor(r) ==
  /\ run[r].pc \in Working =>
       /\ run[r].seen = checkpoints
       /\ run[r].policy # None => run[r].binding = run[r].policy
  /\ run[r].pc \in Working \union {"resolved"} /\ Waiting(run[r].seen) =>
       PolicyOf(run[r]) = PolicyOf(Latest(run[r].seen))
BoundRight == \A r \in Runs : BoundFor(r)

\* What a paused run hands on is a contract, not the absence of one.
LEMMA LatestPolicy ==
  ASSUME TypeOK, Finite, HistoryVerifies, Waiting(checkpoints)
  PROVE  Latest(checkpoints).policy # None /\ Latest(checkpoints) \in CheckpointType
<1>1. Latest(checkpoints) \in checkpoints
  BY LatestIn DEF Waiting, HistoryVerifies, Finite
<1>2. Latest(checkpoints) \in CheckpointType
  BY <1>1 DEF TypeOK
<1> QED BY <1>2, NoneIsNothing DEF CheckpointType

LEMMA BoundHolds ==
  ASSUME TypeOK, Finite, HistoryVerifies, BoundRight
  PROVE  PausedPolicyHolds
<1> SUFFICES ASSUME Waiting(checkpoints), NEW r \in Runs, run[r].pc \in Working
             PROVE  /\ PolicyOf(run[r]) = PolicyOf(Latest(checkpoints))
                    /\ run[r].binding = run[r].policy
  BY DEF PausedPolicyHolds
<1>1. /\ PolicyOf(run[r]) = PolicyOf(Latest(checkpoints))
      /\ run[r].policy # None => run[r].binding = run[r].policy
  BY DEF BoundRight, BoundFor
<1> QED BY <1>1, LatestPolicy DEF PolicyOf

LEMMA ResolveBound ==
  ASSUME TypeOK, NEW r \in Runs, Resolve(r), run'[r].pc = "resolved",
         Waiting(run'[r].seen)
  PROVE  PolicyOf(run'[r]) = PolicyOf(Latest(run'[r].seen))
<1> DEFINE m == run[r]
<1>0. m \in RunType
  BY DEF TypeOK
<1>1. ~Raise(r)
  <2>1. [m EXCEPT !.pc = "unlock", !.end = "error"].pc = "unlock"
    BY <1>0 DEF RunType
  <2> QED BY <2>1, Became DEF Raise
<1>2. ASSUME NEW p, NEW c, Bind(r, p, c)
      PROVE  run'[r].seen = checkpoints /\ run'[r].path = p /\ run'[r].policy = c
  <2> DEFINE new == [m EXCEPT !.pc = "resolved", !.path = p, !.policy = c,
                              !.seen = checkpoints]
  <2>1. new.seen = checkpoints /\ new.path = p /\ new.policy = c
    BY <1>0 DEF RunType
  <2>2. Becomes(r, new)
    BY <1>2 DEF Bind
  <2> HIDE DEF new
  <2> QED BY <2>1, <2>2, Became
<1>3. \E p, c : Bind(r, p, c)
  BY <1>1 DEF Resolve, ResolvePaused, ResolveRequested
<1>4. Waiting(checkpoints) /\ ResolvePaused(r)
  BY <1>1, <1>2, <1>3 DEF Resolve
<1>5. Bind(r, Latest(checkpoints).path, Latest(checkpoints).policy)
  BY <1>1, <1>4 DEF ResolvePaused
<1> QED BY <1>2, <1>5 DEF PolicyOf

LEMMA BoundStep ==
  ASSUME TypeOK, Finite, Placed, Mutex, HistoryVerifies, BoundRight, [Next]_vars
  PROVE  BoundRight'
<1>1. ASSUME NEW r \in Runs, BodyStep(r), ~Write(r) PROVE BoundRight'
  <2>1. BodyEffect(r) /\ checkpoints' = checkpoints
    BY <1>1, BodyEffects, DiskKept
  <2> QED BY <2>1 DEF BodyEffect, BoundRight, BoundFor, Same, PolicyOf, Working, Waiting, Latest
<1>2. ASSUME NEW r \in Runs, Write(r) PROVE BoundRight'
  <2>1. BodyEffect(r) /\ run[r].pc = "writing"
    BY <1>2, BodyEffects DEF BodyStep, Write
  <2>2. \A q \in Runs : run'[q].pc \notin Working \union {"resolved"}
    <3>1. run'[r].pc = "unlock"
      <4>1. [run[r] EXCEPT !.pc = "unlock"].pc = "unlock"
        BY DEF TypeOK, RunType
      <4> QED BY <1>2, <4>1, Became DEF Write
    <3> QED BY <2>1, <3>1 DEF BodyEffect, Mutex, Active, Working
  <2> QED BY <2>2 DEF BoundRight, BoundFor
<1>3. ASSUME NEW r \in Runs, Around(r) PROVE BoundRight'
  <2>1. HeadEffect(r) /\ checkpoints' = checkpoints
    BY <1>3, HeadEffects, DiskKept DEF Around
  <2>0. \A q \in Runs \ {r} : BoundFor(q)'
    BY <2>1 DEF HeadEffect, BoundRight, BoundFor, Waiting, Latest, PolicyOf
  <2>2. CASE run'[r].pc = "resolved"
    <3>1. Resolve(r)
      BY <2>1, <2>2 DEF HeadEffect
    <3>2. Waiting(run'[r].seen) => PolicyOf(run'[r]) = PolicyOf(Latest(run'[r].seen))
      BY <2>2, <3>1, ResolveBound
    <3>3. BoundFor(r)'
      BY <2>2, <3>2 DEF BoundFor, Working, Waiting, Latest, PolicyOf
    <3> QED BY <2>0, <3>3 DEF BoundRight
  <2>3. CASE run'[r].pc = "agent"
    <3> DEFINE m == run[r]
    <3>1. Begin(r) /\ m.pc = "resolved" /\ m \in RunType
      BY <2>1, <2>3 DEF HeadEffect, Begin, TypeOK
    <3>2. ~Raise(r)
      <4>1. [m EXCEPT !.pc = "unlock", !.end = "error"].pc = "unlock"
        BY <3>1 DEF RunType
      <4> QED BY <2>3, <4>1, Became DEF Raise
    <3>3. PICK c, p, b : Begun(r, c, p, b)
      BY <3>1, <3>2, BeginEffect
    <3>4. /\ run'[r].seen = checkpoints /\ run'[r].policy = c /\ run'[r].path = p
          /\ run'[r].binding = b
      <4> DEFINE new == [m EXCEPT !.pc = "agent", !.policy = c, !.path = p,
                                  !.binding = b, !.tools = work.tools]
      <4>1. new.seen = m.seen /\ new.policy = c /\ new.path = p /\ new.binding = b
        BY <3>1 DEF RunType
      <4>2. Becomes(r, new) /\ m.seen = checkpoints
        BY <3>3 DEF Begun
      <4> HIDE DEF new
      <4> QED BY <4>1, <4>2, Became
    <3>5. Waiting(checkpoints) => c = m.policy /\ p = m.path
                                  /\ PolicyOf(m) = PolicyOf(Latest(checkpoints))
      BY <3>1, <3>3, LatestPolicy DEF Begun, BoundRight, BoundFor, PolicyOf
    <3>6. c # None => b = c
      BY <3>3 DEF Begun
    <3>7. BoundFor(r)'
      BY <2>1, <3>4, <3>5, <3>6 DEF BoundFor, PolicyOf, Waiting, Latest
    <3> QED BY <2>0, <3>7 DEF BoundRight
  <2>4. CASE run'[r].pc \notin {"resolved", "agent"}
    BY <2>1, <2>4 DEF HeadEffect, BoundRight, BoundFor, Working, Waiting, Latest, PolicyOf
  <2> QED BY <2>2, <2>3, <2>4
<1>4. CASE EditContract \/ EditWorkspace \/ ClearStaleLock \/ UNCHANGED vars
  <2>1. checkpoints' = checkpoints /\ run' = run
    BY <1>4 DEF EditContract, EditWorkspace, ClearStaleLock, vars, disk
  <2> QED BY <2>1 DEF BoundRight, BoundFor, PolicyOf, Waiting, Latest
<1> QED BY <1>1, <1>2, <1>3, <1>4, NextSteps

-----------------------------------------------------------------------------
(* The record of the attempts. *)

\* A run with a child is executing it, or has failed or died since.
ChildPlace(r) ==
  run[r].child => /\ run[r].pc \in {"executing", "unlock", "crashed"}
                  /\ run[r].at \in 1..Len(Chain)
OnRecord(r) ==
  run[r].child =>
    LET s == Chain[run[r].at]
    IN \E i \in DOMAIN receipts[s] : receipts[s][i].run = r /\ ~receipts[s][i].ok
Recorded == \A r \in Runs : ChildPlace(r) /\ OnRecord(r)

\* Receipts are never taken away, and changed only by the run they belong to.
Grow(r) ==
  \A s \in Stages : \A i \in DOMAIN receipts[s] :
    /\ i \in DOMAIN receipts'[s]
    /\ receipts[s][i].run # r => receipts'[s][i] = receipts[s][i]

LEMMA AppendGrows ==
  ASSUME TypeOK, NEW r \in Runs, NEW s \in Stages, NEW ok \in BOOLEAN, Receipt(r, s, ok)
  PROVE  /\ Grow(r)
         /\ \E i \in DOMAIN receipts'[s] : /\ receipts'[s][i].run = r
                                          /\ receipts'[s][i].ok = ok
<1> DEFINE row == [run |-> r, ok |-> ok, binding |-> run[r].binding]
           n == Len(receipts[s])
<1>0. receipts \in [Stages -> Seq(Attempts)]
  BY DEF TypeOK
<1>1. receipts' = [receipts EXCEPT ![s] = Append(receipts[s], row)]
  BY DEF Receipt
<1>2. row.run = r /\ row.ok = ok
  OBVIOUS
<1>3. row \in Attempts
  BY DEF TypeOK, RunType, Attempts
<1> HIDE DEF row
<1>4. /\ receipts[s] \in Seq(Attempts) /\ n \in Nat
      /\ DOMAIN receipts[s] = 1..n
  BY <1>0
<1>5. /\ DOMAIN Append(receipts[s], row) = 1..(n + 1)
      /\ \A i \in 1..n : Append(receipts[s], row)[i] = receipts[s][i]
      /\ Append(receipts[s], row)[n + 1] = row
  BY <1>3, <1>4
<1>6. receipts'[s] = Append(receipts[s], row)
  BY <1>0, <1>1
<1>7. \A t \in Stages : t # s => receipts'[t] = receipts[t]
  BY <1>0, <1>1
<1>8. \A i \in 1..n : i \in 1..(n + 1)
  BY <1>4
<1>9. n + 1 \in 1..(n + 1)
  BY <1>4
<1> QED BY <1>2, <1>4, <1>5, <1>6, <1>7, <1>8, <1>9 DEF Grow

LEMMA CompleteGrows ==
  ASSUME TypeOK, Placed, NEW r \in Runs, Complete(r)
  PROVE  Grow(r) /\ ~run'[r].child
<1> DEFINE s == Chain[run[r].at]
           row(ok, i) == IF receipts[s][i].run = r
                         THEN [receipts[s][i] EXCEPT !.ok = ok] ELSE receipts[s][i]
<1>0. receipts \in [Stages -> Seq(Attempts)] /\ run[r] \in RunType
  BY DEF TypeOK
<1>1. PICK ok \in BOOLEAN :
        receipts' = [receipts EXCEPT ![s] = [i \in DOMAIN receipts[s] |-> row(ok, i)]]
  BY DEF Complete
<1>2. s \in Stages
  BY StageFacts DEF Complete, Placed
<1>3. Grow(r)
  BY <1>0, <1>1, <1>2 DEF Grow
<1>4. \/ Becomes(r, [Continues(r) EXCEPT !.child = FALSE, !.passed = @ \union {s}])
      \/ Becomes(r, [Halted(r, s) EXCEPT !.child = FALSE])
  BY DEF Complete
<1>5. /\ ~[Continues(r) EXCEPT !.child = FALSE, !.passed = @ \union {s}].child
      /\ ~[Halted(r, s) EXCEPT !.child = FALSE].child
  BY <1>0 DEF Continues, Halted, RunType
<1> QED BY <1>3, <1>4, <1>5, Became

\* The files of the other stages and runs are left alone by every step.
LEMMA StepGrows ==
  ASSUME TypeOK, Placed, NEW r \in Runs, Around(r) \/ BodyStep(r)
  PROVE  Grow(r)
<1>1. CASE Complete(r)
  BY <1>1, CompleteGrows
<1>2. CASE SpecBootstrap(r)
  <2>1. CASE UNCHANGED disk
    BY <2>1 DEF disk, Grow
  <2> QED BY <1>2, <2>1, AppendGrows, StageFacts DEF SpecBootstrap
<1>3. CASE Gate(r)
  <2> DEFINE s == Chain[run[r].at]
  <2>1. s \in Stages
    BY <1>3, StageFacts DEF Gate, Placed
  <2>2. CASE Receipt(r, s, Enrolled(r))
    BY <2>1, <2>2, AppendGrows DEF Enrolled
  <2>3. CASE \E ok \in BOOLEAN : Receipt(r, Expand, ok)
    BY <2>3, AppendGrows, StageFacts
  <2>4. CASE UNCHANGED disk
    BY <2>4 DEF disk, Grow
  <2> QED BY <1>3, <2>2, <2>3, <2>4 DEF Gate, Skip, HaltAt, Pause, ExpandAndPause, Enroll
<1>4. CASE UNCHANGED receipts
  BY <1>4 DEF Grow
<1> QED BY <1>1, <1>2, <1>3, <1>4 DEF Around, BodyStep, Acquire, Fails, Resolve, Begin,
      Unlock, WriteRunReceipt, Crash, AgentContract, ConflictGate, Plan, EndOfChain,
      Persist, Write, disk

\* What is on record for another run stays on record.
LEMMA OthersRecorded ==
  ASSUME TypeOK, NEW r \in Runs, NEW q \in Runs, q # r, run'[q] = run[q],
         Grow(r), ChildPlace(q), OnRecord(q)
  PROVE  ChildPlace(q)' /\ OnRecord(q)'
<1>1. ChildPlace(q)'
  BY DEF ChildPlace
<1>2. ASSUME run[q].child PROVE OnRecord(q)'
  <2> DEFINE s == Chain[run[q].at]
  <2>1. s \in Stages
    BY <1>2, StageFacts DEF ChildPlace
  <2>2. PICK i \in DOMAIN receipts[s] : receipts[s][i].run = q /\ ~receipts[s][i].ok
    BY <1>2 DEF OnRecord
  <2>3. i \in DOMAIN receipts'[s] /\ receipts'[s][i] = receipts[s][i]
    BY <2>1, <2>2 DEF Grow
  <2> QED BY <2>2, <2>3 DEF OnRecord
<1> QED BY <1>1, <1>2 DEF OnRecord

\* Outside the body a run keeps its child only when it fails or dies.
LEMMA HeadChild ==
  ASSUME TypeOK, NEW r \in Runs, Around(r), ChildPlace(r), run'[r].child
  PROVE  /\ run[r].child /\ run'[r].at = run[r].at
         /\ run'[r].pc \in {"unlock", "crashed"} /\ receipts' = receipts
<1> DEFINE m == run[r]
<1>0. m \in RunType /\ (m.child => m.pc \in {"executing", "unlock", "crashed"})
  BY DEF TypeOK, ChildPlace
<1>r. ASSUME Raise(r)
      PROVE  m.child /\ run'[r].at = m.at /\ run'[r].pc = "unlock"
  <2> DEFINE new == [m EXCEPT !.pc = "unlock", !.end = "error"]
  <2>1. new.child = m.child /\ new.at = m.at /\ new.pc = "unlock"
    BY <1>0 DEF RunType
  <2> HIDE DEF new
  <2>2. Becomes(r, new)
    BY <1>r DEF Raise, new
  <2> QED BY <2>1, <2>2, Became
<1>1. CASE Acquire(r)
  <2>1. PICK p : \/ Becomes(r, [m EXCEPT !.pc = "locked", !.asked = p])
                 \/ Becomes(r, [m EXCEPT !.pc = "ended", !.end = "already active"])
    BY <1>1 DEF Acquire
  <2>2. /\ [m EXCEPT !.pc = "locked", !.asked = p].child = m.child
        /\ [m EXCEPT !.pc = "ended", !.end = "already active"].child = m.child
    BY <1>0 DEF RunType
  <2> QED BY <1>0, <1>1, <2>1, <2>2, Became DEF Acquire
<1>2. CASE Fails(r)
  BY <1>2, <1>r DEF Fails, disk
<1>3. CASE Resolve(r)
  <2>1. m.pc = "locked" /\ (Raise(r) \/ \E p, c : Bind(r, p, c))
    BY <1>3 DEF Resolve, ResolvePaused, ResolveRequested
  <2>2. ASSUME NEW p, NEW c, Bind(r, p, c) PROVE m.child
    <3> DEFINE new == [m EXCEPT !.pc = "resolved", !.path = p, !.policy = c,
                                !.seen = checkpoints]
    <3>1. new.child = m.child /\ Becomes(r, new)
      BY <1>0, <2>2 DEF RunType, Bind
    <3> HIDE DEF new
    <3> QED BY <3>1, Became
  <2> QED BY <1>0, <1>r, <2>1, <2>2
<1>4. CASE Begin(r)
  <2>1. ASSUME NEW c, NEW p, NEW b, Begun(r, c, p, b) PROVE m.child
    <3> DEFINE new == [m EXCEPT !.pc = "agent", !.policy = c, !.path = p,
                                !.binding = b, !.tools = work.tools]
    <3>1. new.child = m.child /\ Becomes(r, new)
      BY <1>0, <2>1 DEF RunType, Begun
    <3> HIDE DEF new
    <3> QED BY <3>1, Became
  <2>2. m.pc = "resolved"
    BY <1>4 DEF Begin
  <2> QED BY <1>0, <1>4, <1>r, <2>1, <2>2, BeginEffect
<1>5. CASE Unlock(r)
  <2>1. PICK pc \in {"returned", "ended"} : Becomes(r, Report(r, pc))
    BY <1>5 DEF Unlock
  <2> QED BY <2>1, ReportType, Became
<1>6. CASE WriteRunReceipt(r)
  <2>1. [m EXCEPT !.pc = "ended", !.receipted = TRUE].child = m.child
    BY <1>0 DEF RunType
  <2> QED BY <1>0, <1>6, <2>1, Became DEF WriteRunReceipt
<1>7. CASE Crash(r)
  <2> DEFINE new == [Report(r, "crashed") EXCEPT !.child = m.child, !.at = m.at]
  <2>1. Becomes(r, new) /\ receipts' = receipts
    BY <1>7 DEF Crash, disk
  <2>2. new.pc = "crashed" /\ new.child = m.child /\ new.at = m.at
    BY ReportType DEF RunType
  <2> HIDE DEF new
  <2> QED BY <2>1, <2>2, Became
<1> QED BY <1>1, <1>2, <1>3, <1>4, <1>5, <1>6, <1>7 DEF Around

\* A step of the body that leaves a child is the start of that child.
LEMMA BodyChild ==
  ASSUME TypeOK, Finite, Placed, NEW r \in Runs, BodyStep(r), ChildPlace(r),
         run'[r].child
  PROVE  run'[r].pc = "executing" /\ Enroll(r, Chain[run[r].at])
<1> DEFINE m == run[r]
           s == Chain[m.at]
<1>1. BodyEffect(r)
  BY BodyEffects
<1>2. run'[r].pc = "executing"
  <2>1. CASE m.child
    <3>1. m.pc = "executing"
      BY <1>1, <2>1 DEF ChildPlace, BodyEffect, Working
    <3>2. Complete(r)
      BY <3>1 DEF BodyStep, AgentContract, SpecBootstrap, ConflictGate, Plan, Gate,
                  EndOfChain, Persist, Write
    <3> QED BY <3>2, CompleteGrows
  <2>2. CASE ~m.child
    BY <1>1, <2>2 DEF BodyEffect, Same
  <2> QED BY <2>1, <2>2
<1> QED BY <1>1, <1>2 DEF BodyEffect

LEMMA RecordedStep ==
  ASSUME TypeOK, Finite, Placed, Recorded, [Next]_vars
  PROVE  Recorded'
<1>1. ASSUME NEW r \in Runs, Around(r) \/ BodyStep(r) PROVE Recorded'
  <2>1. Grow(r) /\ \A q \in Runs \ {r} : run'[q] = run[q]
    BY <1>1, StepGrows, HeadEffects, BodyEffects DEF Around, HeadEffect, BodyEffect
  <2>2. \A q \in Runs \ {r} : ChildPlace(q)' /\ OnRecord(q)'
    BY <2>1, OthersRecorded DEF Recorded
  <2>3. ASSUME run'[r].child PROVE ChildPlace(r)' /\ OnRecord(r)'
    <3>0. ChildPlace(r) /\ OnRecord(r)
      BY DEF Recorded
    <3>1. CASE Around(r)
      <4>1. /\ run[r].child /\ run'[r].at = run[r].at
            /\ run'[r].pc \in {"unlock", "crashed"} /\ receipts' = receipts
        BY <2>3, <3>0, <3>1, HeadChild
      <4> QED BY <3>0, <4>1 DEF ChildPlace, OnRecord
    <3>2. CASE BodyStep(r)
      <4> DEFINE s == Chain[run[r].at]
      <4>1. run'[r].pc = "executing" /\ Enroll(r, s)
        BY <2>3, <3>0, <3>2, BodyChild
      <4>2. run'[r].at = run[r].at /\ run[r].at \in 1..Len(Chain)
        BY <3>2, <4>1, BodyEffects DEF BodyEffect
      <4>3. s \in Stages
        BY <4>2, StageFacts
      <4>4. \E i \in DOMAIN receipts'[s] :
              receipts'[s][i].run = r /\ receipts'[s][i].ok = FALSE
        BY <4>1, <4>3, AppendGrows DEF Enroll, Enrolled
      <4> QED BY <4>1, <4>2, <4>4 DEF ChildPlace, OnRecord
    <3> QED BY <1>1, <3>1, <3>2
  <2>4. ChildPlace(r)' /\ OnRecord(r)'
    BY <2>3 DEF ChildPlace, OnRecord
  <2> QED BY <2>2, <2>4 DEF Recorded
<1>2. CASE EditContract \/ EditWorkspace \/ ClearStaleLock \/ UNCHANGED vars
  <2>1. receipts' = receipts /\ run' = run
    BY <1>2 DEF EditContract, EditWorkspace, ClearStaleLock, vars, disk
  <2> QED BY <2>1 DEF Recorded, ChildPlace, OnRecord
<1> QED BY <1>1, <1>2, NextSteps

-----------------------------------------------------------------------------
(* What a completed run has passed. *)

AtStart(r) ==
  run[r].pc \in {"idle", "locked", "resolved", "agent", "spec", "nfr"} => run[r].at = 0

\* The stages before place n that contract c requires have passed in run r.
PassedBefore(r, c, n) ==
  \A i \in 1..Len(Chain) :
    i < n /\ Chain[i] \in Required[c] => Chain[i] \in run[r].passed

\* A run has passed what its contract required so far; it is at the gates of a
\* stage it requires only with the files that stage asks for; and it calls itself
\* completed only with all it required.
Progress(r) ==
  LET c == run[r].policy
  IN c # None =>
       /\ run[r].pc \in {"stage", "gates", "executing"} => PassedBefore(r, c, run[r].at)
       /\ run[r].pc = "gates" /\ Chain[run[r].at] \in Required[c] =>
            run[r].required /\ ~ScopeMissing(Chain[run[r].at])
       /\ run[r].pc \in {"persist", "writing"} /\ run[r].end = "completed" =>
            Required[c] \subseteq run[r].passed

Progressing == \A r \in Runs : AtStart(r) /\ Progress(r)

\* Nothing is claimed of a run that has halted, paused or is about to unlock.
LEMMA NothingClaimed ==
  ASSUME NEW r \in Runs,
         \/ run'[r].pc \in {"unlock", "returned", "ended", "crashed"}
         \/ run'[r].pc = "persist" /\ run'[r].end \in {"halted", "paused"}
  PROVE  AtStart(r)' /\ Progress(r)'
BY DEF AtStart, Progress

\* Nor of one that has not come to the chain, but that it is at its start.
LEMMA StartClaimed ==
  ASSUME NEW r \in Runs, AtStart(r), run'[r].at = run[r].at,
         run[r].pc \in {"idle", "locked", "resolved", "agent", "spec", "nfr"},
         run'[r].pc \in {"locked", "resolved", "agent", "spec", "nfr"}
  PROVE  AtStart(r)' /\ Progress(r)'
BY DEF AtStart, Progress

\* A run that goes on to the next place, having passed the stage it was at or not
\* having had to.
LEMMA NextPlace ==
  ASSUME TypeOK, NEW r \in Runs, run[r].at \in 1..Len(Chain),
         run[r].pc \in {"gates", "executing"}, Progress(r),
         Same(run[r], run'[r]), run'[r].pc = "stage", run'[r].at = run[r].at + 1,
         \/ Chain[run[r].at] \in run'[r].passed
         \/ run[r].policy # None => Chain[run[r].at] \notin Required[run[r].policy]
  PROVE  AtStart(r)' /\ Progress(r)'
<1> DEFINE c == run[r].policy
<1>1. run'[r].policy = c /\ run[r].passed \subseteq run'[r].passed
  BY DEF Same
<1>2. ASSUME c # None, NEW i \in 1..Len(Chain), i < run[r].at + 1,
             Chain[i] \in Required[c]
      PROVE  Chain[i] \in run'[r].passed
  <2>1. PassedBefore(r, c, run[r].at)
    BY <1>2 DEF Progress
  <2>2. CASE i < run[r].at
    BY <1>1, <1>2, <2>1, <2>2 DEF PassedBefore
  <2>3. CASE i = run[r].at
    BY <1>2, <2>3
  <2>4. run[r].at \in Int /\ i \in Int
    BY <1>2
  <2> QED BY <1>2, <2>2, <2>3, <2>4
<1> HIDE DEF c
<1> QED BY <1>1, <1>2 DEF AtStart, Progress, PassedBefore

LEMMA ProgressBody ==
  ASSUME TypeOK, Finite, Placed, NEW r \in Runs, BodyStep(r), AtStart(r), Progress(r)
  PROVE  AtStart(r)' /\ Progress(r)'
<1> DEFINE m == run[r]
           n == run'[r]
           c == m.policy
<1>0. m \in RunType /\ BodyEffect(r)
  BY BodyEffects DEF TypeOK
<1>1. CASE AgentContract(r)
  <2> DEFINE new == IF ~work.contracted
                    THEN Halted(r, Stage("factoryline", "agent-contract"))
                    ELSE [m EXCEPT !.pc = "spec"]
  <2>1. m.pc = "agent" /\ Becomes(r, new)
    BY <1>1 DEF AgentContract
  <2>2. \/ new.pc = "persist" /\ new.end = "halted"
        \/ new.pc = "spec" /\ new.at = m.at
    BY <1>0, Outcomes, StageFacts DEF RunType
  <2> HIDE DEF new
  <2> QED BY <2>1, <2>2, Became, NothingClaimed, StartClaimed
<1>2. CASE SpecBootstrap(r)
  <2>1. m.pc = "spec" /\ \/ Becomes(r, [m EXCEPT !.pc = "nfr"])
                         \/ Becomes(r, Paused(r)) \/ Becomes(r, Halted(r, New))
    BY <1>2 DEF SpecBootstrap
  <2>2. /\ [m EXCEPT !.pc = "nfr"].pc = "nfr" /\ [m EXCEPT !.pc = "nfr"].at = m.at
        /\ Paused(r).pc = "persist" /\ Paused(r).end = "paused"
        /\ Halted(r, New).pc = "persist" /\ Halted(r, New).end = "halted"
    BY <1>0 DEF RunType, Paused, Halted
  <2>3. CASE Becomes(r, [m EXCEPT !.pc = "nfr"])
    <3>1. n.pc = "nfr" /\ n.at = m.at
      BY <2>2, <2>3, Became
    <3> QED BY <2>1, <3>1, StartClaimed
  <2>4. CASE Becomes(r, Paused(r)) \/ Becomes(r, Halted(r, New))
    BY <2>2, <2>4, Became, NothingClaimed
  <2> QED BY <2>1, <2>3, <2>4
<1>3. CASE ConflictGate(r)
  <2>1. m.pc = "nfr" /\ (Becomes(r, Paused(r)) \/ Becomes(r, Continues(r)))
    BY <1>3 DEF ConflictGate
  <2>2. /\ Paused(r).pc = "persist" /\ Paused(r).end = "paused"
        /\ Continues(r).pc = "stage" /\ Continues(r).at = 1
    BY <1>0, <2>1 DEF RunType, Paused, Continues, AtStart
  <2>3. CASE Becomes(r, Continues(r))
    BY <2>2, <2>3, Became DEF AtStart, Progress, PassedBefore
  <2> QED BY <2>1, <2>2, <2>3, Became, NothingClaimed
<1>4. CASE Plan(r)
  <2> DEFINE s == Chain[m.at]
             new == [m EXCEPT !.pc = "gates", !.required = Requires(r, s)]
  <2>1. /\ m.pc = "stage" /\ s \in Named
        /\ \/ Becomes(r, Halted(r, s))
           \/ Becomes(r, new) /\ ~(Requires(r, s) /\ ScopeMissing(s))
    <3>1. m.pc = "stage" /\ m.at \in 1..Len(Chain)
      BY <1>0, <1>4 DEF Plan, Placed, RunType
    <3> QED BY <1>4, <3>1, StageFacts DEF Plan
  <2>2. /\ Halted(r, s).pc = "persist" /\ Halted(r, s).end = "halted"
        /\ new.pc = "gates" /\ new.at = m.at /\ new.required = Requires(r, s)
        /\ new.passed = m.passed /\ new.policy = c
    BY <1>0 DEF RunType, Halted
  <2>3. c # None => (Requires(r, s) <=> s \in Required[c])
    BY <1>0 DEF Requires, RunType
  <2>4. UNCHANGED work
    BY <1>4 DEF Plan, world
  <2>5. CASE Becomes(r, Halted(r, s))
    BY <2>2, <2>5, Became, NothingClaimed
  <2>6. CASE Becomes(r, new) /\ ~(Requires(r, s) /\ ScopeMissing(s))
    <3> HIDE DEF new
    <3>1. n = new
      BY <2>6, Became
    <3>2. c # None => PassedBefore(r, c, m.at)
      BY <2>1 DEF Progress
    <3>3. \A t : ScopeMissing(t)' <=> ScopeMissing(t)
      BY <2>4 DEF ScopeMissing
    <3> QED BY <2>1, <2>2, <2>3, <2>6, <3>1, <3>2, <3>3 DEF AtStart, Progress, PassedBefore
  <2> QED BY <2>1, <2>5, <2>6
<1>5. CASE Gate(r)
  <2> DEFINE s == Chain[m.at]
  <2>1. /\ m.pc = "gates" /\ m.at \in 1..Len(Chain) /\ s \in Named
        /\ Skip(r, s) \/ HaltAt(r, s) \/ Pause(r, s) \/ ExpandAndPause(r, s)
             \/ Enroll(r, s)
    BY <1>5, StageFacts DEF Gate, Placed
  <2>2. CASE Skip(r, s)
    <3>1. c # None => s \notin Required[c]
      BY <2>1, <2>2 DEF Skip, PassedOver, Progress, ScopeMissing, Compile, Stage
    <3>2. Becomes(r, Continues(r))
      BY <2>2 DEF Skip
    <3>3. n.pc = "stage" /\ n.at = m.at + 1
      BY <1>0, <2>1, <3>2, Outcomes, Became
    <3> QED BY <1>0, <2>1, <3>1, <3>3, NextPlace DEF BodyEffect
  <2>3. CASE HaltAt(r, s) \/ Pause(r, s)
    <3>1. Becomes(r, Halted(r, s)) \/ Becomes(r, Paused(r))
      BY <2>3 DEF HaltAt, Pause
    <3>2. /\ Halted(r, s).pc = "persist" /\ Halted(r, s).end = "halted"
          /\ Paused(r).pc = "persist" /\ Paused(r).end = "paused"
      BY <1>0, <2>1, Outcomes
    <3> QED BY <3>1, <3>2, Became, NothingClaimed
  <2>4. CASE ExpandAndPause(r, s)
    <3>1. PICK f : Becomes(r, [Paused(r) EXCEPT !.failed = f])
      BY <2>4 DEF ExpandAndPause
    <3>2. /\ [Paused(r) EXCEPT !.failed = f].pc = "persist"
          /\ [Paused(r) EXCEPT !.failed = f].end = "paused"
      BY <1>0 DEF Paused, RunType
    <3> QED BY <3>1, <3>2, Became, NothingClaimed
  <2>5. CASE Enroll(r, s)
    <3> DEFINE new == [m EXCEPT !.pc = "executing", !.child = TRUE]
    <3>1. /\ new.pc = "executing" /\ new.at = m.at /\ new.policy = c
          /\ new.passed = m.passed
      BY <1>0 DEF RunType
    <3>2. Becomes(r, new)
      BY <2>5 DEF Enroll
    <3> HIDE DEF new
    <3>3. n = new
      BY <3>2, Became
    <3> QED BY <2>1, <3>1, <3>3 DEF AtStart, Progress, PassedBefore
  <2> QED BY <2>1, <2>2, <2>3, <2>4, <2>5
<1>6. CASE Complete(r)
  <2> DEFINE s == Chain[m.at]
             passed == [Continues(r) EXCEPT !.child = FALSE, !.passed = @ \union {s}]
             failed == [Halted(r, s) EXCEPT !.child = FALSE]
  <2>1. /\ m.pc = "executing" /\ m.at \in 1..Len(Chain)
        /\ Becomes(r, passed) \/ Becomes(r, failed)
    BY <1>6 DEF Complete, Placed
  <2>2. /\ passed.pc = "stage" /\ passed.at = m.at + 1 /\ s \in passed.passed
        /\ failed.pc = "persist" /\ failed.end = "halted"
    BY <1>0 DEF RunType, Continues, Halted
  <2> HIDE DEF passed, failed
  <2>3. CASE Becomes(r, passed)
    BY <1>0, <2>1, <2>2, <2>3, Became, NextPlace DEF BodyEffect
  <2>4. CASE Becomes(r, failed)
    BY <2>2, <2>4, Became, NothingClaimed
  <2> QED BY <2>1, <2>3, <2>4
<1>7. CASE EndOfChain(r)
  <2> DEFINE new == [m EXCEPT !.pc = "persist", !.end = "completed"]
  <2>1. m.pc = "stage" /\ m.at > Len(Chain) /\ Becomes(r, new)
    BY <1>7 DEF EndOfChain
  <2>2. new.pc = "persist" /\ new.passed = m.passed /\ new.policy = c
    BY <1>0 DEF RunType
  <2> HIDE DEF new
  <2>3. n = new
    BY <2>1, Became
  <2>4. c # None => Required[c] \subseteq m.passed
    <3>1. c # None => PassedBefore(r, c, m.at) /\ c \in Contracts
      BY <1>0, <2>1 DEF Progress, RunType
    <3>2. c # None => Required[c] \subseteq ChainStages
      BY <3>1, ContractAssumption
    <3>3. \A i \in 1..Len(Chain) : i < m.at
      BY <1>0, <2>1, ChainAssumption DEF RunType
    <3> QED BY <3>1, <3>2, <3>3 DEF PassedBefore, ChainStages
  <2> QED BY <2>2, <2>3, <2>4 DEF AtStart, Progress
<1>8. CASE Persist(r)
  <2>1. /\ m.pc = "persist"
        /\ \/ Becomes(r, [m EXCEPT !.pc = "unlock"])
           \/ Becomes(r, [m EXCEPT !.pc = "unlock", !.end = "error"])
           \/ \E k : Becomes(r, [m EXCEPT !.pc = "writing", !.revision = k])
    BY <1>8 DEF Persist, Raise
  <2>2. PICK new : /\ Becomes(r, new)
                   /\ \/ new = [m EXCEPT !.pc = "unlock"]
                      \/ new = [m EXCEPT !.pc = "unlock", !.end = "error"]
                      \/ \E k : new = [m EXCEPT !.pc = "writing", !.revision = k]
    BY <2>1
  <2>3. \/ new.pc = "unlock"
        \/ /\ new.pc = "writing" /\ new.end = m.end /\ new.policy = c
           /\ new.passed = m.passed
    BY <1>0, <2>2 DEF RunType
  <2>4. n = new
    BY <2>2, Became
  <2> QED BY <2>1, <2>3, <2>4 DEF AtStart, Progress
<1>9. CASE Write(r)
  <2>1. [m EXCEPT !.pc = "unlock"].pc = "unlock"
    BY <1>0 DEF RunType
  <2> QED BY <1>9, <2>1, Became, NothingClaimed DEF Write
<1> QED BY <1>1, <1>2, <1>3, <1>4, <1>5, <1>6, <1>7, <1>8, <1>9 DEF BodyStep

\* The steps around the body claim nothing, or leave the run at its start.
LEMMA ProgressHead ==
  ASSUME TypeOK, NEW r \in Runs, Around(r), AtStart(r), Progress(r)
  PROVE  AtStart(r)' /\ Progress(r)' /\ run[r].passed \subseteq run'[r].passed
<1> DEFINE m == run[r]
           n == run'[r]
<1>0. m \in RunType
  BY DEF TypeOK
<1>r. ASSUME Raise(r) PROVE n.pc = "unlock" /\ n.passed = m.passed
  <2> DEFINE new == [m EXCEPT !.pc = "unlock", !.end = "error"]
  <2>1. new.pc = "unlock" /\ new.passed = m.passed
    BY <1>0 DEF RunType
  <2> HIDE DEF new
  <2>2. Becomes(r, new)
    BY <1>r DEF Raise, new
  <2> QED BY <2>1, <2>2, Became
<1>1. CASE Acquire(r)
  <2>1. PICK p : \/ Becomes(r, [m EXCEPT !.pc = "locked", !.asked = p])
                 \/ Becomes(r, [m EXCEPT !.pc = "ended", !.end = "already active"])
    BY <1>1 DEF Acquire
  <2>2. PICK new : /\ Becomes(r, new)
                   /\ \/ new = [m EXCEPT !.pc = "locked", !.asked = p]
                      \/ new = [m EXCEPT !.pc = "ended", !.end = "already active"]
    BY <2>1
  <2>3. new.pc \in {"locked", "ended"} /\ new.at = m.at /\ new.passed = m.passed
    BY <1>0, <2>2 DEF RunType
  <2>4. n = new /\ m.pc = "idle"
    BY <1>1, <2>2, Became DEF Acquire
  <2> QED BY <2>3, <2>4, NothingClaimed, StartClaimed
<1>2. CASE Fails(r)
  BY <1>2, <1>r, NothingClaimed DEF Fails
<1>3. CASE Resolve(r)
  <2>1. m.pc = "locked" /\ (Raise(r) \/ \E p, c : Bind(r, p, c))
    BY <1>3 DEF Resolve, ResolvePaused, ResolveRequested
  <2>2. ASSUME NEW p, NEW c, Bind(r, p, c)
        PROVE  n.pc = "resolved" /\ n.at = m.at /\ n.passed = m.passed
    <3> DEFINE new == [m EXCEPT !.pc = "resolved", !.path = p, !.policy = c,
                                !.seen = checkpoints]
    <3>1. /\ new.pc = "resolved" /\ new.at = m.at /\ new.passed = m.passed
          /\ Becomes(r, new)
      BY <1>0, <2>2 DEF RunType, Bind
    <3> HIDE DEF new
    <3> QED BY <3>1, Became
  <2>3. CASE Raise(r)
    BY <2>3, <1>r, NothingClaimed
  <2>4. CASE \E p, c : Bind(r, p, c)
    BY <2>1, <2>2, <2>4, StartClaimed
  <2> QED BY <2>1, <2>3, <2>4
<1>4. CASE Begin(r)
  <2>1. ASSUME NEW c, NEW p, NEW b, Begun(r, c, p, b)
        PROVE  n.pc = "agent" /\ n.at = m.at /\ n.passed = m.passed
    <3> DEFINE new == [m EXCEPT !.pc = "agent", !.policy = c, !.path = p,
                                !.binding = b, !.tools = work.tools]
    <3>1. /\ new.pc = "agent" /\ new.at = m.at /\ new.passed = m.passed
          /\ Becomes(r, new)
      BY <1>0, <2>1 DEF RunType, Begun
    <3> HIDE DEF new
    <3> QED BY <3>1, Became
  <2>2. m.pc = "resolved"
    BY <1>4 DEF Begin
  <2>3. CASE Raise(r)
    BY <2>3, <1>r, NothingClaimed
  <2>4. CASE \E c, p, b : Begun(r, c, p, b)
    BY <2>1, <2>2, <2>4, StartClaimed
  <2> QED BY <1>4, <2>3, <2>4, BeginEffect
<1>5. CASE Unlock(r)
  <2>1. PICK pc \in {"returned", "ended"} : Becomes(r, Report(r, pc))
    BY <1>5 DEF Unlock
  <2>2. n.pc = pc /\ n.passed = m.passed
    BY <2>1, ReportType, Became
  <2> QED BY <2>2, NothingClaimed
<1>6. CASE WriteRunReceipt(r)
  <2> DEFINE new == [m EXCEPT !.pc = "ended", !.receipted = TRUE]
  <2>1. new.pc = "ended" /\ new.passed = m.passed /\ Becomes(r, new)
    BY <1>0, <1>6 DEF RunType, WriteRunReceipt
  <2> HIDE DEF new
  <2>2. n.pc = "ended" /\ n.passed = m.passed
    BY <2>1, Became
  <2> QED BY <2>2, NothingClaimed
<1>7. CASE Crash(r)
  <2> DEFINE new == [Report(r, "crashed") EXCEPT !.child = m.child, !.at = m.at]
  <2>1. Becomes(r, new)
    BY <1>7 DEF Crash
  <2>2. new.pc = "crashed" /\ new.passed = m.passed
    BY ReportType DEF RunType
  <2> HIDE DEF new
  <2>3. n.pc = "crashed" /\ n.passed = m.passed
    BY <2>1, <2>2, Became
  <2> QED BY <2>3, NothingClaimed
<1> QED BY <1>1, <1>2, <1>3, <1>4, <1>5, <1>6, <1>7 DEF Around

\* With a workspace that is left alone while a run is active.
LEMMA ProgressStep ==
  ASSUME HandsOff, TypeOK, Finite, Placed, Mutex, WriteReady, Progressing,
         CompletedRanRequired, [Next]_vars
  PROVE  Progressing' /\ CompletedRanRequired'
<1>1. ASSUME NEW r \in Runs, Around(r) \/ BodyStep(r)
      PROVE  Progressing' /\ CompletedRanRequired'
  <2>1. /\ AtStart(r)' /\ Progress(r)' /\ run[r].passed \subseteq run'[r].passed
        /\ \A q \in Runs \ {r} : run'[q] = run[q]
    BY <1>1, ProgressHead, ProgressBody, HeadEffects, BodyEffects
       DEF Around, HeadEffect, BodyEffect, Same, Progressing
  <2>2. UNCHANGED work
    BY <1>1 DEF Around, BodyStep, Acquire, Fails, Resolve, Begin, Unlock,
       WriteRunReceipt, Crash, AgentContract, SpecBootstrap, ConflictGate, Plan, Gate,
       Complete, EndOfChain, Persist, Write, world
  <2>3. \A q \in Runs \ {r} : AtStart(q)' /\ Progress(q)'
    <3>1. \A t : ScopeMissing(t)' <=> ScopeMissing(t)
      BY <2>2 DEF ScopeMissing
    <3> QED BY <2>1, <3>1 DEF Progressing, AtStart, Progress, PassedBefore
  <2>4. Progressing'
    BY <2>1, <2>3 DEF Progressing
  <2>5. \A q \in Runs : run[q].passed \subseteq run'[q].passed
    BY <2>1
  <2>6. CompletedRanRequired'
    <3>1. CASE Write(r)
      <4>1. checkpoints' = checkpoints \union {Checkpoint(r)} /\ run[r].pc = "writing"
        BY <3>1 DEF Write
      <4>2. ASSUME Checkpoint(r).state = "terminal"
            PROVE  Required[Checkpoint(r).policy] \subseteq run[Checkpoint(r).run].passed
        <5>1. run[r].end = "completed" /\ run[r].policy # None
          BY <4>1, <4>2 DEF Checkpoint, WriteReady
        <5>2. Checkpoint(r).run = r /\ Checkpoint(r).policy = run[r].policy
          BY DEF Checkpoint
        <5> QED BY <4>1, <5>1, <5>2 DEF Progressing, Progress
      <4>3. Checkpoint(r).run \in Runs
        BY DEF Checkpoint
      <4>4. \A d \in checkpoints : d.run \in Runs
        BY DEF TypeOK, CheckpointType
      <4> QED BY <2>5, <4>1, <4>2, <4>3, <4>4 DEF CompletedRanRequired
    <3>2. CASE ~Write(r)
      <4>1. checkpoints' = checkpoints
        BY <1>1, <3>2, DiskKept
      <4> QED BY <2>5, <4>1 DEF CompletedRanRequired, TypeOK, CheckpointType
    <3> QED BY <3>1, <3>2
  <2> QED BY <2>4, <2>6
<1>2. CASE EditContract \/ ClearStaleLock \/ UNCHANGED vars
  <2>1. checkpoints' = checkpoints /\ run' = run /\ work' = work
    BY <1>2 DEF EditContract, ClearStaleLock, vars, disk, world
  <2> QED BY <2>1 DEF Progressing, AtStart, Progress, PassedBefore, ScopeMissing,
                    CompletedRanRequired
<1>3. CASE EditWorkspace
  <2>1. checkpoints' = checkpoints /\ run' = run /\ \A r \in Runs : run[r].pc \notin Active
    BY <1>3 DEF EditWorkspace, disk, Busy
  <2> QED BY <2>1 DEF Progressing, AtStart, Progress, PassedBefore,
                    CompletedRanRequired, Active
<1> QED BY <1>1, <1>2, <1>3, NextSteps

-----------------------------------------------------------------------------
(* The invariant, and what follows from it. *)

\* The active run is the only one (Mutex) and knows where it is (Placed); what it
\* is about to write extends the history (WriteReady); what it works under is what
\* the paused run handed on (BoundRight); what it has started is on record.
IInv ==
  /\ TypeOK /\ Finite
  /\ Placed /\ Mutex
  /\ HistoryVerifies /\ WriteReady
  /\ BoundRight /\ Recorded

LEMMA InitIInv == Init => IInv
<1> SUFFICES ASSUME Init PROVE IInv
  OBVIOUS
<1>1. \A r \in Runs :
        /\ run[r] = Idle /\ run[r] \in RunType /\ run[r].pc = "idle"
        /\ run[r].policy = None /\ run[r].seen = {} /\ ~run[r].child
  BY IdleType DEF Init, Idle
<1>2. TypeOK
  <2>1. receipts \in [Stages -> Seq(Attempts)]
    BY DEF Init
  <2>2. run \in [Runs -> RunType]
    BY IdleType DEF Init
  <2> QED BY <1>1, <2>1, <2>2 DEF Init, TypeOK
<1>3. Finite
  BY <1>1, FS_EmptySet DEF Init, Finite
<1>4. Placed /\ Mutex /\ WriteReady
  BY <1>1 DEF Placed, Mutex, WriteReady, Active
<1>5. HistoryVerifies
  BY FS_EmptySet DEF Init, HistoryVerifies, Verifies
<1>6. BoundRight
  BY <1>1 DEF Init, BoundRight, BoundFor, Working, Waiting
<1>7. Recorded
  BY <1>1 DEF Recorded, ChildPlace, OnRecord
<1> QED BY <1>2, <1>3, <1>4, <1>5, <1>6, <1>7 DEF IInv

LEMMA NextIInv == IInv /\ [Next]_vars => IInv'
<1> SUFFICES ASSUME IInv, [Next]_vars PROVE IInv'
  OBVIOUS
<1>1. TypeOK' /\ Finite'
  BY TypeStep DEF IInv
<1>2. Placed' /\ Mutex'
  BY PlacedStep DEF IInv
<1>3. HistoryVerifies' /\ WriteReady'
  BY HistoryStep DEF IInv
<1>4. BoundRight' /\ Recorded'
  BY BoundStep, RecordedStep DEF IInv
<1> QED BY <1>1, <1>2, <1>3, <1>4 DEF IInv

\* The parts of the invariant hold together in every reachable state, whatever runs
\* race, fail and die, and people edit.
THEOREM Invariance == Spec => []IInv
BY InitIInv, NextIInv, PTL DEF Spec

\* The variables keep their types, and a run with a contract the path it came from.
THEOREM TypeCorrect == Spec => []TypeOK
<1>1. IInv => TypeOK
  BY DEF IInv
<1> QED BY Invariance, <1>1, PTL

\* Whatever runs start, race, fail and die, the checkpoint files stay a history the
\* next run accepts (_validate_release_checkpoint_history).
THEOREM HistoryAlwaysVerifies == Spec => []HistoryVerifies
<1>1. IInv => HistoryVerifies
  BY DEF IInv
<1> QED BY Invariance, <1>1, PTL

\* While the last recorded run waits for a human, every run works under the
\* contract that run was bound to (resolve_continuation_release_contract).
THEOREM PausedPolicyKept == Spec => []PausedPolicyHolds
<1>1. IInv => PausedPolicyHolds
  BY BoundHolds DEF IInv
<1> QED BY Invariance, <1>1, PTL

\* A command that was started and has not reported is on record as an attempt that
\* did not pass (_execute_assembly_stage).
THEOREM AttemptsOnRecord == Spec => []AttemptIsOnRecord
<1>1. IInv => AttemptIsOnRecord
  BY DEF IInv, Recorded, OnRecord, AttemptIsOnRecord
<1> QED BY Invariance, <1>1, PTL

LEMMA InitCompleted == Init => Progressing /\ CompletedRanRequired
<1> SUFFICES ASSUME Init PROVE Progressing /\ CompletedRanRequired
  OBVIOUS
<1>1. \A r \in Runs : run[r].pc = "idle" /\ run[r].at = 0 /\ run[r].policy = None
  BY DEF Init, Idle
<1> QED BY <1>1 DEF Init, Progressing, AtStart, Progress, CompletedRanRequired

\* In a workspace that is left alone while a run is active, a checkpoint says
\* terminal only of a run that ran and passed every stage its contract requires
\* (_assembly_stage_halts, _release_contract_requires).
THEOREM CompletedRan == HandsOff => (Spec => []CompletedRanRequired)
<1> SUFFICES ASSUME HandsOff PROVE Spec => []CompletedRanRequired
  OBVIOUS
<1> DEFINE J == Progressing /\ CompletedRanRequired
<1>1. IInv /\ J /\ [Next]_vars => J'
  BY ProgressStep DEF IInv
<1>2. Init => J
  BY InitCompleted
<1>3. J => CompletedRanRequired
  OBVIOUS
<1> HIDE DEF J
<1> QED BY Invariance, <1>1, <1>2, <1>3, PTL DEF Spec

-----------------------------------------------------------------------------
(* Release verification: what the steps of a run do to the receipts. *)

\* The program counters of a run that executes no further stage.
Over == {"persist", "writing", "unlock", "returned", "ended", "crashed"}

\* An attempt that has not passed is being executed, or its run is over.
Settled ==
  \A r \in Runs, s \in Stages : \A i \in 1..Len(receipts[s]) :
    receipts[s][i].run = r /\ ~receipts[s][i].ok =>
      \/ run[r].pc = "executing" /\ Chain[run[r].at] = s
      \/ run[r].pc \in Over

\* No receipt is written, and no stage begun.
Quiet(r) ==
  /\ receipts' = receipts
  /\ run'[r].pc # "executing"
  /\ run[r].pc \in Over \union {"executing"} => run'[r].pc \in Over

\* The receipt of a new attempt at s is added.
Added(r, s) ==
  /\ run[r].pc \in {"spec", "gates"}
  /\ \/ run'[r].pc = "persist"
     \/ run'[r].pc = "executing" /\ Chain[run'[r].at] = s
  /\ \A t \in Stages \ {s} : receipts'[t] = receipts[t]
  /\ Len(receipts'[s]) = Len(receipts[s]) + 1
  /\ \A i \in 1..Len(receipts[s]) : receipts'[s][i] = receipts[s][i]
  /\ receipts'[s][Len(receipts[s]) + 1].run = r

\* The attempt at s has come to its end.
Done(r, s, ok) ==
  /\ run[r].pc = "executing" /\ Chain[run[r].at] = s
  /\ run'[r].pc = IF ok THEN "stage" ELSE "persist"
  /\ \A t \in Stages \ {s} : receipts'[t] = receipts[t]
  /\ Len(receipts'[s]) = Len(receipts[s])
  /\ \A i \in 1..Len(receipts[s]) :
       IF receipts[s][i].run = r
       THEN /\ receipts'[s][i].run = r /\ receipts'[s][i].ok = ok
            /\ receipts'[s][i].binding = receipts[s][i].binding
       ELSE receipts'[s][i] = receipts[s][i]

Effect(r) ==
  \/ Quiet(r)
  \/ \E s \in Stages : Added(r, s)
  \/ \E s \in Stages, ok \in BOOLEAN : Done(r, s, ok)

LEMMA ReceiptAdded ==
  ASSUME TypeOK, NEW r \in Runs, NEW s \in Stages, NEW ok \in BOOLEAN,
         Receipt(r, s, ok), run[r].pc \in {"spec", "gates"},
         \/ run'[r].pc = "persist"
         \/ run'[r].pc = "executing" /\ Chain[run'[r].at] = s
  PROVE  Added(r, s)
<1> DEFINE row == [run |-> r, ok |-> ok, binding |-> run[r].binding]
           n == Len(receipts[s])
<1>1. receipts \in [Stages -> Seq(Attempts)] /\ receipts[s] \in Seq(Attempts)
  BY DEF TypeOK
<1>2. receipts' = [receipts EXCEPT ![s] = Append(receipts[s], row)]
  BY DEF Receipt
<1>3. row.run = r /\ row \in Attempts
  BY DEF TypeOK, RunType, Attempts
<1> HIDE DEF row
<1>4. n \in Nat /\ receipts'[s] = Append(receipts[s], row)
  BY <1>1, <1>2
<1>5. /\ Len(Append(receipts[s], row)) = n + 1
      /\ \A i \in 1..n : Append(receipts[s], row)[i] = receipts[s][i]
      /\ Append(receipts[s], row)[n + 1] = row
  BY <1>1, <1>3
<1>6. \A t \in Stages \ {s} : receipts'[t] = receipts[t]
  BY <1>1, <1>2
<1> QED BY <1>3, <1>4, <1>5, <1>6 DEF Added

LEMMA CompleteDone ==
  ASSUME TypeOK, Placed, NEW r \in Runs, Complete(r)
  PROVE  \E s \in Stages, ok \in BOOLEAN : Done(r, s, ok)
<1> DEFINE s == Chain[run[r].at]
           m == run[r]
           row(ok, i) == IF receipts[s][i].run = r
                         THEN [receipts[s][i] EXCEPT !.ok = ok] ELSE receipts[s][i]
<1>1. /\ receipts \in [Stages -> Seq(Attempts)] /\ m \in RunType
      /\ m.pc = "executing"
  BY DEF TypeOK, Complete
<1>2. s \in Stages /\ s \in Named
  BY StageFacts DEF Complete, Placed
<1>3. PICK ok \in BOOLEAN :
        /\ receipts' = [receipts EXCEPT ![s] = [i \in DOMAIN receipts[s] |-> row(ok, i)]]
        /\ Becomes(r, IF ok
                      THEN [Continues(r) EXCEPT !.child = FALSE,
                                                !.passed = @ \union {s}]
                      ELSE [Halted(r, s) EXCEPT !.child = FALSE])
  BY DEF Complete
<1>4. /\ [Continues(r) EXCEPT !.child = FALSE, !.passed = @ \union {s}].pc = "stage"
      /\ [Halted(r, s) EXCEPT !.child = FALSE].pc = "persist"
  BY <1>1 DEF Continues, Halted, RunType
<1>5. run'[r].pc = IF ok THEN "stage" ELSE "persist"
  BY <1>3, <1>4, Became
<1>6. receipts[s] \in Seq(Attempts) /\ Len(receipts[s]) \in Nat
  BY <1>1, <1>2
<1>7. /\ DOMAIN receipts[s] = 1..Len(receipts[s])
      /\ \A i \in 1..Len(receipts[s]) : receipts[s][i] \in Attempts
  BY <1>6
<1>8. \A i \in 1..Len(receipts[s]) :
        IF receipts[s][i].run = r
        THEN /\ row(ok, i).run = r /\ row(ok, i).ok = ok
             /\ row(ok, i).binding = receipts[s][i].binding
        ELSE row(ok, i) = receipts[s][i]
  BY <1>7 DEF Attempts
<1>9. \A i \in 1..Len(receipts[s]) : row(ok, i) \in Attempts
  BY <1>7 DEF Attempts
<1> HIDE DEF row
<1>10. receipts'[s] = [i \in 1..Len(receipts[s]) |-> row(ok, i)]
  BY <1>1, <1>2, <1>3, <1>7
<1>11. /\ Len(receipts'[s]) = Len(receipts[s])
       /\ \A i \in 1..Len(receipts[s]) : receipts'[s][i] = row(ok, i)
  BY <1>6, <1>9, <1>10
<1>12. \A t \in Stages \ {s} : receipts'[t] = receipts[t]
  BY <1>1, <1>3
<1>13. Done(r, s, ok)
  BY <1>1, <1>5, <1>8, <1>11, <1>12 DEF Done
<1> QED BY <1>2, <1>13

\* The steps outside the body write no receipt.
LEMMA AroundQuiet ==
  ASSUME TypeOK, NEW r \in Runs, Around(r)
  PROVE  Quiet(r)
<1> DEFINE m == run[r]
<1>0. m \in RunType
  BY DEF TypeOK
<1>1. receipts' = receipts /\ run'[r].pc # "executing"
  <2>1. run'[r].pc # "executing"
    BY HeadEffects DEF Around, HeadEffect, Working
  <2> QED BY <2>1 DEF Around, Acquire, Fails, Resolve, Begin, Unlock, WriteRunReceipt,
                      Crash, disk
<1>2. CASE Acquire(r) \/ Resolve(r) \/ Begin(r)
  BY <1>1, <1>2 DEF Acquire, Resolve, Begin, Quiet, Over
<1>3. CASE Fails(r)
  <2>1. [m EXCEPT !.pc = "unlock", !.end = "error"].pc = "unlock"
    BY <1>0 DEF RunType
  <2> QED BY <1>1, <1>3, <2>1, Became DEF Fails, Raise, Quiet, Over
<1>4. CASE Unlock(r)
  <2>1. PICK pc \in {"returned", "ended"} : Becomes(r, Report(r, pc))
    BY <1>4 DEF Unlock
  <2>2. Report(r, pc).pc = pc
    BY <2>1, ReportType
  <2> QED BY <1>1, <2>1, <2>2, Became DEF Quiet, Over
<1>5. CASE WriteRunReceipt(r)
  <2>1. [m EXCEPT !.pc = "ended", !.receipted = TRUE].pc = "ended"
    BY <1>0 DEF RunType
  <2> QED BY <1>1, <1>5, <2>1, Became DEF WriteRunReceipt, Quiet, Over
<1>6. CASE Crash(r)
  <2> DEFINE new == [Report(r, "crashed") EXCEPT !.child = m.child, !.at = m.at]
  <2>1. Becomes(r, new)
    BY <1>6 DEF Crash
  <2>2. new.pc = "crashed"
    BY ReportType DEF RunType
  <2> HIDE DEF new
  <2> QED BY <1>1, <2>1, <2>2, Became DEF Quiet, Over
<1> QED BY <1>2, <1>3, <1>4, <1>5, <1>6 DEF Around

\* Where a run is once these fields of it have changed.
LEMMA BecomesPc ==
  ASSUME TypeOK, NEW r \in Runs
  PROVE  /\ \A x : Becomes(r, [run[r] EXCEPT !.pc = x]) => run'[r].pc = x
         /\ \A x, e :
              Becomes(r, [run[r] EXCEPT !.pc = x, !.end = e]) => run'[r].pc = x
         /\ \A x, n :
              Becomes(r, [run[r] EXCEPT !.pc = x, !.revision = n]) => run'[r].pc = x
<1>0. run[r] \in RunType
  BY DEF TypeOK
<1>1. \A x : [run[r] EXCEPT !.pc = x].pc = x
  BY <1>0 DEF RunType
<1>2. \A x, e : [run[r] EXCEPT !.pc = x, !.end = e].pc = x
  BY <1>0 DEF RunType
<1>3. \A x, n : [run[r] EXCEPT !.pc = x, !.revision = n].pc = x
  BY <1>0 DEF RunType
<1>4. ASSUME NEW new, Becomes(r, new) PROVE run'[r] = new
  BY <1>4, Became
<1>5. \A x : Becomes(r, [run[r] EXCEPT !.pc = x]) => run'[r].pc = x
  BY <1>1, <1>4
<1>6. \A x, e : Becomes(r, [run[r] EXCEPT !.pc = x, !.end = e]) => run'[r].pc = x
  BY <1>2, <1>4
<1>7. \A x, n : Becomes(r, [run[r] EXCEPT !.pc = x, !.revision = n]) => run'[r].pc = x
  BY <1>3, <1>4
<1> QED BY <1>5, <1>6, <1>7

LEMMA BodyReceipts ==
  ASSUME TypeOK, Finite, Placed, NEW r \in Runs, BodyStep(r)
  PROVE  Effect(r)
<1> DEFINE m == run[r]
<1>0. m \in RunType /\ files \in Nat
  BY DEF TypeOK
<1>1. BodyEffect(r)
  BY BodyEffects
\* A step that leaves the disk alone starts no stage: that would write its receipt.
<1>2. ASSUME UNCHANGED disk, m.pc \in {"agent", "spec", "nfr", "stage", "gates"}
      PROVE  Quiet(r)
  <2>1. run'[r].pc # "executing"
    BY <1>0, <1>1, <1>2 DEF BodyEffect, Enroll, Receipt, disk
  <2> QED BY <1>2, <2>1 DEF Quiet, Over, disk
<1>3. CASE AgentContract(r) \/ ConflictGate(r) \/ Plan(r) \/ EndOfChain(r)
  BY <1>2, <1>3 DEF AgentContract, ConflictGate, Plan, EndOfChain, Effect
<1>4. CASE SpecBootstrap(r)
  <2>1. m.pc = "spec"
    BY <1>4 DEF SpecBootstrap
  <2>2. CASE UNCHANGED disk
    BY <1>2, <2>1, <2>2 DEF Effect
  <2>3. ASSUME NEW ok \in BOOLEAN, Receipt(r, New, ok),
               Becomes(r, IF ok THEN Paused(r) ELSE Halted(r, New))
        PROVE  Effect(r)
    <3>1. New \in Stages /\ New \in Named
      BY StageFacts
    <3>2. Paused(r).pc = "persist" /\ Halted(r, New).pc = "persist"
      BY <1>0, <3>1, Outcomes
    <3>3. run'[r].pc = "persist"
      BY <2>3, <3>2, Became
    <3> QED BY <2>1, <2>3, <3>1, <3>3, ReceiptAdded DEF Effect
  <2> QED BY <1>4, <2>2, <2>3 DEF SpecBootstrap
<1>5. CASE Gate(r)
  <2> DEFINE s == Chain[m.at]
  <2>1. m.pc = "gates" /\ s \in Stages
    BY <1>5, StageFacts DEF Gate, Placed
  <2>2. CASE Skip(r, s) \/ HaltAt(r, s) \/ Pause(r, s)
    BY <1>2, <2>1, <2>2 DEF Skip, HaltAt, Pause, Effect
  <2>3. CASE ExpandAndPause(r, s)
    <3>1. PICK ok \in BOOLEAN :
            /\ Receipt(r, Expand, ok)
            /\ Becomes(r, [Paused(r) EXCEPT !.failed =
                             IF ok THEN @ ELSE @ \union {Expand}])
      BY <2>3 DEF ExpandAndPause
    <3>2. [Paused(r) EXCEPT !.failed =
             IF ok THEN @ ELSE @ \union {Expand}].pc = "persist"
      BY <1>0 DEF Paused, RunType
    <3>3. run'[r].pc = "persist"
      BY <3>1, <3>2, Became
    <3> QED BY <2>1, <3>1, <3>3, StageFacts, ReceiptAdded DEF Effect
  <2>4. CASE Enroll(r, s)
    <3>1. Becomes(r, [m EXCEPT !.pc = "executing", !.child = TRUE])
      BY <2>4 DEF Enroll
    <3>2. /\ [m EXCEPT !.pc = "executing", !.child = TRUE].pc = "executing"
          /\ [m EXCEPT !.pc = "executing", !.child = TRUE].at = m.at
      BY <1>0 DEF RunType
    <3>3. run'[r].pc = "executing" /\ run'[r].at = m.at
      BY <3>1, <3>2, Became
    <3> QED BY <2>1, <2>4, <3>3, ReceiptAdded DEF Enroll, Enrolled, Effect
  <2> QED BY <1>5, <2>2, <2>3, <2>4 DEF Gate
<1>6. CASE Complete(r)
  BY <1>6, CompleteDone DEF Effect
<1>7. CASE Persist(r)
  <2>1. /\ receipts' = receipts
        /\ \/ Raise(r) \/ Becomes(r, [m EXCEPT !.pc = "unlock"])
           \/ \E n : Becomes(r, [m EXCEPT !.pc = "writing", !.revision = n])
    BY <1>7 DEF Persist, disk
  <2>2. /\ \A x : Becomes(r, [m EXCEPT !.pc = x]) => run'[r].pc = x
        /\ \A x, e : Becomes(r, [m EXCEPT !.pc = x, !.end = e]) => run'[r].pc = x
        /\ \A x, n : Becomes(r, [m EXCEPT !.pc = x, !.revision = n]) => run'[r].pc = x
    BY BecomesPc
  <2>3. run'[r].pc \in {"unlock", "writing"}
    BY <2>1, <2>2 DEF Raise
  <2> QED BY <2>1, <2>3 DEF Quiet, Over, Effect
<1>8. CASE Write(r)
  <2>1. run'[r].pc = "unlock"
    BY <1>8, BecomesPc DEF Write
  <2> QED BY <1>8, <2>1 DEF Write, Quiet, Over, Effect
<1> QED BY <1>3, <1>4, <1>5, <1>6, <1>7, <1>8 DEF BodyStep

LEMMA RunEffect ==
  ASSUME IInv, NEW r \in Runs, Around(r) \/ BodyStep(r)
  PROVE  Effect(r) /\ \A q \in Runs \ {r} : run'[q] = run[q]
<1> USE DEF IInv
<1>1. CASE Around(r)
  BY <1>1, AroundQuiet, HeadEffects DEF Around, HeadEffect, Effect
<1>2. CASE BodyStep(r)
  BY <1>2, BodyReceipts, BodyEffects DEF BodyEffect
<1> QED BY <1>1, <1>2

\* What is not a step of a run leaves the runs and the receipts alone.
LEMMA OtherSteps ==
  ASSUME EditContract \/ EditWorkspace \/ ClearStaleLock \/ UNCHANGED vars
  PROVE  receipts' = receipts /\ run' = run
BY DEF EditContract, EditWorkspace, ClearStaleLock, vars, disk

LEMMA SettledStep ==
  ASSUME IInv, Settled, [Next]_vars
  PROVE  Settled'
<1>1. ASSUME NEW r \in Runs, Around(r) \/ BodyStep(r)
      PROVE  Settled'
  <2>1. Effect(r) /\ \A q \in Runs \ {r} : run'[q] = run[q]
    BY <1>1, RunEffect
  <2>2. CASE Quiet(r)
    BY <2>1, <2>2 DEF Quiet, Settled
  <2>3. ASSUME NEW s \in Stages, Added(r, s)
        PROVE  Settled'
    <3>0. Len(receipts[s]) \in Nat
      BY DEF IInv, TypeOK
    <3>1. ASSUME NEW q \in Runs, NEW t \in Stages, NEW i \in 1..Len(receipts'[t]),
                 receipts'[t][i].run = q, ~receipts'[t][i].ok
          PROVE  \/ run'[q].pc = "executing" /\ Chain[run'[q].at] = t
                 \/ run'[q].pc \in Over
      <4>1. CASE t = s /\ i = Len(receipts[s]) + 1
        BY <2>3, <3>1, <4>1 DEF Added, Over
      <4>2. CASE ~(t = s /\ i = Len(receipts[s]) + 1)
        <5>1. i \in 1..Len(receipts[t]) /\ receipts'[t][i] = receipts[t][i]
          BY <2>3, <3>0, <4>2 DEF Added
        <5>2. \/ run[q].pc = "executing" /\ Chain[run[q].at] = t
              \/ run[q].pc \in Over
          BY <3>1, <5>1 DEF Settled
        <5>3. q # r
          BY <2>3, <5>2 DEF Added, Over
        <5> QED BY <2>1, <5>2, <5>3
      <4> QED BY <4>1, <4>2
    <3> QED BY <3>1 DEF Settled
  <2>4. ASSUME NEW s \in Stages, NEW ok \in BOOLEAN, Done(r, s, ok)
        PROVE  Settled'
    <3>1. ASSUME NEW q \in Runs, NEW t \in Stages, NEW i \in 1..Len(receipts'[t]),
                 receipts'[t][i].run = q, ~receipts'[t][i].ok
          PROVE  \/ run'[q].pc = "executing" /\ Chain[run'[q].at] = t
                 \/ run'[q].pc \in Over
      <4>1. i \in 1..Len(receipts[t])
        BY <2>4 DEF Done
      <4>2. CASE t = s /\ receipts[s][i].run = r
        <5>1. receipts'[s][i].run = r /\ receipts'[s][i].ok = ok
          BY <2>4, <4>1, <4>2 DEF Done
        <5> QED BY <2>4, <3>1, <4>2, <5>1 DEF Done, Over
      <4>3. CASE ~(t = s /\ receipts[s][i].run = r)
        <5>1. receipts'[t][i] = receipts[t][i]
          BY <2>4, <4>1, <4>3 DEF Done
        <5>2. \/ run[q].pc = "executing" /\ Chain[run[q].at] = t
              \/ run[q].pc \in Over
          BY <3>1, <4>1, <5>1 DEF Settled
        <5>3. q # r
          BY <2>4, <3>1, <4>3, <5>1, <5>2 DEF Done, Over
        <5> QED BY <2>1, <5>2, <5>3
      <4> QED BY <4>2, <4>3
    <3> QED BY <3>1 DEF Settled
  <2> QED BY <2>1, <2>2, <2>3, <2>4 DEF Effect
<1>2. CASE EditContract \/ EditWorkspace \/ ClearStaleLock \/ UNCHANGED vars
  BY <1>2, OtherSteps DEF Settled
<1> QED BY <1>1, <1>2, NextSteps

-----------------------------------------------------------------------------
(* The verification. *)

VerdictType ==
  [pc: {"idle", "reading", "deciding", "decided"}, path: Paths \union {None},
   listed: [Stages -> Nat], rows: [Stages -> Attempts \union {NoRow}],
   truncated: BOOLEAN, required: SUBSET Named, ready: BOOLEAN,
   contract: Contracts \union {None}]

Reading == verdict.pc \in {"reading", "deciding"}

\* The attempt that was the newest one at s when the receipts were listed.
Listed(s) == receipts[s][verdict.listed[s]]

\* What was listed is still there.
Within == \A s \in Stages : verdict.listed[s] <= Len(receipts[s])

\* As long as a listed attempt is executed, nothing has happened since the listing.
Undisturbed ==
  \A r \in Runs, s \in Stages :
    /\ HasRow(s) /\ Listed(s).run = r /\ ~Listed(s).ok
    /\ run[r].pc = "executing" /\ Chain[run[r].at] = s
    => \A t \in Stages :
         /\ verdict.listed[t] = Len(receipts[t])
         /\ verdict.rows[t].ok => HasRow(t) /\ verdict.rows[t] = Listed(t)

\* The stage was read as passed under contract c, or would be now.
Counts(s, c) ==
  \/ verdict.rows[s].ok /\ verdict.rows[s].binding = c
  \/ s \in Unread /\ Listed(s).ok /\ Listed(s).binding = c

\* All the stages that count have passed together at one moment.
Accounted ==
  \A c \in Contracts : \E m \in moments :
    m[1] = c /\ \A s \in Stages : Counts(s, c) => s \in m[2]

VInv ==
  /\ verdict \in VerdictType
  /\ Settled
  /\ verdict.pc = "idle" => \A s \in Stages : verdict.rows[s] = NoRow
  /\ verdict.ready => verdict.pc = "decided"
  /\ Reading => Within /\ Undisturbed /\ Accounted
  /\ ReadyWasAccurate

LEMMA InitVInv == VerifyInit => VInv
<1> SUFFICES ASSUME VerifyInit PROVE VInv
  OBVIOUS
<1>1. \A s \in Stages : receipts[s] = <<>>
  BY DEF VerifyInit, Init
<1>2. Settled
  BY <1>1 DEF Settled
<1>3. /\ verdict.pc = "idle" /\ ~verdict.ready
      /\ \A s \in Stages : verdict.rows[s] = NoRow
  BY DEF VerifyInit
<1>4. verdict \in VerdictType
  <2>1. /\ Unlisted \in [Stages -> Nat]
        /\ [s \in Stages |-> NoRow] \in [Stages -> Attempts \union {NoRow}]
    BY DEF Unlisted
  <2> QED BY <2>1 DEF VerifyInit, VerdictType
<1> QED BY <1>2, <1>3, <1>4 DEF VInv, Reading, ReadyWasAccurate

\* The moments that are remembered include the present one.
LEMMA Remembered ==
  ASSUME VerifyNext, verdict'.pc \in {"reading", "deciding"}
  PROVE  /\ moments \subseteq moments'
         /\ \A c \in Contracts : <<c, Passing(c)'>> \in moments'
<1>1. moments' = moments \union Moment'
  BY DEF VerifyNext
<1> QED BY <1>1 DEF Moment

\* A row that was listed is an attempt on record.
LEMMA ListedType ==
  ASSUME TypeOK, verdict \in VerdictType, Within, NEW s \in Stages, HasRow(s)
  PROVE  verdict.listed[s] \in 1..Len(receipts[s]) /\ Listed(s) \in Attempts
<1>1. receipts[s] \in Seq(Attempts) /\ verdict.listed[s] \in Nat
  BY DEF TypeOK, VerdictType
<1>2. verdict.listed[s] \in 1..Len(receipts[s])
  BY <1>1 DEF HasRow, Within
<1> QED BY <1>1, <1>2 DEF Listed

-----------------------------------------------------------------------------
(* A step of a run while the verification reads. *)

\* If all that counts now has counted before, it passed together before.
LEMMA StillAccounted ==
  ASSUME Accounted, moments \subseteq moments',
         \A s \in Stages, c \in Contracts : Counts(s, c)' => Counts(s, c)
  PROVE  Accounted'
BY DEF Accounted

LEMMA QuietReading ==
  ASSUME NEW r \in Runs, Within, Undisturbed, Accounted, VerifyNext, Reading,
         Quiet(r), \A q \in Runs \ {r} : run'[q] = run[q], verdict' = verdict
  PROVE  Within' /\ Undisturbed' /\ Accounted'
<1>1. receipts' = receipts /\ run'[r].pc # "executing"
  BY DEF Quiet
<1>2. moments \subseteq moments'
  BY Remembered DEF Reading
<1>3. Accounted'
  BY <1>1, <1>2, StillAccounted DEF Counts, Listed, Unread, HasRow
<1>4. Within' /\ Undisturbed'
  BY <1>1 DEF Within, Undisturbed, Listed, HasRow
<1> QED BY <1>3, <1>4

LEMMA AddedReading ==
  ASSUME IInv, VInv, NEW r \in Runs, NEW s \in Stages, VerifyNext, Reading,
         Added(r, s), \A q \in Runs \ {r} : run'[q] = run[q], verdict' = verdict
  PROVE  Within' /\ Undisturbed' /\ Accounted'
<1>1. /\ TypeOK /\ Mutex /\ Settled /\ verdict \in VerdictType
      /\ Within /\ Accounted
  BY DEF IInv, VInv
<1>2. moments \subseteq moments'
  BY Remembered DEF Reading
<1>3. Within'
  <2>1. \A t \in Stages : Len(receipts[t]) \in Nat /\ verdict.listed[t] \in Nat
    BY <1>1 DEF TypeOK, VerdictType
  <2> QED BY <1>1, <2>1 DEF Within, Added
<1>4. ASSUME NEW t \in Stages, HasRow(t)
      PROVE  Listed(t)' = Listed(t)
  <2>1. verdict.listed[t] \in 1..Len(receipts[t])
    BY <1>1, <1>4, ListedType
  <2> QED BY <2>1 DEF Listed, Added
<1>5. Accounted'
  BY <1>1, <1>2, <1>4, StillAccounted DEF Counts, Unread, HasRow
<1>6. ASSUME NEW q \in Runs, NEW t \in Stages, HasRow(t)', Listed(t)'.run = q,
             ~Listed(t)'.ok, run'[q].pc = "executing"
      PROVE  FALSE
  <2>1. HasRow(t) /\ Listed(t).run = q /\ ~Listed(t).ok
    BY <1>4, <1>6 DEF HasRow
  <2>2. verdict.listed[t] \in 1..Len(receipts[t])
    BY <1>1, <2>1, ListedType
  <2>3. run[q].pc \in Over \union {"executing"}
    BY <1>1, <2>1, <2>2 DEF Settled, Listed
  <2>4. q # r
    BY <2>3 DEF Added, Over
  <2>5. run[q].pc = "executing"
    BY <1>6, <2>4
  <2> QED BY <1>1, <2>4, <2>5 DEF Mutex, Added, Active
<1> QED BY <1>3, <1>5, <1>6 DEF Undisturbed

LEMMA DoneReading ==
  ASSUME IInv, VInv, NEW r \in Runs, NEW s \in Stages, NEW ok \in BOOLEAN,
         VerifyNext, Reading, Done(r, s, ok),
         \A q \in Runs \ {r} : run'[q] = run[q], verdict' = verdict
  PROVE  Within' /\ Undisturbed' /\ Accounted'
<1>1. /\ TypeOK /\ Mutex /\ Settled /\ verdict \in VerdictType
      /\ Within /\ Accounted /\ Undisturbed
  BY DEF IInv, VInv
<1>2. /\ moments \subseteq moments'
      /\ \A c \in Contracts : <<c, Passing(c)'>> \in moments'
  BY Remembered DEF Reading
<1>3. Within'
  BY <1>1 DEF Within, Done
<1>4. \A q \in Runs : run'[q].pc # "executing"
  BY <1>1 DEF Mutex, Active, Done
<1>5. Undisturbed'
  BY <1>4 DEF Undisturbed
<1>6. \A t \in Stages \ {s} : Listed(t)' = Listed(t)
  BY DEF Listed, Done
<1>7. \A t \in Stages : (t \in Unread)' <=> t \in Unread
  BY DEF Unread, HasRow
\* The attempt that has just passed is the one that was listed: now all have passed.
<1>8. CASE HasRow(s) /\ Listed(s).run = r /\ ~Listed(s).ok /\ ok
  <2>1. \A t \in Stages :
          /\ verdict.listed[t] = Len(receipts[t])
          /\ verdict.rows[t].ok => HasRow(t) /\ verdict.rows[t] = Listed(t)
    BY <1>1, <1>8 DEF Undisturbed, Done
  <2>2. ASSUME NEW c \in Contracts, NEW t \in Stages, Counts(t, c)'
        PROVE  t \in Passing(c)'
    <3>1. Len(receipts'[t]) = verdict.listed[t]
      BY <2>1 DEF Done
    <3>2. HasRow(t)
      BY <2>1, <2>2, <1>7 DEF Counts, Unread
    <3>3. Last(t)' = Listed(t)'
      BY <3>1 DEF Last, Listed
    <3>4. receipts'[t] # <<>>
      <4>1. verdict.listed[t] \in Nat /\ verdict.listed[t] > 0
        BY <1>1, <3>2 DEF VerdictType, HasRow
      <4>2. Len(<<>>) = 0
        OBVIOUS
      <4> QED BY <3>1, <4>1, <4>2
    <3>5. Listed(t)'.ok /\ Listed(t)'.binding = c
      <4>1. CASE t = s
        <5>1. verdict.listed[s] \in 1..Len(receipts[s])
          BY <1>1, <1>8, ListedType
        <5>2. Listed(s)'.ok
          BY <1>8, <5>1 DEF Done, Listed
        <5>3. ~verdict.rows[s].ok
          BY <1>8, <2>1
        <5>4. Listed(s)'.binding = c
          BY <2>2, <4>1, <5>3 DEF Counts
        <5> QED BY <4>1, <5>2, <5>4
      <4>2. CASE t # s
        BY <1>6, <2>1, <2>2, <4>2 DEF Counts
      <4> QED BY <4>1, <4>2
    <3> QED BY <3>3, <3>4, <3>5 DEF Passing
  <2>3. ASSUME NEW c \in Contracts
        PROVE  \E m \in moments' :
                 m[1] = c /\ \A t \in Stages : Counts(t, c)' => t \in m[2]
    <3>1. <<c, Passing(c)'>>[1] = c /\ <<c, Passing(c)'>>[2] = Passing(c)'
      OBVIOUS
    <3> QED BY <1>2, <2>2, <3>1
  <2>4. Accounted'
    BY <2>3 DEF Accounted
  <2> QED BY <1>3, <1>5, <2>4
<1>9. CASE ~(HasRow(s) /\ Listed(s).run = r /\ ~Listed(s).ok /\ ok)
  <2>1. ASSUME NEW t \in Stages, NEW c \in Contracts, Counts(t, c)'
        PROVE  Counts(t, c)
    <3>1. CASE t # s
      BY <1>6, <1>7, <2>1, <3>1 DEF Counts
    <3>2. CASE t = s /\ t \in Unread /\ Listed(s)'.ok /\ Listed(s)'.binding = c
      <4>1. HasRow(s)
        BY <3>2 DEF Unread
      <4>2. verdict.listed[s] \in 1..Len(receipts[s])
        BY <1>1, <4>1, ListedType
      <4>3. CASE Listed(s).run = r
        <5>1. Listed(s)'.ok = ok /\ Listed(s)'.binding = Listed(s).binding
          BY <4>2, <4>3 DEF Done, Listed
        <5> QED BY <1>9, <3>2, <4>1, <4>3, <5>1 DEF Counts
      <4>4. CASE Listed(s).run # r
        BY <3>2, <4>2, <4>4 DEF Done, Listed, Counts
      <4> QED BY <4>3, <4>4
    <3>3. CASE t = s /\ verdict.rows[s].ok /\ verdict.rows[s].binding = c
      BY <3>3 DEF Counts
    <3> QED BY <1>7, <2>1, <3>1, <3>2, <3>3 DEF Counts
  <2>2. Accounted'
    BY <1>1, <1>2, <2>1, StillAccounted
  <2> QED BY <1>3, <1>5, <2>2
<1> QED BY <1>8, <1>9

-----------------------------------------------------------------------------
(* The induction. *)

LEMMA SystemStep ==
  ASSUME IInv, VInv, VerifyNext, [Next]_vars, verdict' = verdict
  PROVE  VInv'
<1>1. Settled'
  BY SettledStep DEF VInv
<1>2. ASSUME Reading
      PROVE  Within' /\ Undisturbed' /\ Accounted'
  <2>0. Within /\ Undisturbed /\ Accounted
    BY <1>2 DEF VInv
  <2>1. ASSUME NEW r \in Runs, Around(r) \/ BodyStep(r)
        PROVE  Within' /\ Undisturbed' /\ Accounted'
    <3>1. Effect(r) /\ \A q \in Runs \ {r} : run'[q] = run[q]
      BY <2>1, RunEffect
    <3>2. CASE Quiet(r)
      BY <1>2, <2>0, <3>1, <3>2, QuietReading
    <3>3. ASSUME NEW s \in Stages, Added(r, s)
          PROVE  Within' /\ Undisturbed' /\ Accounted'
      BY <1>2, <3>1, <3>3, AddedReading
    <3>4. ASSUME NEW s \in Stages, NEW ok \in BOOLEAN, Done(r, s, ok)
          PROVE  Within' /\ Undisturbed' /\ Accounted'
      BY <1>2, <3>1, <3>4, DoneReading
    <3> QED BY <3>1, <3>2, <3>3, <3>4 DEF Effect
  <2>2. CASE EditContract \/ EditWorkspace \/ ClearStaleLock \/ UNCHANGED vars
    <3>1. receipts' = receipts /\ run' = run
      BY <2>2, OtherSteps
    <3>2. moments \subseteq moments'
      BY <1>2, Remembered DEF Reading
    <3>3. Accounted'
      BY <2>0, <3>1, <3>2, StillAccounted DEF Counts, Listed, Unread, HasRow
    <3>4. Within' /\ Undisturbed'
      BY <2>0, <3>1 DEF Within, Undisturbed, Listed, HasRow
    <3> QED BY <3>3, <3>4
  <2> QED BY <2>1, <2>2, NextSteps
<1>3. ReadyWasAccurate'
  <2>1. CASE verdict.ready
    <3>1. verdict.pc = "decided"
      BY <2>1 DEF VInv
    <3>2. moments' = moments
      BY <3>1 DEF VerifyNext
    <3> QED BY <3>2 DEF VInv, ReadyWasAccurate
  <2>2. CASE ~verdict.ready
    BY <2>2 DEF ReadyWasAccurate
  <2> QED BY <2>1, <2>2
<1>4. (Reading => Within /\ Undisturbed /\ Accounted)'
  BY <1>2 DEF Reading
<1> QED BY <1>1, <1>3, <1>4 DEF VInv

\* The listing is itself a moment, and only what is the newest then is listed.
LEMMA ListStep ==
  ASSUME IInv, VInv, VerifyNext, NEW p \in Paths, ListReceipts(p)
  PROVE  VInv'
<1>1. /\ TypeOK /\ Settled /\ verdict \in VerdictType
      /\ verdict.pc = "idle" /\ ~verdict.ready
      /\ \A s \in Stages : verdict.rows[s] = NoRow
  BY DEF IInv, VInv, ListReceipts
<1>2. receipts' = receipts /\ run' = run
  BY DEF ListReceipts, vars, disk
<1>3. \A s \in Stages : Len(receipts[s]) \in Nat
  BY <1>1 DEF TypeOK
<1>4. /\ verdict' \in VerdictType
      /\ verdict'.pc = "reading" /\ ~verdict'.ready
      /\ \A s \in Stages : /\ verdict'.listed[s] = Len(receipts[s])
                           /\ verdict'.rows[s] = NoRow
  <2> DEFINE listing(l, b) ==
               [verdict EXCEPT !.pc = "reading", !.path = p, !.listed = l,
                               !.truncated = b]
             now == [s \in Stages |-> Len(receipts[s])]
  <2>1. ASSUME NEW l \in [Stages -> Nat], NEW b \in BOOLEAN
        PROVE  /\ listing(l, b) \in VerdictType
               /\ listing(l, b).pc = "reading"
               /\ listing(l, b).ready = verdict.ready
               /\ listing(l, b).listed = l /\ listing(l, b).rows = verdict.rows
    BY <1>1, <2>1 DEF VerdictType
  <2>2. (files > MaxFiles) \in BOOLEAN
    BY <1>1, BoundAssumption DEF TypeOK
  <2>3. now \in [Stages -> Nat] /\ \A s \in Stages : now[s] = Len(receipts[s])
    BY <1>3
  <2>4. verdict' = listing(now, files > MaxFiles)
    BY Zenon DEF ListReceipts
  <2> HIDE DEF listing, now
  <2>5. PICK b \in BOOLEAN : verdict' = listing(now, b)
    BY <2>2, <2>4, Zenon
  <2> QED BY <1>1, <2>1, <2>3, <2>5
<1>5. Settled'
  BY <1>1, <1>2 DEF Settled
<1>6. Within'
  BY <1>2, <1>3, <1>4 DEF Within
<1>7. Undisturbed'
  BY <1>2, <1>4 DEF Undisturbed, NoRow
<1>8. ASSUME NEW c \in Contracts
      PROVE  \E m \in moments' :
               m[1] = c /\ \A s \in Stages : Counts(s, c)' => s \in m[2]
  <2>1. ASSUME NEW s \in Stages, Counts(s, c)'
        PROVE  s \in Passing(c)'
    <3>1. HasRow(s)' /\ Listed(s)'.ok /\ Listed(s)'.binding = c
      BY <1>4, <2>1 DEF Counts, Unread, NoRow
    <3>2. Listed(s)' = Last(s)'
      BY <1>2, <1>4 DEF Listed, Last
    <3>3. Len(receipts'[s]) > 0
      BY <1>2, <1>4, <3>1 DEF HasRow
    <3>4. receipts'[s] # <<>>
      BY <3>3
    <3> QED BY <3>1, <3>2, <3>4 DEF Passing
  <2>2. <<c, Passing(c)'>> \in moments'
    BY <1>4, Remembered
  <2>3. <<c, Passing(c)'>>[1] = c /\ <<c, Passing(c)'>>[2] = Passing(c)'
    OBVIOUS
  <2> QED BY <2>1, <2>2, <2>3
<1>9. Accounted'
  BY <1>8 DEF Accounted
<1> QED BY <1>4, <1>5, <1>6, <1>7, <1>9 DEF VInv, ReadyWasAccurate

\* Reading a receipt makes no stage count that did not.
LEMMA ReadStep ==
  ASSUME IInv, VInv, VerifyNext, NEW s \in Stages, ReadReceipt(s)
  PROVE  VInv'
<1>1. /\ TypeOK /\ Settled /\ verdict \in VerdictType
      /\ verdict.pc = "reading" /\ ~verdict.ready
      /\ Within /\ Undisturbed /\ Accounted /\ s \in Unread /\ HasRow(s)
  BY DEF IInv, VInv, ReadReceipt, Reading, Unread
<1>2. receipts' = receipts /\ run' = run
  BY DEF ReadReceipt, vars, disk
<1>3. Listed(s) \in Attempts
  BY <1>1, ListedType
<1>4. /\ verdict' \in VerdictType
      /\ verdict'.pc = "reading" /\ ~verdict'.ready
      /\ verdict'.listed = verdict.listed
      /\ verdict'.rows[s] = Listed(s)
      /\ \A t \in Stages \ {s} : verdict'.rows[t] = verdict.rows[t]
  BY <1>1, <1>3 DEF ReadReceipt, VerdictType, Listed
<1>5. \A t \in Stages : Listed(t)' = Listed(t) /\ (HasRow(t)' <=> HasRow(t))
  BY <1>2, <1>4 DEF Listed, HasRow
<1>6. Settled' /\ Within'
  BY <1>1, <1>2, <1>4 DEF Settled, Within
<1>7. Undisturbed'
  BY <1>1, <1>2, <1>4, <1>5 DEF Undisturbed
<1>8. ASSUME NEW t \in Stages, NEW c \in Contracts, Counts(t, c)'
      PROVE  Counts(t, c)
  <2>1. CASE t = s
    BY <1>1, <1>4, <1>5, <1>8, <2>1 DEF Counts
  <2>2. CASE t # s
    BY <1>4, <1>5, <1>8, <2>2 DEF Counts, Unread
  <2> QED BY <2>1, <2>2
<1>9. Accounted'
  BY <1>1, <1>4, <1>8, Remembered, StillAccounted
<1> QED BY <1>4, <1>6, <1>7, <1>9 DEF VInv, ReadyWasAccurate

LEMMA ExpectStep ==
  ASSUME IInv, VInv, VerifyNext, ExpectStages
  PROVE  VInv'
<1>1. /\ TypeOK /\ Settled /\ verdict \in VerdictType
      /\ verdict.pc = "reading" /\ ~verdict.ready
      /\ Within /\ Undisturbed /\ Accounted
  BY DEF IInv, VInv, ExpectStages, Reading
<1>2. receipts' = receipts /\ run' = run
  BY DEF ExpectStages, vars, disk
<1>3. Expected \subseteq Named
  BY StageFacts
     DEF Expected, Base, Score, Compile, Stage, Named, Modules, StageNames
<1>4. /\ verdict' \in VerdictType
      /\ verdict'.pc = "deciding" /\ ~verdict'.ready
      /\ verdict'.listed = verdict.listed /\ verdict'.rows = verdict.rows
  BY <1>1, <1>3 DEF ExpectStages, VerdictType
<1>5. Settled' /\ Within' /\ Undisturbed'
  BY <1>1, <1>2, <1>4 DEF Settled, Within, Undisturbed, Listed, HasRow
<1>6. Accounted'
  BY <1>1, <1>2, <1>4, Remembered, StillAccounted
     DEF Counts, Listed, Unread, HasRow
<1> QED BY <1>4, <1>5, <1>6 DEF VInv, ReadyWasAccurate

\* Every stage that is expected counts under the contract: they passed together.
LEMMA DecideStep ==
  ASSUME IInv, VInv, VerifyNext, Decide
  PROVE  VInv'
<1>1. /\ Settled /\ verdict \in VerdictType /\ verdict.pc = "deciding" /\ Accounted
  BY DEF VInv, Decide, Reading
<1>2. receipts' = receipts /\ run' = run
  BY DEF Decide, vars, disk
<1> DEFINE c == file[verdict.path]
           decided(ready) == [verdict EXCEPT !.pc = "decided", !.ready = ready,
                                !.contract = IF ready THEN c ELSE None]
<1>3. PICK ready \in BOOLEAN :
        /\ verdict' = decided(ready)
        /\ ready => c \in Contracts /\ Ready(c)
  BY DEF Decide
<1>4. /\ verdict' \in VerdictType /\ verdict'.pc = "decided"
      /\ verdict'.ready = ready /\ verdict'.required = verdict.required
      /\ ready => verdict'.contract = c
  BY <1>1, <1>3 DEF VerdictType
<1>5. moments' = moments
  BY <1>4 DEF VerifyNext
<1>6. Settled'
  BY <1>1, <1>2 DEF Settled
<1>7. ReadyWasAccurate'
  <2>1. CASE ready
    <3>1. c \in Contracts /\ Ready(c)
      BY <1>3, <2>1
    <3>2. PICK m \in moments :
            m[1] = c /\ \A s \in Stages : Counts(s, c) => s \in m[2]
      BY <1>1, <3>1 DEF Accounted
    <3>3. \A s \in verdict.required : s \in Stages /\ Counts(s, c)
      BY <3>1 DEF Ready, PassedFor, HasRow, Counts
    <3>4. verdict.required \subseteq m[2]
      BY <3>2, <3>3
    <3> QED BY <1>4, <1>5, <2>1, <3>2, <3>4 DEF ReadyWasAccurate
  <2>2. CASE ~ready
    BY <1>4, <2>2 DEF ReadyWasAccurate
  <2> QED BY <2>1, <2>2
<1> QED BY <1>4, <1>6, <1>7 DEF VInv, Reading

LEMMA VerifySteps ==
  ASSUME IInv, VInv, [VerifyNext]_<<vars, verifyVars>>
  PROVE  [Next]_vars /\ VInv'
<1>1. CASE UNCHANGED <<vars, verifyVars>>
  <2>1. UNCHANGED vars /\ receipts' = receipts /\ run' = run
        /\ verdict' = verdict /\ moments' = moments
    BY <1>1 DEF vars, disk, verifyVars
  <2>2. Settled' /\ ReadyWasAccurate' /\ (Reading' <=> Reading)
    BY <2>1 DEF VInv, Settled, ReadyWasAccurate, Reading
  <2>3. Reading => Within' /\ Undisturbed' /\ Accounted'
    BY <2>1 DEF VInv, Within, Undisturbed, Accounted, Counts, Unread, Listed, HasRow
  <2> QED BY <2>1, <2>2, <2>3 DEF VInv
<1>2. CASE VerifyNext
  <2>1. CASE Next /\ UNCHANGED verdict
    BY <1>2, <2>1, SystemStep
  <2>2. CASE VerifyStep
    <3>1. UNCHANGED vars
      BY <2>2 DEF VerifyStep, ListReceipts, ReadReceipt, ExpectStages, Decide
    <3> QED BY <1>2, <2>2, <3>1, ListStep, ReadStep, ExpectStep, DecideStep
            DEF VerifyStep
  <2> QED BY <1>2, <2>1, <2>2 DEF VerifyNext
<1> QED BY <1>1, <1>2

\* What verify_feature calls release_ready was ready at one moment of the
\* verification, although rollup_receipts read the receipts one by one: all the
\* stages it expected had then passed under the contract it names.
THEOREM ReadyIsAccurate == VerifySpec => []ReadyWasAccurate
<1>1. VerifyInit => IInv /\ VInv
  BY InitIInv, InitVInv DEF VerifyInit
<1>2. IInv /\ VInv /\ [VerifyNext]_<<vars, verifyVars>> => (IInv /\ VInv)'
  BY VerifySteps, NextIInv
<1>3. IInv /\ VInv => ReadyWasAccurate
  BY DEF VInv
<1> QED BY <1>1, <1>2, <1>3, PTL DEF VerifySpec

=============================================================================
