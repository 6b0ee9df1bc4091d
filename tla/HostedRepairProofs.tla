------------------------- MODULE HostedRepairProofs -------------------------
(***************************************************************************)
(* Proofs about HostedRepair, for any workers, repairs, approvals and      *)
(* checks.  Journal is what the record of an attempt says at any time,     *)
(* Booked what the row of a repair says of the attempt; Held is what a     *)
(* worker relies on between two steps: of its row, which nobody else       *)
(* settles while it dispatches, and of its attempt, which nobody else      *)
(* touches while it is at work on it, since whoever made the attempt       *)
(* directory is alone there (Exclusive).                                   *)
(***************************************************************************)
EXTENDS HostedRepair, TLAPS

\* The attempt directory is this worker's.
Lifecycle == {"persist", "prepare", "stage", "check", "fail", "finish"}

\* The worker has an approval, and a repair.
WithApproval == Executing \cup {"claim", "inspect", "judged"}
WithRepair == {"dispatch", "claim", "admit", "reconcile", "inspect", "judged"}

Journal(a) ==
  /\ \A c \in Negative : <<"baseline", c>> \notin attempt[a].checks
  /\ attempt[a].status = "VERIFIED" => Complete(a)
  /\ a \in halted => ~Live(a) /\ attempt[a].status # "VERIFIED"

Booked(r) ==
  /\ row[r].status # "none" => row[r].approval \in Approvals
  /\ row[r].status = "completed" =>
       LET a == row[r].approval
       IN Finished(a) /\ Complete(a) /\ attempt[a].by = r

Working(w) ==
  /\ Mine(w).by = worker[w].repair
  /\ ~Mine(w).cleaned
  /\ Mine(w).status # "none"
  /\ ~At(w, "finish") => Mine(w).status # "VERIFIED"
  /\ At(w, "finish") => Mine(w).status \in {"VERIFIED", "STOPPED", "FAILED"}
  /\ worker[w].pc \in {"persist", "prepare"} => Mine(w).checks = {}
  /\ worker[w].pc \in {"stage", "check"} =>
       /\ worker[w].stage \in {"baseline", "repaired"}
       /\ worker[w].stage = "repaired" => Recorded(MyApproval(w), "baseline") = Positive
  /\ At(w, "check") => worker[w].check \in Selected(worker[w].stage)
  /\ At(w, "stage") /\ Complete(MyApproval(w)) => MyApproval(w) \notin halted
  /\ At(w, "fail") => worker[w].outcome \in {"STOPPED", "FAILED"}

Settling(w) ==
  worker[w].outcome = "VERIFIED" =>
    /\ Finished(MyApproval(w)) /\ Complete(MyApproval(w))
    /\ Mine(w).by = worker[w].repair

\* What a worker knows by itself, of its row, and of its attempt.
Named(w) ==
  /\ worker[w].pc \in WithApproval => MyApproval(w) \in Approvals
  /\ worker[w].pc \in WithRepair => worker[w].repair \in Repairs
  /\ At(w, "judged") => worker[w].outcome # "recovered"

Owns(w) ==
  /\ At(w, "claim") => MyRow(w).approval = MyApproval(w) /\ MyRow(w).status # "none"
  /\ worker[w].pc \in Executing /\ worker[w].repair # None =>
       MyRow(w).status = "executing" /\ MyRow(w).approval = MyApproval(w)

Held(w) ==
  /\ Named(w) /\ Owns(w)
  /\ worker[w].pc \in Lifecycle => Working(w)
  /\ At(w, "settle") => Settling(w)

Exclusive ==
  \A v, w \in Workers :
    /\ worker[v].pc \in Lifecycle /\ worker[w].pc \in Lifecycle
    /\ MyApproval(v) = MyApproval(w)
    => v = w

OneDispatcher ==
  \A v, w \in Workers, r \in Repairs : Dispatches(v, r) /\ Dispatches(w, r) => v = w

IInv ==
  /\ TypeOK
  /\ \A a \in Approvals : Journal(a)
  /\ \A r \in Repairs : Booked(r)
  /\ \A w \in Workers : Held(w)
  /\ Exclusive
  /\ OneDispatcher
  /\ UnsettledWasCutOff

-----------------------------------------------------------------------------
(* What one worker's step leaves alone. *)

LEMMA SameRecord ==
  ASSUME NEW a, attempt'[a] = attempt[a]
  PROVE  /\ \A stage : Recorded(a, stage)' = Recorded(a, stage)
         /\ Complete(a)' = Complete(a)
<1>1. \A stage : Recorded(a, stage)' = Recorded(a, stage)
  BY DEF Recorded
<1>2. QED
  BY <1>1 DEF Complete

\* The attempt of a is as it was; a is not halted once it is complete.
Kept(a) ==
  /\ attempt'[a] = attempt[a]
  /\ a \in tree' => a \in tree
  /\ a \in halted' => a \in halted \/ ~Complete(a)

LEMMA WorkingKept ==
  ASSUME NEW w, worker'[w] = worker[w], Kept(MyApproval(w)), Working(w)
  PROVE  Working(w)'
<1> DEFINE a == MyApproval(w)
<1>1. MyApproval(w)' = a /\ Mine(w)' = Mine(w) /\ attempt'[a] = attempt[a]
  BY DEF MyApproval, Mine, Kept
<1>2. /\ Recorded(MyApproval(w), "baseline")' = Recorded(a, "baseline")
      /\ Complete(MyApproval(w))' = Complete(a)
  BY <1>1, SameRecord DEF Recorded, Complete
<1>3. a \in halted' => a \in halted \/ ~Complete(a)
  BY DEF Kept
<1>4. QED
  BY <1>1, <1>2, <1>3 DEF Working, At, Selected, Checks

LEMMA SettlingKept ==
  ASSUME NEW w, worker'[w] = worker[w], Settling(w),
         worker[w].outcome = "VERIFIED" => Kept(MyApproval(w))
  PROVE  Settling(w)'
<1> DEFINE a == MyApproval(w)
<1>1. CASE worker[w].outcome = "VERIFIED"
  <2>1. MyApproval(w)' = a /\ Mine(w)' = Mine(w) /\ attempt'[a] = attempt[a]
    BY <1>1 DEF MyApproval, Mine, Kept
  <2>2. Complete(MyApproval(w))' = Complete(a)
    BY <2>1, SameRecord DEF Recorded, Complete
  <2>3. Finished(MyApproval(w))' = (attempt[a].status = "VERIFIED" /\ attempt[a].cleaned /\ a \notin tree')
    BY <2>1 DEF Finished
  <2>4. QED
    BY <1>1, <2>1, <2>2, <2>3 DEF Settling, Finished, Kept
<1>2. CASE worker[w].outcome # "VERIFIED"
  BY <1>2 DEF Settling
<1>3. QED
  BY <1>1, <1>2

\* The row of r is as it was for everybody but v.
RowKept(v, r) ==
  \/ row'[r] = row[r]
  \/ row[r].status = "none"
  \/ /\ row'[r].approval = row[r].approval /\ row'[r].status # "none"
     /\ row[r].status = "registered" \/ Dispatches(v, r)

LEMMA OwnsKept ==
  ASSUME NEW v \in Workers, NEW w \in Workers \ {v}, worker'[w] = worker[w],
         worker[w] \in WorkerType, OneDispatcher, Named(w), Owns(w),
         \A r \in Repairs : RowKept(v, r)
  PROVE  Owns(w)'
<1>1. CASE At(w, "claim")
  BY <1>1 DEF At, Owns, Named, MyRow, MyApproval, RowKept, WithRepair, Executing
<1>2. CASE worker[w].pc \in Executing /\ worker[w].repair # None
  <2>1. worker[w].repair \in Repairs /\ Dispatches(w, worker[w].repair)
    BY <1>2 DEF WorkerType, Dispatches
  <2>2. ~Dispatches(v, worker[w].repair)
    BY <2>1 DEF OneDispatcher
  <2>3. row'[worker[w].repair] = row[worker[w].repair]
    BY <1>2, <2>1, <2>2 DEF RowKept, Owns, MyRow
  <2>4. QED
    BY <1>2, <2>3 DEF Owns, MyRow, MyApproval, At, Executing
<1>3. CASE ~At(w, "claim") /\ ~(worker[w].pc \in Executing /\ worker[w].repair # None)
  BY <1>3 DEF Owns, At
<1>4. QED
  BY <1>1, <1>2, <1>3

\* v changes only its own attempt, or one that is not there yet.
AttemptKept(v, a) ==
  \/ Kept(a)
  \/ attempt[a].status = "none"
  \/ worker[v].pc \in Lifecycle /\ a = MyApproval(v)

LEMMA HeldByOthers ==
  ASSUME IInv, NEW v \in Workers, NEW w \in Workers \ {v}, worker'[w] = worker[w],
         \A a \in Approvals : AttemptKept(v, a),
         \A r \in Repairs : RowKept(v, r)
  PROVE  Held(w)'
<1> DEFINE a == MyApproval(w)
<1>1. worker[w] \in WorkerType /\ Held(w) /\ OneDispatcher /\ Exclusive
  BY DEF IInv, TypeOK
<1>2. Named(w)'
  BY <1>1 DEF Held, Named, MyApproval, At
<1>3. Owns(w)'
  BY <1>1, OwnsKept DEF Held
<1>4. worker[w].pc \in Lifecycle => Working(w)'
  <2> SUFFICES ASSUME worker[w].pc \in Lifecycle PROVE Working(w)'
    OBVIOUS
  <2>1. a \in Approvals /\ Working(w) /\ attempt[a].status # "none"
    BY <1>1 DEF Held, Named, Working, Lifecycle, WithApproval, Executing, Mine
  <2>2. ~(worker[v].pc \in Lifecycle /\ a = MyApproval(v))
    BY <1>1 DEF Exclusive
  <2>3. Kept(a)
    BY <2>1, <2>2 DEF AttemptKept
  <2>4. QED
    BY <2>1, <2>3, WorkingKept
<1>5. At(w, "settle") => Settling(w)'
  <2> SUFFICES ASSUME At(w, "settle") PROVE Settling(w)'
    OBVIOUS
  <2>1. a \in Approvals /\ Settling(w)
    BY <1>1 DEF Held, Named, WithApproval, Executing, At
  <2>2. worker[w].outcome = "VERIFIED" => attempt[a].status # "none" /\ attempt[a].cleaned
    BY <2>1 DEF Settling, Finished
  <2>3. worker[v].pc \in Lifecycle => ~attempt[MyApproval(v)].cleaned
    BY DEF IInv, Held, Working, Mine
  <2>4. worker[w].outcome = "VERIFIED" => Kept(a)
    BY <2>1, <2>2, <2>3 DEF AttemptKept
  <2>5. QED
    BY <2>1, <2>4, SettlingKept
<1>6. QED
  BY <1>2, <1>3, <1>4, <1>5 DEF Held, At

\* A step of v keeps the invariant if it does so where v is at work.
LEMMA StepKeeps ==
  ASSUME IInv, TypeOK', NEW v \in Workers,
         \A w \in Workers \ {v} : worker'[w] = worker[w],
         \A a \in Approvals : AttemptKept(v, a),
         \A r \in Repairs : RowKept(v, r),
         \A a \in Approvals : Journal(a)',
         \A r \in Repairs : Booked(r)',
         Held(v)',
         worker'[v].pc \in Lifecycle =>
           \/ worker[v].pc \in Lifecycle /\ MyApproval(v)' = MyApproval(v)
           \/ attempt[MyApproval(v)'].status = "none",
         \A r \in Repairs : Dispatches(v, r)' => Dispatches(v, r) \/ row[r].status # "executing",
         crashed \subseteq crashed',
         \A r \in Repairs \ crashed' : row'[r].status = "executing" =>
           Dispatches(v, r)' \/ (row[r].status = "executing" /\ ~Dispatches(v, r))
  PROVE  IInv'
<1>1. \A w \in Workers : Held(w)'
  BY HeldByOthers
<1>2. \A w \in Workers \ {v} : MyApproval(w)' = MyApproval(w)
  BY DEF MyApproval
<1>3. ASSUME NEW w \in Workers \ {v}, worker'[v].pc \in Lifecycle, worker[w].pc \in Lifecycle,
             MyApproval(v)' = MyApproval(w)
      PROVE  FALSE
  <2>1. Working(w)
    BY <1>3 DEF IInv, Held
  <2>2. attempt[MyApproval(v)'].status # "none"
    BY <1>3, <2>1 DEF Working, Mine
  <2>3. worker[v].pc \in Lifecycle /\ MyApproval(v) = MyApproval(w)
    BY <1>3, <2>2
  <2>4. QED
    BY <1>3, <2>3 DEF IInv, Exclusive
<1>4. Exclusive'
  <2> SUFFICES ASSUME NEW u \in Workers, NEW w \in Workers, u # w,
                      worker'[u].pc \in Lifecycle, worker'[w].pc \in Lifecycle,
                      MyApproval(u)' = MyApproval(w)'
               PROVE  FALSE
    BY DEF Exclusive
  <2>1. CASE u = v
    BY <1>2, <1>3, <2>1
  <2>2. CASE w = v
    BY <1>2, <1>3, <2>2
  <2>3. CASE u # v /\ w # v
    BY <1>2, <2>3 DEF IInv, Exclusive
  <2>4. QED
    BY <2>1, <2>2, <2>3
<1>5. \A w \in Workers \ {v}, r \in Repairs : Dispatches(w, r)' = Dispatches(w, r)
  BY DEF Dispatches
<1>6. ASSUME NEW w \in Workers, NEW r \in Repairs, Dispatches(w, r)
      PROVE  row[r].status = "executing"
  BY <1>6, RepairNoneAssumption DEF IInv, Held, Owns, Dispatches, MyRow
<1>7. OneDispatcher'
  <2> SUFFICES ASSUME NEW u \in Workers, NEW w \in Workers, NEW r \in Repairs, u # w,
                      Dispatches(u, r)', Dispatches(w, r)'
               PROVE  FALSE
    BY DEF OneDispatcher
  <2>1. Dispatches(u, r) /\ Dispatches(w, r)
    BY <1>5, <1>6
  <2>2. QED
    BY <2>1 DEF IInv, OneDispatcher
<1>8. UnsettledWasCutOff'
  <2> SUFFICES ASSUME NEW r \in Repairs \ crashed', row'[r].status = "executing"
               PROVE  \E w \in Workers : Dispatches(w, r)'
    BY DEF UnsettledWasCutOff
  <2>1. CASE Dispatches(v, r)'
    BY <2>1
  <2>2. CASE row[r].status = "executing" /\ ~Dispatches(v, r)
    <3>1. PICK w \in Workers : Dispatches(w, r)
      BY <2>2 DEF IInv, UnsettledWasCutOff
    <3>2. QED
      BY <1>5, <2>2, <3>1
  <2>3. QED
    BY <2>1, <2>2
<1>9. QED
  BY <1>1, <1>4, <1>7, <1>8 DEF IInv

\* Nothing but v's own state is changed, and v begins nothing.
LEMMA QuietStep ==
  ASSUME IInv, TypeOK', NEW v \in Workers, UNCHANGED <<attemptVars, row>>,
         \A w \in Workers \ {v} : worker'[w] = worker[w],
         Held(v)',
         worker'[v].pc \in Lifecycle =>
           worker[v].pc \in Lifecycle /\ MyApproval(v)' = MyApproval(v),
         \A r \in Repairs : Dispatches(v, r)' => Dispatches(v, r),
         crashed \subseteq crashed',
         \A r \in Repairs \ crashed' : Dispatches(v, r) => Dispatches(v, r)'
  PROVE  IInv'
<1>1. \A a : Complete(a)' = Complete(a)
  BY SameRecord DEF attemptVars
<1>2. \A a \in Approvals : AttemptKept(v, a) /\ Journal(a)'
  BY <1>1 DEF IInv, attemptVars, AttemptKept, Kept, Journal, Live
<1>3. \A r \in Repairs : RowKept(v, r) /\ Booked(r)'
  BY <1>1 DEF IInv, attemptVars, RowKept, Booked, Finished
<1>4. QED
  BY <1>2, <1>3, StepKeeps

\* v is at work on its attempt.
LEMMA WorkStep ==
  ASSUME IInv, TypeOK', NEW v \in Workers, NEW b, b = MyApproval(v),
         UNCHANGED <<dead, stop, halted, row, crashed>>,
         \A w \in Workers \ {v} : worker'[w] = worker[w],
         worker[v].pc \in Lifecycle, worker'[v].pc \in Lifecycle \cup {"settle"},
         worker'[v].repair = worker[v].repair, worker'[v].approval = worker[v].approval,
         \A a \in Approvals \ {b} :
           attempt'[a] = attempt[a] /\ (a \in tree' => a \in tree),
         Journal(b)',
         worker'[v].pc \in Lifecycle => Working(v)',
         At(v, "settle")' => Settling(v)'
  PROVE  IInv'
<1>1. b \in Approvals /\ MyApproval(v)' = b /\ Held(v) /\ Working(v) /\ ~attempt[b].cleaned
  BY DEF IInv, Held, Named, Working, Mine, MyApproval, WithApproval, Executing, Lifecycle
<1>2. \A a \in Approvals : AttemptKept(v, a)
  BY DEF AttemptKept, Kept
<1>3. \A a \in Approvals : Journal(a)'
  <2> SUFFICES ASSUME NEW a \in Approvals \ {b} PROVE Journal(a)'
    OBVIOUS
  <2>1. attempt'[a] = attempt[a] /\ Complete(a)' = Complete(a) /\ Journal(a)
    BY SameRecord DEF IInv
  <2>2. QED
    BY <2>1 DEF Journal, Live
<1>4. \A r \in Repairs : RowKept(v, r) /\ Booked(r)'
  <2> SUFFICES ASSUME NEW r \in Repairs PROVE Booked(r)'
    BY DEF RowKept
  <2>1. CASE row[r].status = "completed"
    <3> DEFINE a == row[r].approval
    <3>1. a \in Approvals /\ Finished(a) /\ Complete(a) /\ attempt[a].by = r
      BY <2>1 DEF IInv, Booked
    <3>2. attempt'[a] = attempt[a] /\ a \notin tree'
      BY <1>1, <3>1 DEF Finished
    <3>3. Complete(a)' = Complete(a)
      BY <3>2, SameRecord
    <3>4. QED
      BY <3>1, <3>2, <3>3 DEF Booked, Finished
  <2>2. CASE row[r].status # "completed"
    BY <2>2 DEF IInv, Booked
  <2>3. QED
    BY <2>1, <2>2
<1>5. Held(v)'
  <2>1. Named(v)'
    BY <1>1 DEF Held, Named, MyApproval, At, WithRepair, Lifecycle
  <2>2. Owns(v)'
    BY <1>1 DEF Held, Owns, MyRow, MyApproval, At, Lifecycle, Executing
  <2>3. QED
    BY <2>1, <2>2 DEF Held
<1>6. \A r \in Repairs : Dispatches(v, r)' = Dispatches(v, r)
  BY DEF Dispatches, Lifecycle, Executing
<1>7. QED
  BY <1>1, <1>2, <1>3, <1>4, <1>5, <1>6, StepKeeps DEF MyApproval

-----------------------------------------------------------------------------
(* The types. *)

LEMMA BecomesType ==
  ASSUME TypeOK, NEW v \in Workers, NEW new \in WorkerType, Becomes(v, new)
  PROVE  worker' \in [Workers -> WorkerType]
BY DEF TypeOK, Becomes

LEMMA LeavesType ==
  ASSUME TypeOK, NEW v \in Workers, Leaves(v)
  PROVE  worker' \in [Workers -> WorkerType]
<1>1. [Idle EXCEPT !.pc = "leave"] \in WorkerType
  BY DEF Idle, WorkerType
<1>2. QED
  BY <1>1, BecomesType DEF Leaves

\* Which steps of an attempt change which of its variables, and the types of all.
\* The positions of a dispatch are positions of a worker.
LEMMA Positions ==
  /\ "admit" \in Executing /\ "begin" \in Executing /\ "persist" \in Executing
  /\ "prepare" \in Executing /\ "stage" \in Executing /\ "check" \in Executing
  /\ "fail" \in Executing /\ "finish" \in Executing /\ "settle" \in Executing
BY DEF Executing

\* A worker and an attempt stay what they are when these fields change.
LEMMA WorkerFields ==
  ASSUME NEW k \in WorkerType,
         NEW pc \in Executing \cup {"idle", "dispatch", "claim", "reconcile",
                                    "inspect", "judged", "leave"}
  PROVE  /\ [k EXCEPT !.pc = pc] \in WorkerType
         /\ \A a \in Approvals \cup {None} :
              [k EXCEPT !.pc = pc, !.approval = a] \in WorkerType
         /\ \A t \in {"none", "baseline", "repaired"} :
              /\ [k EXCEPT !.stage = t] \in WorkerType
              /\ [k EXCEPT !.pc = pc, !.stage = t] \in WorkerType
         /\ \A o \in {"none", "VERIFIED", "STOPPED", "FAILED", "refused",
                      "recovered", "pending"} :
              [k EXCEPT !.pc = pc, !.outcome = o] \in WorkerType
<1>1. [k EXCEPT !.pc = pc] \in WorkerType
  BY DEF WorkerType
<1>2. ASSUME NEW a \in Approvals \cup {None}
      PROVE  [k EXCEPT !.pc = pc, !.approval = a] \in WorkerType
  BY DEF WorkerType
<1>3. ASSUME NEW t \in {"none", "baseline", "repaired"}
      PROVE  [k EXCEPT !.stage = t] \in WorkerType
  BY DEF WorkerType
<1>4. ASSUME NEW t \in {"none", "baseline", "repaired"}
      PROVE  [k EXCEPT !.pc = pc, !.stage = t] \in WorkerType
  BY DEF WorkerType
<1>5. ASSUME NEW o \in {"none", "VERIFIED", "STOPPED", "FAILED", "refused",
                      "recovered", "pending"}
      PROVE  [k EXCEPT !.pc = pc, !.outcome = o] \in WorkerType
  BY DEF WorkerType
<1>6. QED
  BY <1>1, <1>2, <1>3, <1>4, <1>5

LEMMA AttemptFields ==
  ASSUME NEW x \in AttemptType,
         NEW status \in {"none", "made", "RUNNING", "VERIFIED", "STOPPED", "FAILED"},
         NEW cleaned \in BOOLEAN
  PROVE  /\ [x EXCEPT !.status = status] \in AttemptType
         /\ [x EXCEPT !.status = status, !.cleaned = cleaned] \in AttemptType
<1>1. [x EXCEPT !.status = status] \in AttemptType
  BY DEF AttemptType
<1>2. [x EXCEPT !.status = status, !.cleaned = cleaned] \in AttemptType
  BY DEF AttemptType
<1>3. QED
  BY <1>1, <1>2

LEMMA AttemptStepType ==
  ASSUME IInv, NEW v \in Workers, AttemptStep(v)
  PROVE  /\ attempt' \in [Approvals -> AttemptType] /\ tree' \subseteq Approvals
         /\ worker' \in [Workers -> WorkerType]
         /\ UNCHANGED <<dead, stop, halted>>
<1> DEFINE a == MyApproval(v)
<1>1. TypeOK /\ worker[v] \in WorkerType /\ worker \in [Workers -> WorkerType]
  BY DEF IInv, TypeOK
<1>2. ASSUME worker[v].pc \in WithApproval
      PROVE  a \in Approvals /\ attempt[a] \in AttemptType
  BY <1>1, <1>2 DEF IInv, Held, Named, TypeOK
<1>3. CASE BeginAttempt(v)
  <2>1. a \in Approvals
    BY <1>2, <1>3 DEF BeginAttempt, At, WithApproval, Executing
  <2>2. [NoAttempt EXCEPT !.status = "made", !.by = worker[v].repair] \in AttemptType
    BY <1>1 DEF NoAttempt, AttemptType, WorkerType
  <2>3. [worker[v] EXCEPT !.pc = "persist"] \in WorkerType
        /\ [worker[v] EXCEPT !.pc = "settle", !.outcome = "refused"] \in WorkerType
    BY <1>1 DEF WorkerType, Executing
  <2>4. QED
    BY <1>1, <1>3, <2>1, <2>2, <2>3, BecomesType DEF BeginAttempt, TypeOK, Moves
<1>4. CASE StartAttempt(v)
  <2>1. a \in Approvals /\ attempt[a] \in AttemptType
    BY <1>2, <1>4 DEF StartAttempt, At, WithApproval, Executing
  <2>2. [attempt[a] EXCEPT !.status = "RUNNING"] \in AttemptType
        /\ [worker[v] EXCEPT !.pc = "prepare"] \in WorkerType
    BY <1>1, <2>1 DEF AttemptType, WorkerType, Executing
  <2>3. attempt' = [attempt EXCEPT ![a] = [attempt[a] EXCEPT !.status = "RUNNING"]]
    BY <1>1, <1>4, <2>1 DEF StartAttempt, TypeOK
  <2>4. QED
    BY <1>1, <1>4, <2>2, <2>3, BecomesType DEF StartAttempt, TypeOK, Moves
<1>5. CASE Prepare(v)
  <2>1. a \in Approvals
    BY <1>2, <1>5 DEF Prepare, At, WithApproval, Executing
  <2>2. [worker[v] EXCEPT !.pc = "stage", !.stage = "baseline"] \in WorkerType
    BY <1>1 DEF WorkerType, Executing
  <2>3. QED
    BY <1>1, <1>5, <2>1, <2>2, BecomesType DEF Prepare, TypeOK
<1>6. \A outcome \in {"STOPPED", "FAILED"} :
        [worker[v] EXCEPT !.pc = "fail", !.stage = "none", !.check = None,
                          !.outcome = outcome] \in WorkerType
  BY <1>1 DEF WorkerType, Executing
<1>7. CASE StartCheck(v)
  <2>1. \A c \in Checks : [worker[v] EXCEPT !.pc = "check", !.check = c] \in WorkerType
    BY <1>1 DEF WorkerType, Executing
  <2>2. Selected(worker[v].stage) \subseteq Checks
    BY DEF Selected, Checks
  <2>3. QED
    BY <1>1, <1>6, <1>7, <2>1, <2>2, BecomesType DEF StartCheck, Ends, TypeOK, attemptVars
<1>8. CASE EndCheck(v)
  <2>1. a \in Approvals /\ attempt[a] \in AttemptType /\ Working(v)
    BY <1>2, <1>8 DEF EndCheck, At, WithApproval, Executing, IInv, Held, Lifecycle
  <2>2. worker[v].stage \in {"baseline", "repaired"} /\ worker[v].check \in Checks
    BY <1>8, <2>1 DEF EndCheck, At, Working, Selected, Checks
  <2>3. [attempt[a] EXCEPT !.checks = @ \cup {<<worker[v].stage, worker[v].check>>}] \in AttemptType
    BY <2>1, <2>2 DEF AttemptType
  <2>4. [attempt EXCEPT ![a].checks = @ \cup {<<worker[v].stage, worker[v].check>>}]
          \in [Approvals -> AttemptType]
    BY <1>1, <2>1, <2>3 DEF TypeOK
  <2>5. [worker[v] EXCEPT !.pc = "stage", !.check = None] \in WorkerType
    BY <1>1 DEF WorkerType, Executing
  <2>6. worker' \in [Workers -> WorkerType]
    BY <1>1, <1>6, <1>8, <2>5, BecomesType DEF EndCheck, Ends
  <2>7. QED
    BY <1>1, <1>8, <2>4, <2>6 DEF EndCheck, TypeOK
<1>9. CASE ApplyPatch(v)
  <2>1. [worker[v] EXCEPT !.stage = "repaired"] \in WorkerType
    BY <1>1 DEF WorkerType
  <2>2. QED
    BY <1>1, <1>6, <1>9, <2>1, BecomesType DEF ApplyPatch, Ends, TypeOK, attemptVars
<1>10. CASE MarkVerified(v)
  <2>1. a \in Approvals /\ attempt[a] \in AttemptType
    BY <1>2, <1>10 DEF MarkVerified, StageDone, At, WithApproval, Executing
  <2>2. [attempt[a] EXCEPT !.status = "VERIFIED"] \in AttemptType
        /\ [worker[v] EXCEPT !.pc = "finish", !.stage = "none"] \in WorkerType
    BY <1>1, <2>1, Positions, WorkerFields, AttemptFields
  <2>3. attempt' = [attempt EXCEPT ![a] = [attempt[a] EXCEPT !.status = "VERIFIED"]]
    BY <1>1, <1>10, <2>1 DEF MarkVerified, TypeOK
  <2>4. QED
    BY <1>1, <1>10, <2>2, <2>3, BecomesType DEF MarkVerified, TypeOK
<1>11. CASE Raise(v)
  BY <1>1, <1>6, <1>11, BecomesType DEF Raise, Ends, TypeOK, attemptVars
<1>12. CASE PersistFailure(v)
  <2>1. a \in Approvals /\ attempt[a] \in AttemptType /\ Working(v)
    BY <1>2, <1>12 DEF PersistFailure, At, WithApproval, Executing, IInv, Held, Lifecycle
  <2>2. worker[v].outcome \in {"STOPPED", "FAILED"}
    BY <1>12, <2>1 DEF PersistFailure, Working, At
  <2>3. [attempt[a] EXCEPT !.status = worker[v].outcome] \in AttemptType
        /\ [worker[v] EXCEPT !.pc = "finish", !.outcome = "none"] \in WorkerType
    BY <1>1, <2>1, <2>2, Positions, WorkerFields, AttemptFields
  <2>4. attempt' = [attempt EXCEPT ![a] = [attempt[a] EXCEPT !.status = worker[v].outcome]]
    BY <1>1, <1>12, <2>1 DEF PersistFailure, TypeOK
  <2>5. QED
    BY <1>1, <1>12, <2>3, <2>4, BecomesType DEF PersistFailure, TypeOK
<1>13. CASE FinishAttempt(v)
  <2>1. a \in Approvals /\ attempt[a] \in AttemptType /\ Working(v)
    BY <1>2, <1>13 DEF FinishAttempt, At, WithApproval, Executing, IInv, Held, Lifecycle
  <2>2. attempt[a].status \in {"VERIFIED", "STOPPED", "FAILED"}
    BY <1>13, <2>1 DEF FinishAttempt, Working, At, Mine
  <2>3. PICK confirmed \in BOOLEAN, removed \in {TRUE} \cup {MyApproval(v) \notin tree} :
          LET status == IF confirmed THEN Mine(v).status ELSE Downgraded(Mine(v).status)
          IN /\ tree' = IF removed THEN tree \ {MyApproval(v)} ELSE tree
             /\ attempt' = [attempt EXCEPT ![MyApproval(v)].status = status,
                                           ![MyApproval(v)].cleaned = confirmed]
             /\ Becomes(v, [worker[v] EXCEPT !.pc = "settle", !.outcome = status])
    BY <1>13 DEF FinishAttempt
  <2> DEFINE status == IF confirmed THEN Mine(v).status ELSE Downgraded(Mine(v).status)
  <2>4. status \in {"VERIFIED", "STOPPED", "FAILED"}
    BY <2>2 DEF Mine, Downgraded
  <2>5. [attempt[a] EXCEPT !.status = status, !.cleaned = confirmed] \in AttemptType
    BY <2>1, <2>4, AttemptFields
  <2>6. [worker[v] EXCEPT !.pc = "settle", !.outcome = status] \in WorkerType
    BY <1>1, <2>4, Positions, WorkerFields
  <2>7. attempt' = [attempt EXCEPT ![a] = [attempt[a] EXCEPT !.status = status,
                                                             !.cleaned = confirmed]]
    BY <1>1, <2>1, <2>3 DEF TypeOK
  <2>8. worker' \in [Workers -> WorkerType]
    BY <1>1, <2>3, <2>6, BecomesType
  <2>9. attempt' \in [Approvals -> AttemptType]
    BY <1>1, <2>5, <2>7 DEF TypeOK
  <2>10. tree' \subseteq Approvals
    BY <1>1, <2>3 DEF TypeOK
  <2>11. UNCHANGED <<dead, stop, halted>>
    BY <1>13 DEF FinishAttempt
  <2>12. QED
    BY <2>8, <2>9, <2>10, <2>11
<1>14. QED
  BY <1>3, <1>4, <1>5, <1>7, <1>8, <1>9, <1>10, <1>11, <1>12, <1>13 DEF AttemptStep

LEMMA TypeStays ==
  ASSUME IInv, [Next]_vars
  PROVE  TypeOK'
<1>1. TypeOK /\ worker \in [Workers -> WorkerType]
      /\ row \in [Repairs -> [status : Statuses, approval : Approvals \cup {None},
                              sealed : BOOLEAN]]
  BY DEF IInv, TypeOK
<1>2. ASSUME NEW v \in Workers, AttemptStep(v), UNCHANGED hostedVars
      PROVE  TypeOK'
  BY <1>1, <1>2, AttemptStepType DEF TypeOK, hostedVars
<1>3. ASSUME NEW v \in Workers, UNCHANGED <<attemptVars, row, crashed>>,
             lock' \in [Repairs -> Workers \cup {None}],
             \/ UNCHANGED worker \/ Leaves(v)
             \/ \E new \in WorkerType : Becomes(v, new)
      PROVE  TypeOK'
  BY <1>1, <1>3, BecomesType, LeavesType DEF TypeOK, attemptVars
<1>4. ASSUME NEW v \in Workers
      PROVE  Unlocked(v) \in [Repairs -> Workers \cup {None}]
  BY <1>1 DEF TypeOK, Unlocked
<1>5. ASSUME NEW v \in Workers, ReadInputs(v) PROVE TypeOK'
  <2>1. worker[v].repair \in Repairs
    BY <1>5 DEF IInv, Held, Named, ReadInputs, At, WithRepair
  <2>2. [worker[v] EXCEPT !.pc = "claim", !.approval = MyRow(v).approval] \in WorkerType
    BY <1>1, <2>1, WorkerFields DEF MyRow
  <2>3. QED
    BY <1>1, <1>3, <1>5, <2>2 DEF ReadInputs, hostedVars, TypeOK
<1>6. ASSUME NEW v \in Workers, Admit(v) \/ Distrust(v) PROVE TypeOK'
  <2>1. [worker[v] EXCEPT !.pc = "begin"] \in WorkerType
        /\ [worker[v] EXCEPT !.pc = "settle", !.outcome = "refused"] \in WorkerType
    BY <1>1, Positions, WorkerFields
  <2>2. QED
    BY <1>1, <1>3, <1>6, <2>1 DEF Admit, Distrust, Moves, hostedVars, TypeOK
<1>7. ASSUME NEW v \in Workers, Leave(v) \/ Crash(v) PROVE TypeOK'
  <2>1. Idle \in WorkerType
    BY DEF Idle, WorkerType
  <2>2. worker' \in [Workers -> WorkerType]
    BY <1>1, <1>7, <2>1, BecomesType DEF Leave, Crash
  <2>3. crashed' \subseteq Repairs
    BY <1>1, <1>7 DEF Leave, Crash, TypeOK
  <2>4. QED
    BY <1>1, <1>4, <1>7, <2>2, <2>3 DEF Leave, Crash, TypeOK, attemptVars
<1>8. ASSUME NEW v \in Workers, ReadOrphan(v) \/ Inspect(v) PROVE TypeOK'
  <2>1. worker[v].repair \in Repairs
    BY <1>8 DEF IInv, Held, Named, ReadOrphan, Inspect, At, WithRepair
  <2>2. [worker[v] EXCEPT !.pc = "inspect", !.approval = MyRow(v).approval] \in WorkerType
    BY <1>1, <2>1, WorkerFields DEF MyRow
  <2>3. \A outcome \in {"recovered", "pending"} :
          [worker[v] EXCEPT !.pc = "judged", !.outcome = outcome] \in WorkerType
    BY <1>1, WorkerFields
  <2>4. QED
    BY <1>1, <1>3, <1>8, <2>2, <2>3 DEF ReadOrphan, Inspect, hostedVars, TypeOK
<1>9. ASSUME NEW v \in Workers,
             ClaimHostedRepair(v) \/ FinishHostedRepair(v) \/ Reconcile(v)
      PROVE  TypeOK'
  <2>1. [worker[v] EXCEPT !.pc = "admit"] \in WorkerType
    BY <1>1 DEF WorkerType, Executing
  <2>2. worker' \in [Workers -> WorkerType]
    BY <1>1, <1>9, <2>1, BecomesType, LeavesType
       DEF ClaimHostedRepair, FinishHostedRepair, Reconcile, Moves
  <2>3. row' \in [Repairs -> [status : Statuses, approval : Approvals \cup {None},
                              sealed : BOOLEAN]]
    BY <1>1, <1>9 DEF ClaimHostedRepair, FinishHostedRepair, Reconcile, Statuses
  <2>4. QED
    BY <1>1, <1>9, <2>2, <2>3
       DEF ClaimHostedRepair, FinishHostedRepair, Reconcile, TypeOK, attemptVars
<1>10. ASSUME NEW v \in Workers, NEW r \in Repairs, NEW pc \in {"dispatch", "reconcile"},
              Enter(v, r, pc)
       PROVE  TypeOK'
  <2>1. [Idle EXCEPT !.pc = pc, !.repair = r] \in WorkerType
    BY DEF Idle, WorkerType
  <2>2. lock' \in [Repairs -> Workers \cup {None}]
    BY <1>1, <1>10 DEF Enter, TypeOK
  <2>3. QED
    BY <1>3, <1>10, <2>1, <2>2 DEF Enter
<1>11. ASSUME NEW v \in Workers, NEW a \in Approvals, ExecuteLocally(v, a) PROVE TypeOK'
  <2>1. [Idle EXCEPT !.pc = "begin", !.approval = a] \in WorkerType
    BY DEF Idle, WorkerType, Executing
  <2>2. QED
    BY <1>1, <1>3, <1>11, <2>1 DEF ExecuteLocally, hostedVars, TypeOK
<1>12. ASSUME NEW v \in Workers, LoseLock(v) PROVE TypeOK'
  BY <1>1, <1>3, <1>4, <1>12 DEF LoseLock
<1>13. ASSUME NEW a \in Approvals, Die(a) \/ StopLands(a), UNCHANGED hostedVars PROVE TypeOK'
  BY <1>1, <1>13 DEF Die, StopLands, Halt, TypeOK, hostedVars
<1>14. ASSUME NEW r \in Repairs, NEW a \in Approvals, Register(r, a) PROVE TypeOK'
  <2>1. row' \in [Repairs -> [status : Statuses, approval : Approvals \cup {None},
                              sealed : BOOLEAN]]
    BY <1>1, <1>14 DEF Register, Statuses
  <2>2. QED
    BY <1>1, <1>14, <2>1 DEF Register, TypeOK, attemptVars
<1>15. CASE UNCHANGED vars
  BY <1>1, <1>15 DEF vars, attemptVars, TypeOK
<1>16. QED
  BY <1>2, <1>5, <1>6, <1>7, <1>8, <1>9, <1>10, <1>11, <1>12, <1>13, <1>14, <1>15
     DEF Next, DispatchStep, Others

-----------------------------------------------------------------------------
(* The steps that change nothing but the worker. *)

LEMMA BecomesAt ==
  ASSUME IInv, NEW v \in Workers, NEW new, Becomes(v, new)
  PROVE  worker'[v] = new /\ \A w \in Workers \ {v} : worker'[w] = worker[w]
BY DEF IInv, TypeOK, Becomes

\* Whoever is not dispatching or inspecting relies on nothing.
LEMMA NothingHeld ==
  ASSUME NEW v, worker'[v].pc \in {"idle", "leave", "begin", "settle", "dispatch", "reconcile"},
         worker'[v].pc \in {"begin", "settle"} =>
           MyApproval(v)' \in Approvals /\ worker'[v].repair = None,
         worker'[v].pc \in {"dispatch", "reconcile"} => worker'[v].repair \in Repairs,
         At(v, "settle")' => worker'[v].outcome # "VERIFIED"
  PROVE  Held(v)'
<1>1. Named(v)'
  BY DEF Named, At, WithApproval, WithRepair, Executing
<1>2. Owns(v)'
  BY DEF Owns, At, Executing
<1>3. worker'[v].pc \notin Lifecycle
  BY DEF Lifecycle
<1>4. QED
  BY <1>1, <1>2, <1>3 DEF Held, Settling, At

LEMMA LeavesAt ==
  ASSUME IInv, NEW v \in Workers, Leaves(v)
  PROVE  /\ worker'[v].pc = "leave" /\ worker'[v].repair = None
         /\ \A w \in Workers \ {v} : worker'[w] = worker[w]
         /\ Held(v)'
         /\ \A r \in Repairs : ~Dispatches(v, r)'
<1>1. worker'[v] = [Idle EXCEPT !.pc = "leave"]
      /\ \A w \in Workers \ {v} : worker'[w] = worker[w]
  BY BecomesAt DEF Leaves
<1>2. worker'[v].pc = "leave" /\ worker'[v].repair = None
  BY <1>1 DEF Idle
<1>3. Held(v)'
  BY <1>2, NothingHeld DEF At
<1>4. QED
  BY <1>1, <1>2, <1>3 DEF Dispatches, Executing

LEMMA EnterKeeps ==
  ASSUME IInv, TypeOK', NEW v \in Workers, NEW r \in Repairs,
         NEW pc \in {"dispatch", "reconcile"}, Enter(v, r, pc)
  PROVE  IInv'
<1>1. worker'[v] = [Idle EXCEPT !.pc = pc, !.repair = r]
      /\ \A w \in Workers \ {v} : worker'[w] = worker[w]
  BY BecomesAt DEF Enter
<1>2. worker'[v].pc = pc /\ worker'[v].repair = r
  BY <1>1 DEF Idle
<1>3. Held(v)'
  BY <1>2, NothingHeld DEF At
<1>4. QED
  BY <1>1, <1>2, <1>3, QuietStep DEF Enter, Dispatches, At, Executing, Lifecycle

LEMMA LocalKeeps ==
  ASSUME IInv, TypeOK', NEW v \in Workers, NEW a \in Approvals, ExecuteLocally(v, a)
  PROVE  IInv'
<1>1. worker'[v] = [Idle EXCEPT !.pc = "begin", !.approval = a]
      /\ \A w \in Workers \ {v} : worker'[w] = worker[w]
  BY BecomesAt DEF ExecuteLocally
<1>2. worker'[v].pc = "begin" /\ worker'[v].approval = a /\ worker'[v].repair = None
  BY <1>1 DEF Idle
<1>3. Held(v)'
  BY <1>2, NothingHeld DEF At, MyApproval
<1>4. QED
  BY <1>1, <1>2, <1>3, RepairNoneAssumption, QuietStep
     DEF ExecuteLocally, Dispatches, At, Executing, Lifecycle, hostedVars

LEMMA ReadInputsKeeps ==
  ASSUME IInv, TypeOK', NEW v \in Workers, ReadInputs(v)
  PROVE  IInv'
<1>1. At(v, "dispatch") /\ worker[v].repair \in Repairs /\ worker[v] \in WorkerType
  BY DEF ReadInputs, IInv, TypeOK, Held, Named, At, WithRepair
<1>2. CASE Leaves(v)
  BY <1>1, <1>2, LeavesAt, QuietStep
     DEF ReadInputs, Dispatches, At, Executing, Lifecycle, hostedVars
<1>3. CASE ~Leaves(v)
  <2>1. MyRow(v).status # "none"
        /\ Becomes(v, [worker[v] EXCEPT !.pc = "claim", !.approval = MyRow(v).approval])
    BY <1>3 DEF ReadInputs
  <2>2. worker'[v] = [worker[v] EXCEPT !.pc = "claim", !.approval = MyRow(v).approval]
        /\ \A w \in Workers \ {v} : worker'[w] = worker[w]
    BY <2>1, BecomesAt
  <2>3. worker'[v].pc = "claim" /\ worker'[v].repair = worker[v].repair
        /\ worker'[v].approval = MyRow(v).approval
    BY <1>1, <2>2 DEF WorkerType
  <2>4. MyRow(v).approval \in Approvals
    BY <1>1, <2>1 DEF IInv, Booked, MyRow
  <2>5. Held(v)'
    BY <1>1, <2>1, <2>3, <2>4
       DEF Held, Named, Owns, At, MyRow, MyApproval, WithApproval, WithRepair, Executing,
           Lifecycle, ReadInputs, hostedVars
  <2>6. QED
    BY <1>1, <2>2, <2>3, <2>5, QuietStep
       DEF ReadInputs, Dispatches, At, Executing, Lifecycle, hostedVars
<1>4. QED
  BY <1>2, <1>3

\* Refused on the way, before or after the attempt directory was made.
LEMMA SettleRefused ==
  ASSUME IInv, TypeOK', NEW v \in Workers, worker[v].pc \in Executing,
         UNCHANGED <<attemptVars, hostedVars>>,
         Becomes(v, [worker[v] EXCEPT !.pc = "settle", !.outcome = "refused"])
  PROVE  IInv'
<1>1. worker[v] \in WorkerType /\ Held(v)
  BY DEF IInv, TypeOK
<1>2. worker'[v] = [worker[v] EXCEPT !.pc = "settle", !.outcome = "refused"]
      /\ \A w \in Workers \ {v} : worker'[w] = worker[w]
  BY BecomesAt
<1>3. /\ worker'[v].pc = "settle" /\ worker'[v].outcome = "refused"
      /\ worker'[v].repair = worker[v].repair /\ worker'[v].approval = worker[v].approval
  BY <1>1, <1>2 DEF WorkerType
<1>4. Held(v)'
  BY <1>1, <1>3
     DEF Held, Named, Owns, Settling, At, MyRow, MyApproval, WithApproval, WithRepair,
         Executing, Lifecycle, hostedVars
<1>5. QED
  BY <1>2, <1>3, <1>4, QuietStep DEF Dispatches, Executing, Lifecycle, hostedVars

LEMMA AdmitKeeps ==
  ASSUME IInv, TypeOK', NEW v \in Workers, Admit(v)
  PROVE  IInv'
<1>1. worker[v] \in WorkerType /\ Held(v) /\ At(v, "admit")
  BY DEF IInv, TypeOK, Admit
<1>2. CASE Becomes(v, [worker[v] EXCEPT !.pc = "begin"])
  <2>1. worker'[v] = [worker[v] EXCEPT !.pc = "begin"]
        /\ \A w \in Workers \ {v} : worker'[w] = worker[w]
    BY <1>2, BecomesAt
  <2>2. /\ worker'[v].pc = "begin"
        /\ worker'[v].repair = worker[v].repair /\ worker'[v].approval = worker[v].approval
    BY <1>1, <2>1 DEF WorkerType
  <2>3. Held(v)'
    BY <1>1, <2>2
       DEF Held, Named, Owns, At, MyRow, MyApproval, WithApproval, WithRepair, Executing,
           Lifecycle, Admit, hostedVars
  <2>4. QED
    BY <1>1, <2>1, <2>2, <2>3, QuietStep
       DEF Admit, At, Dispatches, Executing, Lifecycle, hostedVars
<1>3. CASE Becomes(v, [worker[v] EXCEPT !.pc = "settle", !.outcome = "refused"])
  BY <1>1, <1>3, SettleRefused DEF Admit, At, Executing
<1>4. QED
  BY <1>2, <1>3 DEF Admit, Moves

LEMMA LeaveKeeps ==
  ASSUME IInv, TypeOK', NEW v \in Workers, Leave(v)
  PROVE  IInv'
<1>1. worker'[v] = Idle /\ \A w \in Workers \ {v} : worker'[w] = worker[w]
  BY BecomesAt DEF Leave
<1>2. worker'[v].pc = "idle" /\ Held(v)'
  BY <1>1, NothingHeld DEF Idle, At
<1>3. QED
  BY <1>1, <1>2, QuietStep DEF Leave, At, Dispatches, Executing, Lifecycle

LEMMA CrashKeeps ==
  ASSUME IInv, TypeOK', NEW v \in Workers, Crash(v)
  PROVE  IInv'
<1>1. worker'[v] = Idle /\ \A w \in Workers \ {v} : worker'[w] = worker[w]
  BY BecomesAt DEF Crash
<1>2. worker'[v].pc = "idle" /\ Held(v)'
  BY <1>1, NothingHeld DEF Idle, At
<1>3. \A r \in Repairs : Dispatches(v, r) => r \in crashed'
  BY DEF Crash
<1>4. QED
  BY <1>1, <1>2, <1>3, QuietStep DEF Crash, At, Dispatches, Executing, Lifecycle

LEMMA InspectionKeeps ==
  ASSUME IInv, TypeOK', NEW v \in Workers, ReadOrphan(v) \/ Inspect(v)
  PROVE  IInv'
<1>1. /\ worker[v].pc \in {"reconcile", "inspect"} /\ worker[v].repair \in Repairs
      /\ worker[v] \in WorkerType /\ Held(v)
  BY DEF ReadOrphan, Inspect, IInv, TypeOK, Held, Named, At, WithRepair
<1>2. CASE Leaves(v)
  BY <1>1, <1>2, LeavesAt, QuietStep
     DEF ReadOrphan, Inspect, Dispatches, At, Executing, Lifecycle, hostedVars
<1>3. ASSUME NEW new, Becomes(v, new), new.pc \in {"inspect", "judged"},
             new.repair = worker[v].repair, new.approval \in Approvals,
             new.pc = "judged" => new.outcome # "recovered"
      PROVE  IInv'
  <2>1. worker'[v] = new /\ \A w \in Workers \ {v} : worker'[w] = worker[w]
    BY <1>3, BecomesAt
  <2>2. Held(v)'
    BY <1>1, <1>3, <2>1
       DEF Held, Named, Owns, At, MyApproval, WithApproval, WithRepair, Executing, Lifecycle
  <2>3. QED
    BY <1>1, <1>3, <2>1, <2>2, QuietStep
       DEF ReadOrphan, Inspect, Dispatches, At, Executing, Lifecycle, hostedVars
<1>4. CASE ReadOrphan(v) /\ ~Leaves(v)
  <2> DEFINE new == [worker[v] EXCEPT !.pc = "inspect", !.approval = MyRow(v).approval]
  <2>1. Becomes(v, new) /\ MyRow(v).status = "executing"
    BY <1>4 DEF ReadOrphan
  <2>2. MyRow(v).approval \in Approvals
    BY <1>1, <2>1 DEF IInv, Booked, MyRow
  <2>3. new.pc = "inspect" /\ new.repair = worker[v].repair /\ new.approval \in Approvals
    BY <1>1, <2>2 DEF WorkerType
  <2>4. QED
    BY <1>3, <2>1, <2>3
<1>5. CASE Inspect(v)
  <2>1. MyApproval(v) \in Approvals
    BY <1>1, <1>5 DEF Held, Named, Inspect, At, WithApproval
  <2>2. PICK n \in Negative : <<"baseline", n>> \notin attempt[MyApproval(v)].checks
    BY <2>1, CheckAssumption DEF IInv, Journal
  <2>3. ~Evidenced(MyApproval(v))
    BY <2>2 DEF Evidenced, Checks
  <2> DEFINE new == [worker[v] EXCEPT !.pc = "judged", !.outcome = "pending"]
  <2>4. Becomes(v, new)
    BY <1>5, <2>3 DEF Inspect
  <2>5. /\ new.pc = "judged" /\ new.repair = worker[v].repair /\ new.approval \in Approvals
        /\ new.outcome # "recovered"
    BY <1>1, <2>1 DEF WorkerType, MyApproval
  <2>6. QED
    BY <1>3, <2>4, <2>5
<1>6. QED
  BY <1>2, <1>4, <1>5

-----------------------------------------------------------------------------
(* The steps of an attempt. *)

\* Of v in the middle of an attempt.
LEMMA AtWork ==
  ASSUME IInv, NEW v \in Workers, worker[v].pc \in Lifecycle
  PROVE  /\ MyApproval(v) \in Approvals /\ Mine(v) = attempt[MyApproval(v)]
         /\ Mine(v) \in AttemptType /\ worker[v] \in WorkerType
         /\ Working(v) /\ Journal(MyApproval(v))
BY DEF IInv, TypeOK, Held, Named, Lifecycle, WithApproval, Executing, Mine

LEMMA BeginKeeps ==
  ASSUME IInv, TypeOK', NEW v \in Workers, BeginAttempt(v), UNCHANGED hostedVars
  PROVE  IInv'
<1> DEFINE b == MyApproval(v)
<1>1. /\ At(v, "begin") /\ b \in Approvals /\ worker[v] \in WorkerType /\ Held(v)
      /\ attempt \in [Approvals -> AttemptType]
  BY DEF BeginAttempt, IInv, TypeOK, Held, Named, At, WithApproval, Executing
<1>2. CASE ~Unused(b)
  BY <1>1, <1>2, SettleRefused DEF BeginAttempt, At, Executing, attemptVars
<1>3. CASE Unused(b)
  <2> DEFINE new == [NoAttempt EXCEPT !.status = "made", !.by = worker[v].repair]
  <2>1. attempt' = [attempt EXCEPT ![b] = new] /\ Becomes(v, [worker[v] EXCEPT !.pc = "persist"])
        /\ attempt[b].status = "none"
    BY <1>3 DEF BeginAttempt, Moves, Unused
  <2>2. /\ attempt'[b] = new
        /\ \A a \in Approvals \ {b} : attempt'[a] = attempt[a]
    BY <1>1, <2>1
  <2>3. /\ attempt'[b].status = "made" /\ attempt'[b].by = worker[v].repair
        /\ attempt'[b].checks = {} /\ attempt'[b].cleaned = FALSE
    BY <2>2 DEF NoAttempt
  <2>4. worker'[v] = [worker[v] EXCEPT !.pc = "persist"]
        /\ \A w \in Workers \ {v} : worker'[w] = worker[w]
    BY <2>1, BecomesAt
  <2>5. /\ worker'[v].pc = "persist" /\ worker'[v].repair = worker[v].repair
        /\ MyApproval(v)' = b
    BY <1>1, <2>4 DEF WorkerType, MyApproval
  <2>6. Working(v)'
    BY <2>3, <2>5 DEF Working, Mine, At
  <2>7. Held(v)'
    BY <1>1, <2>5, <2>6
       DEF Held, Named, Owns, At, MyRow, MyApproval, WithApproval, WithRepair, Executing,
           Lifecycle, hostedVars
  <2>8. UNCHANGED <<tree, dead, stop, halted>>
    BY DEF BeginAttempt
  <2>9. ASSUME NEW a \in Approvals, a = b PROVE Journal(a)'
    <3>1. a \in halted => ~Live(a)
      BY DEF IInv, Journal
    <3>2. QED
      BY <2>3, <2>8, <2>9, <3>1 DEF Journal, Live
  <2>10. \A a \in Approvals : Journal(a)'
    <3> SUFFICES ASSUME NEW a \in Approvals, a # b PROVE Journal(a)'
      BY <2>9
    <3>1. attempt'[a] = attempt[a] /\ Complete(a)' = Complete(a) /\ Journal(a)
      BY <2>2, SameRecord DEF IInv
    <3>2. QED
      BY <2>8, <3>1 DEF Journal, Live
  <2>11. \A r \in Repairs : Booked(r)'
    <3> SUFFICES ASSUME NEW r \in Repairs PROVE Booked(r)'
      OBVIOUS
    <3>1. CASE row[r].status = "completed"
      <4>1. PICK a \in Approvals :
              a = row[r].approval /\ Finished(a) /\ Complete(a) /\ attempt[a].by = r
        BY <3>1 DEF IInv, Booked
      <4>2. attempt'[a] = attempt[a]
        BY <2>1, <2>2, <4>1 DEF Finished
      <4>3. Complete(a)' = Complete(a)
        BY <4>2, SameRecord
      <4>4. QED
        BY <2>8, <4>1, <4>2, <4>3 DEF Booked, Finished, hostedVars
    <3>2. CASE row[r].status # "completed"
      BY <3>2 DEF IInv, Booked, hostedVars
    <3>3. QED
      BY <3>1, <3>2
  <2>12. \A a \in Approvals : AttemptKept(v, a)
    BY <2>1, <2>2, <2>8 DEF AttemptKept, Kept
  <2>13. \A r \in Repairs : RowKept(v, r) /\ Dispatches(v, r)' = Dispatches(v, r)
    BY <1>1, <2>5 DEF RowKept, Dispatches, At, Executing, hostedVars
  <2>14. QED
    BY <2>1, <2>4, <2>5, <2>7, <2>10, <2>11, <2>12, <2>13, StepKeeps DEF hostedVars
<1>4. QED
  BY <1>2, <1>3

LEMMA StartKeeps ==
  ASSUME IInv, TypeOK', NEW v \in Workers, NEW b, b = MyApproval(v),
         StartAttempt(v), UNCHANGED hostedVars
  PROVE  IInv'
<1>1. At(v, "persist")
  BY DEF StartAttempt
<1>2. /\ b \in Approvals /\ attempt[b] \in AttemptType /\ worker[v] \in WorkerType
      /\ Working(v) /\ Journal(b) /\ Mine(v) = attempt[b]
      /\ attempt \in [Approvals -> AttemptType]
  BY <1>1, AtWork DEF At, Lifecycle, IInv, TypeOK
<1>3. worker'[v] = [worker[v] EXCEPT !.pc = "prepare"]
      /\ \A w \in Workers \ {v} : worker'[w] = worker[w]
  BY BecomesAt DEF StartAttempt, Moves
<1>4. /\ worker'[v].pc = "prepare" /\ worker'[v].repair = worker[v].repair
      /\ worker'[v].approval = worker[v].approval /\ MyApproval(v)' = b
  BY <1>2, <1>3 DEF WorkerType, MyApproval
<1>5. /\ attempt'[b] = [attempt[b] EXCEPT !.status = "RUNNING"]
      /\ \A a \in Approvals \ {b} : attempt'[a] = attempt[a]
  BY <1>2 DEF StartAttempt
<1>6. /\ attempt'[b].status = "RUNNING" /\ attempt'[b].checks = attempt[b].checks
      /\ attempt'[b].by = attempt[b].by /\ attempt'[b].cleaned = attempt[b].cleaned
  BY <1>2, <1>5 DEF AttemptType
<1>7. UNCHANGED <<tree, dead, stop, halted>>
  BY DEF StartAttempt
<1>8. Journal(b)'
  BY <1>2, <1>6, <1>7 DEF Journal, Live
<1>9. Working(v)'
  BY <1>1, <1>2, <1>4, <1>6 DEF Working, Mine, At
<1>10. QED
  BY <1>1, <1>3, <1>4, <1>5, <1>7, <1>8, <1>9, WorkStep DEF Lifecycle, At, hostedVars

LEMMA PrepareKeeps ==
  ASSUME IInv, TypeOK', NEW v \in Workers, NEW b, b = MyApproval(v),
         Prepare(v), UNCHANGED hostedVars
  PROVE  IInv'
<1>1. At(v, "prepare")
  BY DEF Prepare
<1>2. /\ b \in Approvals /\ worker[v] \in WorkerType
      /\ Working(v) /\ Journal(b) /\ Mine(v) = attempt[b]
  BY <1>1, AtWork DEF At, Lifecycle
<1>3. worker'[v] = [worker[v] EXCEPT !.pc = "stage", !.stage = "baseline"]
      /\ \A w \in Workers \ {v} : worker'[w] = worker[w]
  BY BecomesAt DEF Prepare
<1>4. /\ worker'[v].pc = "stage" /\ worker'[v].repair = worker[v].repair
      /\ worker'[v].approval = worker[v].approval /\ MyApproval(v)' = b
      /\ worker'[v].stage = "baseline"
  BY <1>2, <1>3 DEF WorkerType, MyApproval
<1>5. tree' = tree \cup {b} /\ UNCHANGED <<attempt, dead, stop, halted>>
  BY DEF Prepare
<1>6. attempt[b].checks = {}
  BY <1>1, <1>2 DEF Working, At
<1>7. Complete(b)' = Complete(b) /\ ~Complete(b)
  <2>1. Complete(b)' = Complete(b)
    BY <1>5, SameRecord
  <2>2. Recorded(b, "baseline") = {}
    BY <1>6 DEF Recorded
  <2>3. QED
    BY <2>1, <2>2, CheckAssumption DEF Complete, Selected
<1>8. Journal(b)'
  BY <1>2, <1>5, <1>7 DEF Journal, Live
<1>9. Working(v)'
  <2>1. Mine(v)' = attempt[b] /\ ~Complete(MyApproval(v))'
    BY <1>4, <1>5, <1>7 DEF Mine, Complete, Recorded
  <2>2. QED
    BY <1>1, <1>2, <1>4, <2>1 DEF Working, At
<1>10. QED
  BY <1>1, <1>3, <1>4, <1>5, <1>8, <1>9, WorkStep DEF Lifecycle, At, hostedVars

\* The steps that leave the record of the attempt alone.
LEMMA NothingRecorded ==
  ASSUME IInv, TypeOK', NEW v \in Workers, NEW b, b = MyApproval(v),
         worker[v].pc \in {"prepare", "stage", "check"},
         UNCHANGED attemptVars, UNCHANGED hostedVars,
         NEW new, Becomes(v, new),
         new.repair = worker[v].repair, new.approval = worker[v].approval,
         \/ new.pc = "fail" /\ new.outcome \in {"STOPPED", "FAILED"}
         \/ /\ new.pc = "check" /\ At(v, "stage") /\ new.stage = worker[v].stage
            /\ new.check \in Selected(worker[v].stage)
         \/ /\ new.pc = "stage" /\ At(v, "stage") /\ new.stage = "repaired"
            /\ Recorded(b, "baseline") = Positive
  PROVE  IInv'
<1>1. /\ b \in Approvals /\ worker[v] \in WorkerType
      /\ Working(v) /\ Journal(b) /\ Mine(v) = attempt[b]
  BY AtWork DEF Lifecycle
<1>2. worker'[v] = new /\ \A w \in Workers \ {v} : worker'[w] = worker[w]
  BY BecomesAt
<1>3. MyApproval(v)' = b /\ UNCHANGED <<attempt, tree, dead, stop, halted>>
  BY <1>2 DEF MyApproval, attemptVars
<1>4. /\ Complete(b)' = Complete(b) /\ Recorded(b, "baseline")' = Recorded(b, "baseline")
      /\ Complete(MyApproval(v))' = Complete(b)
      /\ Recorded(MyApproval(v), "baseline")' = Recorded(b, "baseline")
      /\ Mine(v)' = attempt[b]
  BY <1>3, SameRecord DEF Complete, Recorded, Mine
<1>5. Journal(b)'
  BY <1>1, <1>3, <1>4 DEF Journal, Live
<1>6. Working(v)'
  BY <1>1, <1>2, <1>3, <1>4 DEF Working, At, Selected, Checks
<1>7. QED
  BY <1>1, <1>2, <1>3, <1>5, <1>6, WorkStep DEF Lifecycle, At, hostedVars

LEMMA EndsKeeps ==
  ASSUME IInv, TypeOK', NEW v \in Workers, NEW b, b = MyApproval(v),
         worker[v].pc \in {"prepare", "stage", "check"},
         NEW outcome \in {"STOPPED", "FAILED"}, Ends(v, outcome),
         UNCHANGED attemptVars, UNCHANGED hostedVars
  PROVE  IInv'
<1> DEFINE new == [worker[v] EXCEPT !.pc = "fail", !.stage = "none", !.check = None,
                                    !.outcome = outcome]
<1>1. worker[v] \in WorkerType
  BY DEF IInv, TypeOK
<1>2. /\ new.pc = "fail" /\ new.outcome = outcome
      /\ new.repair = worker[v].repair /\ new.approval = worker[v].approval
  BY <1>1 DEF WorkerType
<1>3. Becomes(v, new)
  BY DEF Ends
<1>4. QED
  BY <1>2, <1>3, NothingRecorded

LEMMA StartCheckKeeps ==
  ASSUME IInv, TypeOK', NEW v \in Workers, NEW b, b = MyApproval(v),
         StartCheck(v), UNCHANGED hostedVars
  PROVE  IInv'
<1>1. At(v, "stage") /\ worker[v] \in WorkerType /\ UNCHANGED attemptVars
  BY DEF StartCheck, IInv, TypeOK
<1>2. CASE Ends(v, "STOPPED")
  BY <1>1, <1>2, EndsKeeps DEF At
<1>3. ASSUME NEW c \in Selected(worker[v].stage),
             Becomes(v, [worker[v] EXCEPT !.pc = "check", !.check = c])
      PROVE  IInv'
  <2> DEFINE new == [worker[v] EXCEPT !.pc = "check", !.check = c]
  <2>1. /\ new.pc = "check" /\ new.check = c /\ new.stage = worker[v].stage
        /\ new.repair = worker[v].repair /\ new.approval = worker[v].approval
    BY <1>1 DEF WorkerType
  <2>2. QED
    BY <1>1, <1>3, <2>1, NothingRecorded DEF At
<1>4. QED
  BY <1>2, <1>3 DEF StartCheck

LEMMA ApplyPatchKeeps ==
  ASSUME IInv, TypeOK', NEW v \in Workers, NEW b, b = MyApproval(v),
         ApplyPatch(v), UNCHANGED hostedVars
  PROVE  IInv'
<1>1. At(v, "stage") /\ worker[v] \in WorkerType /\ UNCHANGED attemptVars
      /\ Recorded(b, "baseline") = Positive
  BY DEF ApplyPatch, StageDone, Selected, IInv, TypeOK
<1>2. CASE Ends(v, "STOPPED")
  BY <1>1, <1>2, EndsKeeps DEF At
<1>3. CASE Becomes(v, [worker[v] EXCEPT !.stage = "repaired"])
  <2> DEFINE new == [worker[v] EXCEPT !.stage = "repaired"]
  <2>1. /\ new.pc = "stage" /\ new.stage = "repaired"
        /\ new.repair = worker[v].repair /\ new.approval = worker[v].approval
    BY <1>1 DEF WorkerType, At
  <2>2. QED
    BY <1>1, <1>3, <2>1, NothingRecorded DEF At
<1>4. QED
  BY <1>2, <1>3 DEF ApplyPatch

LEMMA RaiseKeeps ==
  ASSUME IInv, TypeOK', NEW v \in Workers, NEW b, b = MyApproval(v),
         Raise(v), UNCHANGED hostedVars
  PROVE  IInv'
BY EndsKeeps DEF Raise

\* One more record of a check that the stage asks for.
LEMMA RecordOne ==
  ASSUME NEW b \in Approvals, attempt \in [Approvals -> AttemptType], Journal(b),
         attempt[b].status # "VERIFIED",
         NEW stage \in {"baseline", "repaired"}, NEW c \in Selected(stage),
         stage = "repaired" => Recorded(b, "baseline") = Positive,
         attempt' = [attempt EXCEPT ![b].checks = @ \cup {<<stage, c>>}],
         UNCHANGED <<dead, stop, halted>>
  PROVE  /\ Journal(b)'
         /\ \A a \in Approvals \ {b} : attempt'[a] = attempt[a]
         /\ attempt'[b].status = attempt[b].status /\ attempt'[b].by = attempt[b].by
         /\ attempt'[b].cleaned = attempt[b].cleaned
         /\ stage = "repaired" => Recorded(b, "baseline")' = Positive
<1>1. attempt'[b] = [attempt[b] EXCEPT !.checks = @ \cup {<<stage, c>>}]
      /\ \A a \in Approvals \ {b} : attempt'[a] = attempt[a]
  OBVIOUS
<1>2. /\ attempt'[b].checks = attempt[b].checks \cup {<<stage, c>>}
      /\ attempt'[b].status = attempt[b].status /\ attempt'[b].by = attempt[b].by
      /\ attempt'[b].cleaned = attempt[b].cleaned
  BY <1>1 DEF AttemptType
<1>3. \A n \in Negative : <<"baseline", n>> \notin attempt'[b].checks
  <2>1. stage = "baseline" => c \notin Negative
    BY CheckAssumption DEF Selected
  <2>2. \A n \in Negative : <<"baseline", n>> # <<stage, c>>
    BY <2>1
  <2>3. QED
    BY <1>2, <2>2 DEF Journal
<1>4. Journal(b)'
  BY <1>2, <1>3 DEF Journal, Live
<1>5. stage = "repaired" => Recorded(b, "baseline")' = Recorded(b, "baseline")
  BY <1>2 DEF Recorded
<1>6. QED
  BY <1>1, <1>2, <1>4, <1>5

LEMMA EndCheckKeeps ==
  ASSUME IInv, TypeOK', NEW v \in Workers, NEW b, b = MyApproval(v),
         EndCheck(v), UNCHANGED hostedVars
  PROVE  IInv'
<1>1. At(v, "check") /\ UNCHANGED <<tree, dead, stop, halted>>
  BY DEF EndCheck
<1>2. /\ b \in Approvals /\ worker[v] \in WorkerType
      /\ Working(v) /\ Journal(b) /\ Mine(v) = attempt[b]
      /\ attempt \in [Approvals -> AttemptType]
  BY <1>1, AtWork DEF At, Lifecycle, IInv, TypeOK
<1>3. /\ attempt[b].status \notin {"none", "VERIFIED"} /\ ~attempt[b].cleaned
      /\ attempt[b].by = worker[v].repair
      /\ worker[v].stage \in {"baseline", "repaired"}
      /\ worker[v].check \in Selected(worker[v].stage)
      /\ worker[v].stage = "repaired" => Recorded(b, "baseline") = Positive
  BY <1>1, <1>2 DEF Working, At
<1>4. \/ attempt' = attempt
      \/ attempt' = [attempt EXCEPT ![b].checks = @ \cup {<<worker[v].stage, worker[v].check>>}]
  BY DEF EndCheck
<1>5. /\ Journal(b)'
      /\ \A a \in Approvals \ {b} : attempt'[a] = attempt[a]
      /\ attempt'[b].status = attempt[b].status /\ attempt'[b].by = attempt[b].by
      /\ attempt'[b].cleaned = attempt[b].cleaned
      /\ worker[v].stage = "repaired" => Recorded(b, "baseline")' = Positive
  <2>1. CASE attempt' = attempt
    BY <1>1, <1>2, <1>3, <2>1, SameRecord DEF Journal, Live
  <2>2. CASE attempt' = [attempt EXCEPT ![b].checks =
                           @ \cup {<<worker[v].stage, worker[v].check>>}]
    BY <1>1, <1>2, <1>3, <2>2, RecordOne
  <2>3. QED
    BY <1>4, <2>1, <2>2
<1>6. ASSUME NEW new, Becomes(v, new),
             new.repair = worker[v].repair, new.approval = worker[v].approval,
             \/ new.pc = "fail" /\ new.outcome \in {"STOPPED", "FAILED"}
             \/ new.pc = "stage" /\ new.stage = worker[v].stage /\ Live(b)
      PROVE  IInv'
  <2>1. worker'[v] = new /\ \A w \in Workers \ {v} : worker'[w] = worker[w]
    BY <1>6, BecomesAt
  <2>2. MyApproval(v)' = b /\ Mine(v)' = attempt'[b]
        /\ Recorded(MyApproval(v), "baseline")' = Recorded(b, "baseline")'
    BY <1>6, <2>1 DEF MyApproval, Mine, Recorded
  <2>3. Live(b) => b \notin halted'
    BY <1>1, <1>2 DEF Journal
  <2>4. Working(v)'
    BY <1>3, <1>5, <1>6, <2>1, <2>2, <2>3 DEF Working, At
  <2>5. QED
    BY <1>1, <1>5, <1>6, <2>1, <2>4, WorkStep DEF Lifecycle, At, hostedVars
<1>7. CASE \E outcome \in {"STOPPED", "FAILED"} : Ends(v, outcome)
  <2>1. PICK outcome \in {"STOPPED", "FAILED"} : Ends(v, outcome)
    BY <1>7
  <2> DEFINE new == [worker[v] EXCEPT !.pc = "fail", !.stage = "none", !.check = None,
                                      !.outcome = outcome]
  <2>2. /\ new.pc = "fail" /\ new.outcome = outcome
        /\ new.repair = worker[v].repair /\ new.approval = worker[v].approval
    BY <1>2 DEF WorkerType
  <2>3. Becomes(v, new)
    BY <2>1 DEF Ends
  <2>4. QED
    BY <1>6, <2>2, <2>3
<1>8. CASE Live(b) /\ Becomes(v, [worker[v] EXCEPT !.pc = "stage", !.check = None])
  <2> DEFINE new == [worker[v] EXCEPT !.pc = "stage", !.check = None]
  <2>1. /\ new.pc = "stage" /\ new.stage = worker[v].stage
        /\ new.repair = worker[v].repair /\ new.approval = worker[v].approval
    BY <1>2 DEF WorkerType
  <2>2. QED
    BY <1>6, <1>8, <2>1
<1>9. QED
  BY <1>7, <1>8 DEF EndCheck, LiveAfter

LEMMA VerifyKeeps ==
  ASSUME IInv, TypeOK', NEW v \in Workers, NEW b, b = MyApproval(v),
         MarkVerified(v), UNCHANGED hostedVars
  PROVE  IInv'
<1>1. At(v, "stage") /\ worker[v].stage = "repaired"
      /\ Recorded(b, "repaired") = Selected("repaired")
      /\ UNCHANGED <<tree, dead, stop, halted>>
  BY DEF MarkVerified, StageDone
<1>2. /\ b \in Approvals /\ attempt[b] \in AttemptType /\ worker[v] \in WorkerType
      /\ Working(v) /\ Journal(b) /\ Mine(v) = attempt[b]
      /\ attempt \in [Approvals -> AttemptType]
  BY <1>1, AtWork DEF At, Lifecycle, IInv, TypeOK
<1>3. Recorded(b, "baseline") = Selected("baseline")
  BY <1>1, <1>2 DEF Working, At, Selected
<1>4. Complete(b) /\ b \notin halted
  BY <1>1, <1>2, <1>3 DEF Complete, Working
<1>5. worker'[v] = [worker[v] EXCEPT !.pc = "finish", !.stage = "none"]
      /\ \A w \in Workers \ {v} : worker'[w] = worker[w]
  BY BecomesAt DEF MarkVerified
<1>6. /\ worker'[v].pc = "finish" /\ worker'[v].repair = worker[v].repair
      /\ worker'[v].approval = worker[v].approval /\ MyApproval(v)' = b
  BY <1>2, <1>5 DEF WorkerType, MyApproval
<1>7. /\ attempt'[b] = [attempt[b] EXCEPT !.status = "VERIFIED"]
      /\ \A a \in Approvals \ {b} : attempt'[a] = attempt[a]
  BY <1>2 DEF MarkVerified
<1>8. /\ attempt'[b].status = "VERIFIED" /\ attempt'[b].checks = attempt[b].checks
      /\ attempt'[b].by = attempt[b].by /\ attempt'[b].cleaned = attempt[b].cleaned
  BY <1>2, <1>7 DEF AttemptType
<1>9. Complete(b)'
  BY <1>4, <1>8 DEF Complete, Recorded
<1>10. Journal(b)'
  BY <1>1, <1>2, <1>4, <1>8, <1>9 DEF Journal
<1>11. Working(v)'
  BY <1>1, <1>2, <1>6, <1>8 DEF Working, Mine, At
<1>12. QED
  BY <1>1, <1>5, <1>6, <1>7, <1>10, <1>11, WorkStep DEF Lifecycle, At, hostedVars

LEMMA FailureKeeps ==
  ASSUME IInv, TypeOK', NEW v \in Workers, NEW b, b = MyApproval(v),
         PersistFailure(v), UNCHANGED hostedVars
  PROVE  IInv'
<1>1. At(v, "fail") /\ UNCHANGED <<tree, dead, stop, halted>>
  BY DEF PersistFailure
<1>2. /\ b \in Approvals /\ attempt[b] \in AttemptType /\ worker[v] \in WorkerType
      /\ Working(v) /\ Journal(b) /\ Mine(v) = attempt[b]
      /\ attempt \in [Approvals -> AttemptType]
      /\ worker[v].outcome \in {"STOPPED", "FAILED"}
  BY <1>1, AtWork DEF At, Lifecycle, IInv, TypeOK, Working
<1>3. worker'[v] = [worker[v] EXCEPT !.pc = "finish", !.outcome = "none"]
      /\ \A w \in Workers \ {v} : worker'[w] = worker[w]
  BY BecomesAt DEF PersistFailure
<1>4. /\ worker'[v].pc = "finish" /\ worker'[v].repair = worker[v].repair
      /\ worker'[v].approval = worker[v].approval /\ MyApproval(v)' = b
  BY <1>2, <1>3 DEF WorkerType, MyApproval
<1>5. /\ attempt'[b] = [attempt[b] EXCEPT !.status = worker[v].outcome]
      /\ \A a \in Approvals \ {b} : attempt'[a] = attempt[a]
  BY <1>2 DEF PersistFailure
<1>6. /\ attempt'[b].status \in {"STOPPED", "FAILED"}
      /\ attempt'[b].checks = attempt[b].checks
      /\ attempt'[b].by = attempt[b].by /\ attempt'[b].cleaned = attempt[b].cleaned
  BY <1>2, <1>5 DEF AttemptType
<1>7. Journal(b)'
  BY <1>1, <1>2, <1>6 DEF Journal, Live
<1>8. Working(v)'
  BY <1>1, <1>2, <1>4, <1>6 DEF Working, Mine, At
<1>9. QED
  BY <1>1, <1>3, <1>4, <1>5, <1>7, <1>8, WorkStep DEF Lifecycle, At, hostedVars

\* What _finish_attempt leaves, and reports.
Finishes(v, b, status, confirmed) ==
  /\ attempt' = [attempt EXCEPT ![b] = [attempt[b] EXCEPT !.status = status,
                                                          !.cleaned = confirmed]]
  /\ Becomes(v, [worker[v] EXCEPT !.pc = "settle", !.outcome = status])
  /\ tree' \in {tree, tree \ {b}}
  /\ confirmed => b \notin tree' /\ status = attempt[b].status
  /\ ~confirmed => status = "FAILED"

LEMMA FinishEffect ==
  ASSUME IInv, NEW v \in Workers, NEW b, b = MyApproval(v), FinishAttempt(v)
  PROVE  \E status \in {"VERIFIED", "STOPPED", "FAILED"}, confirmed \in BOOLEAN :
           Finishes(v, b, status, confirmed)
<1>1. At(v, "finish")
  BY DEF FinishAttempt
<1>2. /\ b \in Approvals /\ attempt[b] \in AttemptType /\ Working(v) /\ Mine(v) = attempt[b]
      /\ attempt \in [Approvals -> AttemptType]
  BY <1>1, AtWork DEF At, Lifecycle, IInv, TypeOK
<1>3. attempt[b].status \in {"VERIFIED", "STOPPED", "FAILED"}
  BY <1>1, <1>2 DEF Working
<1>4. PICK confirmed \in BOOLEAN, removed \in {TRUE} \cup {b \notin tree} :
        LET status == IF confirmed THEN attempt[b].status ELSE Downgraded(attempt[b].status)
        IN /\ confirmed => removed
           /\ tree' = IF removed THEN tree \ {b} ELSE tree
           /\ attempt' = [attempt EXCEPT ![b].status = status, ![b].cleaned = confirmed]
           /\ Becomes(v, [worker[v] EXCEPT !.pc = "settle", !.outcome = status])
  BY <1>2 DEF FinishAttempt
<1> DEFINE status == IF confirmed THEN attempt[b].status ELSE Downgraded(attempt[b].status)
<1>5. status \in {"VERIFIED", "STOPPED", "FAILED"} /\ (~confirmed => status = "FAILED")
  BY <1>3 DEF Downgraded
<1>6. attempt' = [attempt EXCEPT ![b] = [attempt[b] EXCEPT !.status = status,
                                                           !.cleaned = confirmed]]
  BY <1>2, <1>4
<1>7. tree' \in {tree, tree \ {b}} /\ (confirmed => b \notin tree')
  BY <1>4
<1>8. Becomes(v, [worker[v] EXCEPT !.pc = "settle", !.outcome = status])
  BY <1>4
<1>9. Finishes(v, b, status, confirmed)
  BY <1>5, <1>6, <1>7, <1>8 DEF Finishes
<1>10. QED
  BY <1>5, <1>9

LEMMA FinishKeeps ==
  ASSUME IInv, TypeOK', NEW v \in Workers, NEW b, b = MyApproval(v),
         FinishAttempt(v), UNCHANGED hostedVars
  PROVE  IInv'
<1>1. At(v, "finish") /\ UNCHANGED <<dead, stop, halted>>
  BY DEF FinishAttempt
<1>2. /\ b \in Approvals /\ attempt[b] \in AttemptType /\ worker[v] \in WorkerType
      /\ Working(v) /\ Journal(b) /\ Mine(v) = attempt[b]
      /\ attempt \in [Approvals -> AttemptType]
  BY <1>1, AtWork DEF At, Lifecycle, IInv, TypeOK
<1>3. PICK status \in {"VERIFIED", "STOPPED", "FAILED"}, confirmed \in BOOLEAN :
        Finishes(v, b, status, confirmed)
  BY FinishEffect
<1>4. worker'[v] = [worker[v] EXCEPT !.pc = "settle", !.outcome = status]
      /\ \A w \in Workers \ {v} : worker'[w] = worker[w]
  BY <1>3, BecomesAt DEF Finishes
<1>5. /\ worker'[v].pc = "settle" /\ worker'[v].repair = worker[v].repair
      /\ worker'[v].approval = worker[v].approval /\ MyApproval(v)' = b
      /\ worker'[v].outcome = status
  BY <1>2, <1>4 DEF WorkerType, MyApproval
<1>6. /\ attempt'[b] = [attempt[b] EXCEPT !.status = status, !.cleaned = confirmed]
      /\ \A a \in Approvals \ {b} : attempt'[a] = attempt[a]
  BY <1>2, <1>3 DEF Finishes
<1>7. /\ attempt'[b].status = status /\ attempt'[b].checks = attempt[b].checks
      /\ attempt'[b].by = attempt[b].by /\ attempt'[b].cleaned = confirmed
  BY <1>2, <1>6 DEF AttemptType
<1>8. /\ status = "VERIFIED" => attempt[b].status = "VERIFIED" /\ confirmed /\ b \notin tree'
      /\ \A a \in Approvals : a \in tree' => a \in tree
  BY <1>3 DEF Finishes
<1>9. Complete(b)' = Complete(b) /\ Complete(MyApproval(v))' = Complete(b)
  BY <1>5, <1>7 DEF Complete, Recorded
<1>10. Journal(b)'
  BY <1>1, <1>2, <1>7, <1>8, <1>9 DEF Journal, Live
<1>11. Settling(v)'
  <2>1. status = "VERIFIED" => Complete(b) /\ attempt[b].by = worker[v].repair
    BY <1>2, <1>8 DEF Journal, Working
  <2>2. Mine(v)' = attempt'[b] /\ (Finished(MyApproval(v))' =
          (attempt'[b].status = "VERIFIED" /\ attempt'[b].cleaned /\ b \notin tree'))
    BY <1>5 DEF Mine, Finished
  <2>3. QED
    BY <1>5, <1>7, <1>8, <1>9, <2>1, <2>2 DEF Settling
<1>12. QED
  BY <1>1, <1>4, <1>5, <1>6, <1>8, <1>10, <1>11, WorkStep DEF Lifecycle, At, hostedVars

-----------------------------------------------------------------------------
(* The steps on the rows, and those of others. *)

\* No attempt is touched: what rests on them stays.
LEMMA AttemptsStay ==
  ASSUME IInv, UNCHANGED attemptVars
  PROVE  /\ \A a \in Approvals : Kept(a) /\ Journal(a)' /\ Finished(a)' = Finished(a)
         /\ \A a : Complete(a)' = Complete(a)
<1>1. \A a : Complete(a)' = Complete(a)
  BY SameRecord DEF attemptVars
<1>2. QED
  BY <1>1 DEF IInv, attemptVars, Kept, Journal, Live, Finished

LEMMA ClaimKeeps ==
  ASSUME IInv, TypeOK', NEW v \in Workers, ClaimHostedRepair(v)
  PROVE  IInv'
<1>1. /\ At(v, "claim") /\ worker[v].repair \in Repairs /\ MyApproval(v) \in Approvals
      /\ worker[v] \in WorkerType /\ Held(v)
      /\ row \in [Repairs -> [status : Statuses, approval : Approvals \cup {None},
                              sealed : BOOLEAN]]
  BY DEF ClaimHostedRepair, IInv, TypeOK, Held, Named, At, WithRepair, WithApproval
<1>2. CASE Leaves(v) /\ UNCHANGED row
  BY <1>1, <1>2, LeavesAt, QuietStep
     DEF ClaimHostedRepair, Dispatches, At, Executing, Lifecycle
<1>3. CASE ~(Leaves(v) /\ UNCHANGED row)
  <2> DEFINE r == worker[v].repair
  <2>1. /\ row[r].status = "registered" /\ Becomes(v, [worker[v] EXCEPT !.pc = "admit"])
        /\ row' = [row EXCEPT ![r].status = "executing"]
    BY <1>3 DEF ClaimHostedRepair, Claimable, Moves
  <2>2. worker'[v] = [worker[v] EXCEPT !.pc = "admit"]
        /\ \A w \in Workers \ {v} : worker'[w] = worker[w]
    BY <2>1, BecomesAt
  <2>3. /\ worker'[v].pc = "admit" /\ worker'[v].repair = r
        /\ worker'[v].approval = worker[v].approval
    BY <1>1, <2>2 DEF WorkerType
  <2>4. /\ \A x \in Repairs : x # r => row'[x] = row[x]
        /\ row'[r].status = "executing" /\ row'[r].approval = row[r].approval
    BY <1>1, <2>1
  <2>5. Held(v)'
    BY <1>1, <2>3, <2>4
       DEF Held, Named, Owns, At, MyRow, MyApproval, WithApproval, WithRepair, Executing,
           Lifecycle
  <2>6. \A x \in Repairs : RowKept(v, x)
    BY <2>1, <2>4 DEF RowKept
  <2>7. UNCHANGED attemptVars
    BY DEF ClaimHostedRepair
  <2>8. ASSUME NEW x \in Repairs PROVE Booked(x)'
    <3>1. CASE x # r
      BY <2>4, <2>7, <3>1, AttemptsStay DEF IInv, Booked, attemptVars
    <3>2. CASE x = r
      BY <1>1, <2>1, <2>4, <3>2 DEF IInv, Booked
    <3>3. QED
      BY <3>1, <3>2
  <2>9. \A x \in Repairs : Dispatches(v, x)' <=> x = r
    BY <2>3 DEF Dispatches, Executing
  <2>10. \A x \in Repairs : ~Dispatches(v, x)
    BY <1>1 DEF Dispatches, At, Executing
  <2>11. \A a \in Approvals : AttemptKept(v, a) /\ Journal(a)'
    BY <2>7, AttemptsStay DEF AttemptKept
  <2>12. crashed' = crashed /\ row[r].status # "executing"
    BY <2>1 DEF ClaimHostedRepair
  <2>13. \A x \in Repairs : Dispatches(v, x)' => row[x].status # "executing"
    BY <2>9, <2>12
  <2>14. worker'[v].pc \notin Lifecycle
    BY <2>3 DEF Lifecycle
  <2>15. \A x \in Repairs \ crashed' : row'[x].status = "executing" =>
           Dispatches(v, x)' \/ (row[x].status = "executing" /\ ~Dispatches(v, x))
    BY <2>4, <2>9, <2>10
  <2>16. QED
    BY <2>2, <2>5, <2>6, <2>8, <2>11, <2>12, <2>13, <2>14, <2>15, StepKeeps
<1>4. QED
  BY <1>2, <1>3

LEMMA SettleKeeps ==
  ASSUME IInv, TypeOK', NEW v \in Workers, FinishHostedRepair(v)
  PROVE  IInv'
<1>1. /\ At(v, "settle") /\ worker[v] \in WorkerType /\ Held(v) /\ Leaves(v)
      /\ MyApproval(v) \in Approvals
      /\ row \in [Repairs -> [status : Statuses, approval : Approvals \cup {None},
                              sealed : BOOLEAN]]
  BY DEF FinishHostedRepair, IInv, TypeOK, Held, Named, At, WithApproval, Executing
<1>2. CASE worker[v].repair = None
  BY <1>1, <1>2, RepairNoneAssumption, LeavesAt, QuietStep
     DEF FinishHostedRepair, Dispatches, Lifecycle
<1>3. CASE worker[v].repair # None
  <2> DEFINE r == worker[v].repair
             settled == IF worker[v].outcome = "VERIFIED" THEN "completed" ELSE "failed"
  <2>1. r \in Repairs /\ row[r].status = "executing" /\ row[r].approval = MyApproval(v)
    BY <1>1, <1>3 DEF WorkerType, Held, Owns, At, Executing, MyRow
  <2>2. row' = [row EXCEPT ![r].status = settled] /\ UNCHANGED <<attemptVars, crashed>>
    BY <1>3, <2>1 DEF FinishHostedRepair, Settles, MyRow
  <2>3. /\ \A x \in Repairs : x # r => row'[x] = row[x]
        /\ row'[r].status = settled /\ row'[r].approval = row[r].approval
    BY <1>1, <2>1, <2>2
  <2>4. \A x \in Repairs : Dispatches(v, x) <=> x = r
    BY <1>1 DEF Dispatches, At, Executing
  <2>5. \A x \in Repairs : RowKept(v, x)
    BY <2>1, <2>3, <2>4 DEF RowKept
  <2>6. ASSUME NEW x \in Repairs PROVE Booked(x)'
    <3>1. CASE x # r
      BY <2>2, <2>3, <3>1, AttemptsStay DEF IInv, Booked, attemptVars
    <3>2. CASE x = r
      <4>1. PICK a \in Approvals : a = MyApproval(v) /\ row[r].approval = a
        BY <1>1, <2>1
      <4>2. settled = "completed" => Finished(a) /\ Complete(a) /\ attempt[a].by = r
        BY <1>1, <4>1 DEF Held, Settling, Mine
      <4>3. row'[x].approval = a /\ row'[x].status = settled
        BY <2>3, <3>2, <4>1
      <4>4. UNCHANGED <<attempt, tree>> /\ Complete(a)' = Complete(a)
        BY <2>2, AttemptsStay DEF attemptVars
      <4>5. QED
        BY <3>2, <4>2, <4>3, <4>4 DEF Booked, Finished
    <3>3. QED
      BY <3>1, <3>2
  <2>7. \A a \in Approvals : AttemptKept(v, a) /\ Journal(a)'
    BY <2>2, AttemptsStay DEF AttemptKept
  <2>8. /\ \A w \in Workers \ {v} : worker'[w] = worker[w]
        /\ Held(v)' /\ worker'[v].pc \notin Lifecycle
        /\ \A x \in Repairs : ~Dispatches(v, x)'
    BY <1>1, LeavesAt DEF Lifecycle
  <2>9. \A x \in Repairs \ crashed' : row'[x].status = "executing" =>
          row[x].status = "executing" /\ ~Dispatches(v, x)
    BY <2>3, <2>4
  <2>10. QED
    BY <2>2, <2>5, <2>6, <2>7, <2>8, <2>9, StepKeeps
<1>4. QED
  BY <1>2, <1>3

LEMMA ReconcileKeeps ==
  ASSUME IInv, TypeOK', NEW v \in Workers, Reconcile(v)
  PROVE  IInv'
<1>1. At(v, "judged") /\ worker[v].outcome # "recovered"
  BY DEF Reconcile, IInv, Held, Named
<1>2. UNCHANGED row /\ Leaves(v)
  BY <1>1 DEF Reconcile
<1>3. QED
  BY <1>1, <1>2, LeavesAt, QuietStep DEF Reconcile, Dispatches, At, Executing, Lifecycle

LEMMA RegisterKeeps ==
  ASSUME IInv, TypeOK', NEW r \in Repairs, NEW a \in Approvals, Register(r, a)
  PROVE  IInv'
<1>1. /\ UNCHANGED <<attemptVars, worker, crashed>> /\ row[r].status = "none"
      /\ row \in [Repairs -> [status : Statuses, approval : Approvals \cup {None},
                              sealed : BOOLEAN]]
  BY DEF Register, IInv, TypeOK
<1>2. /\ \A x \in Repairs : x # r => row'[x] = row[x]
      /\ row'[r].status = "registered" /\ row'[r].approval = a
  BY <1>1 DEF Register
<1>3. \A w \in Workers : Held(w)'
  <2> SUFFICES ASSUME NEW w \in Workers PROVE Held(w)'
    OBVIOUS
  <2>1. Held(w) /\ worker[w] \in WorkerType
    BY DEF IInv, TypeOK
  <2>2. Named(w)'
    BY <1>1, <2>1 DEF Held, Named, MyApproval, At
  <2>3. Owns(w)'
    BY <1>1, <1>2, <2>1
       DEF Held, Named, Owns, MyRow, MyApproval, At, WorkerType, WithRepair, Executing
  <2>4. worker[w].pc \in Lifecycle => Working(w)'
    <3> SUFFICES ASSUME worker[w].pc \in Lifecycle PROVE Working(w)'
      OBVIOUS
    <3>1. Kept(MyApproval(w)) /\ Working(w)
      BY <1>1, <2>1, AttemptsStay, AtWork
    <3>2. QED
      BY <1>1, <3>1, WorkingKept
  <2>5. At(w, "settle") => Settling(w)'
    <3> SUFFICES ASSUME At(w, "settle") PROVE Settling(w)'
      OBVIOUS
    <3>1. Kept(MyApproval(w)) /\ Settling(w)
      BY <1>1, <2>1, AttemptsStay DEF Held, Named, At, WithApproval, Executing
    <3>2. QED
      BY <1>1, <3>1, SettlingKept
  <2>6. QED
    BY <1>1, <2>2, <2>3, <2>4, <2>5 DEF Held, At
<1>4. ASSUME NEW x \in Repairs PROVE Booked(x)'
  BY <1>1, <1>2, AttemptsStay DEF IInv, Booked, attemptVars
<1>5. Exclusive' /\ OneDispatcher'
  BY <1>1 DEF IInv, Exclusive, OneDispatcher, MyApproval, Dispatches
<1>6. UnsettledWasCutOff'
  BY <1>1, <1>2 DEF IInv, UnsettledWasCutOff, Dispatches
<1>7. QED
  BY <1>1, <1>3, <1>4, <1>5, <1>6, AttemptsStay DEF IInv

\* An approval that dies, or is stopped, is on record as complete or halts.
LEMMA HaltKeeps ==
  ASSUME IInv, TypeOK', NEW b \in Approvals, Die(b) \/ StopLands(b), UNCHANGED hostedVars
  PROVE  IInv'
<1>1. /\ UNCHANGED <<attempt, tree, worker, row, crashed>>
      /\ dead \subseteq dead' /\ stop \subseteq stop' /\ b \in dead' \cup stop'
      /\ halted' = IF Complete(b) THEN halted ELSE halted \cup {b}
  BY DEF Die, StopLands, Halt, hostedVars
<1>2. \A a : Complete(a)' = Complete(a)
  BY <1>1, SameRecord
<1>3. \A a \in Approvals : Kept(a) /\ Journal(a)'
  BY <1>1, <1>2 DEF IInv, Kept, Journal, Live
<1>4. \A w \in Workers : Held(w)'
  <2> SUFFICES ASSUME NEW w \in Workers PROVE Held(w)'
    OBVIOUS
  <2>1. Held(w)
    BY DEF IInv
  <2>2. Named(w)' /\ Owns(w)'
    BY <1>1, <2>1 DEF Held, Named, Owns, MyRow, MyApproval, At
  <2>3. worker[w].pc \in Lifecycle => Working(w)'
    BY <1>1, <1>3, WorkingKept, AtWork
  <2>4. At(w, "settle") => Settling(w)'
    <3> SUFFICES ASSUME At(w, "settle") PROVE Settling(w)'
      OBVIOUS
    <3>1. Kept(MyApproval(w)) /\ Settling(w)
      BY <1>3, <2>1 DEF Held, Named, At, WithApproval, Executing
    <3>2. QED
      BY <1>1, <3>1, SettlingKept
  <2>5. QED
    BY <1>1, <2>2, <2>3, <2>4 DEF Held, At
<1>5. \A r \in Repairs : Booked(r)'
  BY <1>1, <1>2 DEF IInv, Booked, Finished
<1>6. Exclusive' /\ OneDispatcher' /\ UnsettledWasCutOff'
  BY <1>1 DEF IInv, Exclusive, OneDispatcher, UnsettledWasCutOff, MyApproval, Dispatches
<1>7. QED
  BY <1>3, <1>4, <1>5, <1>6 DEF IInv

\* The lock decides nothing of this, and may go.
LEMMA LockDoesNotMatter ==
  ASSUME IInv, TypeOK', UNCHANGED <<attemptVars, worker, row, crashed>>
  PROVE  IInv'
<1>1. \A a \in Approvals : Kept(a) /\ Journal(a)'
  BY AttemptsStay
<1>2. \A w \in Workers : Held(w)'
  <2> SUFFICES ASSUME NEW w \in Workers PROVE Held(w)'
    OBVIOUS
  <2>1. Held(w)
    BY DEF IInv
  <2>2. Named(w)' /\ Owns(w)'
    BY <2>1 DEF Held, Named, Owns, MyRow, MyApproval, At
  <2>3. worker[w].pc \in Lifecycle => Working(w)'
    BY <1>1, WorkingKept, AtWork
  <2>4. At(w, "settle") => Settling(w)'
    <3> SUFFICES ASSUME At(w, "settle") PROVE Settling(w)'
      OBVIOUS
    <3>1. Kept(MyApproval(w)) /\ Settling(w)
      BY <1>1, <2>1 DEF Held, Named, At, WithApproval, Executing
    <3>2. QED
      BY <3>1, SettlingKept
  <2>5. QED
    BY <2>2, <2>3, <2>4 DEF Held, At
<1>3. \A r \in Repairs : Booked(r)'
  BY AttemptsStay DEF IInv, Booked, attemptVars, Finished
<1>4. Exclusive' /\ OneDispatcher' /\ UnsettledWasCutOff'
  BY DEF IInv, Exclusive, OneDispatcher, UnsettledWasCutOff, MyApproval, Dispatches
<1>5. QED
  BY <1>1, <1>2, <1>3, <1>4 DEF IInv

-----------------------------------------------------------------------------
(* The theorems. *)

LEMMA InitHolds == Init => IInv
<1> SUFFICES ASSUME Init PROVE IInv
  OBVIOUS
<1>1. /\ \A a \in Approvals : attempt[a] = NoAttempt
      /\ \A w \in Workers : worker[w] = Idle
      /\ \A r \in Repairs : row[r] = NoRow
      /\ tree = {} /\ halted = {} /\ dead = {} /\ stop = {} /\ crashed = {}
  BY DEF Init, AttemptInit
<1>2. TypeOK
  <2>1. NoAttempt \in AttemptType /\ Idle \in WorkerType
    BY DEF NoAttempt, AttemptType, Idle, WorkerType
  <2>2. NoRow \in [status : Statuses, approval : Approvals \cup {None}, sealed : BOOLEAN]
    BY DEF NoRow, Statuses
  <2>3. QED
    BY <2>1, <2>2 DEF TypeOK, Init, AttemptInit
<1>3. \A a \in Approvals : Journal(a)
  BY <1>1 DEF Journal, NoAttempt
<1>4. \A r \in Repairs : Booked(r)
  BY <1>1 DEF Booked, NoRow
<1>5. \A w \in Workers : worker[w].pc = "idle"
  BY <1>1 DEF Idle
<1>6. \A w \in Workers : Held(w)
  BY <1>5 DEF Held, Named, Owns, At, WithApproval, WithRepair, Executing, Lifecycle
<1>7. Exclusive /\ OneDispatcher
  BY <1>5 DEF Exclusive, OneDispatcher, Dispatches, Executing, Lifecycle
<1>8. UnsettledWasCutOff
  BY <1>1 DEF UnsettledWasCutOff, NoRow
<1>9. QED
  BY <1>2, <1>3, <1>4, <1>6, <1>7, <1>8 DEF IInv

LEMMA AttemptStepKeeps ==
  ASSUME IInv, TypeOK', NEW v \in Workers, AttemptStep(v), UNCHANGED hostedVars
  PROVE  IInv'
BY BeginKeeps, StartKeeps, PrepareKeeps, StartCheckKeeps, EndCheckKeeps, ApplyPatchKeeps,
   VerifyKeeps, RaiseKeeps, FailureKeeps, FinishKeeps DEF AttemptStep

LEMMA NextKeeps == IInv /\ [Next]_vars => IInv'
<1> SUFFICES ASSUME IInv, [Next]_vars PROVE IInv'
  OBVIOUS
<1>1. TypeOK'
  BY TypeStays
<1>2. ASSUME NEW v \in Workers, DispatchStep(v) PROVE IInv'
  <2>1. CASE Distrust(v)
    BY <1>1, <2>1, SettleRefused DEF Distrust, Executing
  <2>2. CASE AttemptStep(v) /\ UNCHANGED hostedVars
    BY <1>1, <2>2, AttemptStepKeeps
  <2>3. QED
    BY <1>1, <1>2, <2>1, <2>2, ReadInputsKeeps, ClaimKeeps, AdmitKeeps, SettleKeeps, LeaveKeeps,
       InspectionKeeps, ReconcileKeeps DEF DispatchStep
<1>3. CASE Others
  <2>1. ASSUME NEW v \in Workers, LoseLock(v) PROVE IInv'
    BY <1>1, <2>1, LockDoesNotMatter DEF LoseLock
  <2>2. QED
    BY <1>1, <1>3, <2>1, RegisterKeeps, EnterKeeps, LocalKeeps, CrashKeeps, HaltKeeps DEF Others
<1>4. CASE UNCHANGED vars
  BY <1>1, <1>4, LockDoesNotMatter DEF vars
<1>5. QED
  BY <1>2, <1>3, <1>4 DEF Next

LEMMA Inductive == Spec => []IInv
BY InitHolds, NextKeeps, PTL DEF Spec

\* Attempts, workers and rows keep their types.
THEOREM TypeCorrect == Spec => []TypeOK
<1>1. IInv => TypeOK
  BY DEF IInv
<1>2. QED
  BY Inductive, <1>1, PTL

\* A completed repair was executed by its own dispatch, verified and cleaned up,
\* whoever died, lost a lock or shared the approval (finish_hosted_repair).
THEOREM CompletedVerified == Spec => []CompletedWasVerified
<1>1. IInv => CompletedWasVerified
  BY DEF IInv, Booked, CompletedWasVerified
<1>2. QED
  BY Inductive, <1>1, PTL

\* No attempt is verified whose approval was revoked, expired or stopped before its
\* last check was on record (_run_stage).
THEOREM HaltedNotVerified == Spec => []HaltedIsNotVerified
<1>1. IInv => HaltedIsNotVerified
  BY DEF IInv, Journal, HaltedIsNotVerified, TypeOK
<1>2. QED
  BY Inductive, <1>1, PTL

\* A row that nobody is at work on is executing only if its dispatch was cut off
\* (_dispatch_registered_repair_locked).
THEOREM UnsettledCutOff == Spec => []UnsettledWasCutOff
<1>1. IInv => UnsettledWasCutOff
  BY DEF IInv
<1>2. QED
  BY Inductive, <1>1, PTL

-----------------------------------------------------------------------------
(* The refinement. *)

Use(a) == IF Unused(a) THEN "unused" ELSE IF Finished(a) THEN "verified" ELSE "begun"

LEMMA InitImplements == Init => Life!Init
<1> SUFFICES ASSUME Init PROVE Life!Init
  OBVIOUS
<1>1. \A a \in Approvals : attempt[a].status = "none" /\ attempt[a].by = None
  BY DEF Init, AttemptInit, NoAttempt
<1>2. \A r \in Repairs : row[r].status = "none"
  BY DEF Init, NoRow
<1>3. QED
  BY <1>1, <1>2 DEF Life!Init, Unused

LEMMA Stutters ==
  ASSUME \A a \in Approvals : Use(a)' = Use(a) /\ attempt'[a].by = attempt[a].by,
         \A r \in Repairs : row'[r].status = row[r].status
  PROVE  UNCHANGED Life!vars
BY DEF Life!vars, Use

\* At work on an attempt one does not finish it.
LEMMA WorkStutters ==
  ASSUME IInv, IInv', NEW v \in Workers, NEW b, b = MyApproval(v),
         worker[v].pc \in Lifecycle, worker'[v].pc \in Lifecycle, MyApproval(v)' = b,
         \A a \in Approvals \ {b} : attempt'[a] = attempt[a] /\ (a \in tree' <=> a \in tree),
         worker'[v].repair = worker[v].repair, UNCHANGED row
  PROVE  UNCHANGED Life!vars
<1>1. b \in Approvals /\ Working(v)
  BY AtWork
<1>2. Working(v)'
  BY DEF IInv, Held
<1>3. Mine(v)' = attempt'[b]
  BY DEF Mine
<1>4. /\ attempt[b].status # "none" /\ attempt'[b].status # "none"
      /\ ~attempt[b].cleaned /\ ~attempt'[b].cleaned /\ attempt'[b].by = attempt[b].by
  BY <1>1, <1>2, <1>3 DEF Working, Mine
<1>5. Use(b)' = Use(b)
  BY <1>4 DEF Use, Unused, Finished
<1>6. \A a \in Approvals \ {b} : Use(a)' = Use(a)
  BY DEF Use, Unused, Finished
<1>7. QED
  BY <1>4, <1>5, <1>6, Stutters

WorksOn(v) ==
  \/ StartAttempt(v) \/ Prepare(v) \/ StartCheck(v) \/ EndCheck(v) \/ ApplyPatch(v)
  \/ MarkVerified(v) \/ Raise(v) \/ PersistFailure(v)

LEMMA WorkGoesOn ==
  ASSUME IInv, NEW v \in Workers, NEW b, b = MyApproval(v), WorksOn(v)
  PROVE  /\ worker[v].pc \in Lifecycle /\ worker'[v].pc \in Lifecycle /\ MyApproval(v)' = b
         /\ worker'[v].repair = worker[v].repair
         /\ \A a \in Approvals \ {b} : attempt'[a] = attempt[a] /\ (a \in tree' <=> a \in tree)
<1>1. worker \in [Workers -> WorkerType] /\ attempt \in [Approvals -> AttemptType]
  BY DEF IInv, TypeOK
<1>2. worker[v].pc \in Lifecycle
  BY DEF WorksOn, StartAttempt, Prepare, StartCheck, EndCheck, ApplyPatch, MarkVerified, Raise,
         PersistFailure, StageDone, At, Lifecycle
<1>3. \A a \in Approvals \ {b} : attempt'[a] = attempt[a] /\ (a \in tree' <=> a \in tree)
  BY <1>1 DEF WorksOn, StartAttempt, Prepare, StartCheck, EndCheck, ApplyPatch, MarkVerified,
              Raise, PersistFailure, attemptVars
<1>4. ASSUME NEW outcome, Ends(v, outcome)
      PROVE  /\ worker'[v].pc = "fail" /\ worker'[v].repair = worker[v].repair
             /\ worker'[v].approval = worker[v].approval
  BY <1>1, <1>4 DEF Ends, Becomes, WorkerType
<1>5. /\ worker'[v].pc \in Lifecycle /\ worker'[v].repair = worker[v].repair
      /\ worker'[v].approval = worker[v].approval
  <2>1. CASE \E outcome : Ends(v, outcome)
    BY <1>4, <2>1 DEF Lifecycle
  <2>2. CASE StartAttempt(v)
    BY <1>1, <2>2 DEF StartAttempt, Moves, Becomes, WorkerType, Lifecycle
  <2>3. CASE Prepare(v)
    BY <1>1, <2>3 DEF Prepare, Becomes, WorkerType, Lifecycle
  <2>4. CASE StartCheck(v) /\ ~\E outcome : Ends(v, outcome)
    <3>1. PICK c : Becomes(v, [worker[v] EXCEPT !.pc = "check", !.check = c])
      BY <2>4 DEF StartCheck
    <3>2. QED
      BY <1>1, <3>1 DEF Becomes, WorkerType, Lifecycle
  <2>5. CASE EndCheck(v) /\ ~\E outcome : Ends(v, outcome)
    <3>1. Becomes(v, [worker[v] EXCEPT !.pc = "stage", !.check = None])
      BY <2>5 DEF EndCheck
    <3>2. QED
      BY <1>1, <3>1 DEF Becomes, WorkerType, Lifecycle
  <2>6. CASE ApplyPatch(v) /\ ~\E outcome : Ends(v, outcome)
    BY <1>1, <2>6 DEF ApplyPatch, StageDone, At, Becomes, WorkerType, Lifecycle
  <2>7. CASE MarkVerified(v)
    BY <1>1, <2>7 DEF MarkVerified, Becomes, WorkerType, Lifecycle
  <2>8. CASE PersistFailure(v)
    BY <1>1, <2>8 DEF PersistFailure, Becomes, WorkerType, Lifecycle
  <2>9. QED
    BY <2>1, <2>2, <2>3, <2>4, <2>5, <2>6, <2>7, <2>8 DEF WorksOn, Raise
<1>6. QED
  BY <1>2, <1>3, <1>5 DEF MyApproval

LEMMA BeginImplements ==
  ASSUME IInv, NEW v \in Workers, BeginAttempt(v), UNCHANGED hostedVars
  PROVE  [Life!Next]_(Life!vars)
<1>1. PICK b \in Approvals : b = MyApproval(v)
  BY DEF BeginAttempt, IInv, Held, Named, At, WithApproval, Executing
<1>2. CASE ~Unused(b)
  BY <1>1, <1>2, Stutters DEF BeginAttempt, Use, Unused, Finished, hostedVars
<1>3. CASE Unused(b)
  <2> DEFINE r == worker[v].repair
             new == [NoAttempt EXCEPT !.status = "made", !.by = r]
  <2>1. attempt' = [attempt EXCEPT ![b] = new] /\ UNCHANGED <<tree, row>>
    BY <1>1, <1>3 DEF BeginAttempt, hostedVars
  <2>2. attempt'[b] = new /\ \A a \in Approvals : a # b => attempt'[a] = attempt[a]
    BY <2>1 DEF IInv, TypeOK
  <2>3. attempt'[b].status = "made" /\ attempt'[b].by = r /\ ~attempt'[b].cleaned
    BY <2>2 DEF NoAttempt
  <2>4. Use(b) = "unused" /\ Use(b)' = "begun"
    BY <1>3, <2>3 DEF Use, Unused, Finished
  <2>5. \A a \in Approvals : a # b => Use(a)' = Use(a) /\ attempt'[a].by = attempt[a].by
    BY <2>1, <2>2 DEF Use, Unused, Finished
  <2>6. r \in {x \in Repairs : row[x].status = "executing"} \cup {None}
    BY DEF IInv, TypeOK, WorkerType, Held, Owns, MyRow, BeginAttempt, At, Executing
  <2>7. [a \in Approvals |-> Use(a)]' = [[a \in Approvals |-> Use(a)] EXCEPT ![b] = "begun"]
    BY <2>4, <2>5
  <2>8. [a \in Approvals |-> attempt[a].by]' = [[a \in Approvals |-> attempt[a].by] EXCEPT ![b] = r]
    BY <2>3, <2>5
  <2>9. UNCHANGED [x \in Repairs |-> row[x].status]
    BY <2>1
  <2>10. r \in {x \in Repairs : [y \in Repairs |-> row[y].status][x] = "executing"} \cup {None}
    BY <2>6
  <2>11. Life!Begin(b)
    BY <2>4, <2>7, <2>8, <2>9, <2>10 DEF Life!Begin, Use
  <2>12. QED
    BY <2>11 DEF Life!Next
<1>4. QED
  BY <1>2, <1>3

LEMMA FinishImplements ==
  ASSUME IInv, NEW v \in Workers, FinishAttempt(v), UNCHANGED hostedVars
  PROVE  [Life!Next]_(Life!vars)
<1>1. At(v, "finish")
  BY DEF FinishAttempt
<1>2. PICK b \in Approvals : b = MyApproval(v)
  BY <1>1, AtWork DEF At, Lifecycle
<1>3. /\ attempt[b] \in AttemptType /\ attempt \in [Approvals -> AttemptType]
      /\ attempt[b].status # "none" /\ ~attempt[b].cleaned
  BY <1>1, <1>2, AtWork DEF At, Lifecycle, IInv, TypeOK, Working
<1>4. PICK status \in {"VERIFIED", "STOPPED", "FAILED"}, confirmed \in BOOLEAN :
        Finishes(v, b, status, confirmed)
  BY <1>2, FinishEffect
<1>5. /\ attempt'[b] = [attempt[b] EXCEPT !.status = status, !.cleaned = confirmed]
      /\ \A a \in Approvals : a # b => attempt'[a] = attempt[a] /\ (a \in tree' <=> a \in tree)
  BY <1>3, <1>4 DEF Finishes
<1>6. /\ attempt'[b].status = status /\ attempt'[b].cleaned = confirmed
      /\ attempt'[b].by = attempt[b].by
  BY <1>3, <1>5 DEF AttemptType
<1>7. Use(b) = "begun"
  BY <1>3 DEF Use, Unused, Finished
<1>8. \A a \in Approvals : a # b => Use(a)' = Use(a)
  BY <1>5 DEF Use, Unused, Finished
<1>9. UNCHANGED row /\ \A a \in Approvals : attempt'[a].by = attempt[a].by
  BY <1>5, <1>6 DEF hostedVars
<1>10. CASE status = "VERIFIED"
  <2>1. Use(b)' = "verified"
    BY <1>4, <1>6, <1>10 DEF Use, Unused, Finished, Finishes
  <2>2. [a \in Approvals |-> Use(a)]' = [[a \in Approvals |-> Use(a)] EXCEPT ![b] = "verified"]
    BY <1>8, <2>1
  <2>3. UNCHANGED <<[a \in Approvals |-> attempt[a].by], [x \in Repairs |-> row[x].status]>>
    BY <1>9
  <2>4. Life!Verify(b)
    BY <1>7, <2>2, <2>3 DEF Life!Verify, Use
  <2>5. QED
    BY <2>4 DEF Life!Next
<1>11. CASE status # "VERIFIED"
  <2>1. Use(b)' = "begun"
    BY <1>6, <1>11 DEF Use, Unused, Finished
  <2>2. QED
    BY <1>7, <1>8, <1>9, <2>1, Stutters
<1>12. QED
  BY <1>10, <1>11

\* The row of r moves on, and no attempt is touched.
LEMMA RowMoves ==
  ASSUME NEW r \in Repairs, UNCHANGED attemptVars, NEW to,
         \A x \in Repairs : x # r => row'[x].status = row[x].status,
         row'[r].status = to
  PROVE  /\ [x \in Repairs |-> row[x].status]'
              = [[x \in Repairs |-> row[x].status] EXCEPT ![r] = to]
         /\ UNCHANGED <<[a \in Approvals |-> Use(a)], [a \in Approvals |-> attempt[a].by]>>
BY DEF attemptVars, Use, Unused, Finished

LEMMA RowsImplement ==
  ASSUME IInv, NEW r \in Repairs, UNCHANGED attemptVars, NEW to,
         \A x \in Repairs : x # r => row'[x].status = row[x].status,
         row'[r].status = to,
         \/ row[r].status = "none" /\ to = "registered"
         \/ row[r].status = "registered" /\ to = "executing"
         \/ row[r].status = "executing" /\ to = "failed"
         \/ /\ row[r].status = "executing" /\ to = "completed"
            /\ \E a \in Approvals : attempt[a].by = r /\ Finished(a)
  PROVE  [Life!Next]_(Life!vars)
<1> DEFINE status == [x \in Repairs |-> row[x].status]
<1>1. status' = [status EXCEPT ![r] = to] /\ status[r] = row[r].status
  BY RowMoves
<1>2. UNCHANGED <<[a \in Approvals |-> Use(a)], [a \in Approvals |-> attempt[a].by]>>
  BY RowMoves
<1>3. \A a \in Approvals : Finished(a) => Use(a) = "verified"
  BY DEF Use, Unused, Finished
<1>4. CASE row[r].status = "none" /\ to = "registered"
  BY <1>1, <1>2, <1>4 DEF Life!Next, Life!Register, Life!Moves, Use
<1>5. CASE row[r].status = "registered" /\ to = "executing"
  BY <1>1, <1>2, <1>5 DEF Life!Next, Life!Dispatch, Life!Moves, Use
<1>6. CASE row[r].status = "executing" /\ to = "failed"
  BY <1>1, <1>2, <1>6 DEF Life!Next, Life!Fail, Life!Moves, Use
<1>7. CASE /\ row[r].status = "executing" /\ to = "completed"
           /\ \E a \in Approvals : attempt[a].by = r /\ Finished(a)
  BY <1>1, <1>2, <1>3, <1>7 DEF Life!Next, Life!Complete, Life!Moves, Use
<1>8. QED
  BY <1>4, <1>5, <1>6, <1>7

LEMMA SettleImplements ==
  ASSUME IInv, NEW v \in Workers, FinishHostedRepair(v)
  PROVE  [Life!Next]_(Life!vars)
<1>1. /\ At(v, "settle") /\ worker[v] \in WorkerType /\ Held(v)
      /\ MyApproval(v) \in Approvals /\ UNCHANGED attemptVars
      /\ row \in [Repairs -> [status : Statuses, approval : Approvals \cup {None},
                              sealed : BOOLEAN]]
  BY DEF FinishHostedRepair, IInv, TypeOK, Held, Named, At, WithApproval, Executing
<1>2. CASE worker[v].repair = None
  BY <1>1, <1>2, Stutters DEF FinishHostedRepair, attemptVars, Use, Unused, Finished
<1>3. CASE worker[v].repair # None
  <2> DEFINE r == worker[v].repair
             to == IF worker[v].outcome = "VERIFIED" THEN "completed" ELSE "failed"
  <2>1. r \in Repairs /\ row[r].status = "executing"
    BY <1>1, <1>3 DEF WorkerType, Held, Owns, At, Executing, MyRow
  <2>2. row' = [row EXCEPT ![r].status = to]
    BY <1>3, <2>1 DEF FinishHostedRepair, Settles, MyRow
  <2>3. row'[r].status = to /\ \A x \in Repairs : x # r => row'[x].status = row[x].status
    BY <1>1, <2>1, <2>2
  <2>4. to = "completed" => \E a \in Approvals : attempt[a].by = r /\ Finished(a)
    BY <1>1 DEF Held, Settling, Mine
  <2>5. to \in {"completed", "failed"}
    OBVIOUS
  <2>6. QED
    BY <1>1, <2>1, <2>3, <2>4, <2>5, RowsImplement
<1>4. QED
  BY <1>2, <1>3

LEMMA NextImplements == IInv /\ IInv' /\ [Next]_vars => [Life!Next]_(Life!vars)
<1> SUFFICES ASSUME IInv, IInv', [Next]_vars PROVE [Life!Next]_(Life!vars)
  OBVIOUS
<1>1. CASE UNCHANGED <<attempt, tree, row>>
  BY <1>1, Stutters DEF Use, Unused, Finished
<1>2. ASSUME NEW v \in Workers, DispatchStep(v), ~UNCHANGED <<attempt, tree, row>>
      PROVE  [Life!Next]_(Life!vars)
  <2>1. CASE AttemptStep(v) /\ UNCHANGED hostedVars
    <3>1. CASE WorksOn(v)
      BY <2>1, <3>1, WorkGoesOn, WorkStutters DEF hostedVars
    <3>2. QED
      BY <2>1, <3>1, BeginImplements, FinishImplements DEF AttemptStep, WorksOn
  <2>2. CASE ClaimHostedRepair(v)
    <3>1. PICK r \in Repairs : r = worker[v].repair
      BY <2>2 DEF ClaimHostedRepair, IInv, Held, Named, At, WithRepair
    <3>2. row' = [row EXCEPT ![r].status = "executing"] /\ row[r].status = "registered"
          /\ UNCHANGED attemptVars
      BY <1>2, <2>2, <3>1 DEF ClaimHostedRepair, Claimable, attemptVars
    <3>3. row'[r].status = "executing" /\ \A x \in Repairs : x # r => row'[x].status = row[x].status
      BY <3>2 DEF IInv, TypeOK
    <3>4. QED
      BY <3>2, <3>3, RowsImplement
  <2>3. CASE FinishHostedRepair(v)
    BY <2>3, SettleImplements
  <2>4. CASE Reconcile(v)
    BY <1>2, <2>4 DEF Reconcile, IInv, Held, Named, attemptVars
  <2>5. QED
    BY <1>2, <2>1, <2>2, <2>3, <2>4
       DEF DispatchStep, ReadInputs, Admit, Distrust, Leave, ReadOrphan, Inspect, attemptVars,
           hostedVars
<1>3. ASSUME NEW r \in Repairs, NEW a \in Approvals, Register(r, a)
      PROVE  [Life!Next]_(Life!vars)
  <2>1. row[r].status = "none" /\ UNCHANGED attemptVars
        /\ row' = [row EXCEPT ![r].status = "registered", ![r].approval = a]
    BY <1>3 DEF Register
  <2>2. row'[r].status = "registered" /\ \A x \in Repairs : x # r => row'[x].status = row[x].status
    BY <2>1 DEF IInv, TypeOK
  <2>3. QED
    BY <2>1, <2>2, RowsImplement
<1>4. QED
  BY <1>1, <1>2, <1>3
     DEF Next, Others, Enter, ExecuteLocally, Crash, LoseLock, Die, StopLands, vars, attemptVars,
         hostedVars

\* Registered repairs implement RepairLife: one dispatch and one settlement of each,
\* one execution of an approval, and completion by an own, verified execution.
THEOREM ImplementsLife == Spec => RepairSpec
<1>1. Init => Life!Init
  BY InitImplements
<1>2. IInv /\ IInv' /\ [Next]_vars => [Life!Next]_(Life!vars)
  BY NextImplements
<1>3. QED
  BY Inductive, <1>1, <1>2, PTL DEF Spec, RepairSpec, Life!Spec
=============================================================================
