---------------------------- MODULE HostedRepair ----------------------------
(***************************************************************************)
(* Registered repairs: hosted_control.py and hosted_api.py of factoryline. *)
(* A tenant's admin registers a repair for an approval; its requester      *)
(* dispatches it, which claims the row, executes the approval and settles  *)
(* the row; an admin may reconcile the row of a dispatch that was          *)
(* interrupted.  Dispatch and reconciliation hold the advisory lock of the *)
(* repair, which Postgres drops with its session although the worker may   *)
(* go on.  The same approval may be registered twice, and executed locally *)
(* without any repair.  Each statement on the table is a transaction.      *)
(***************************************************************************)
EXTENDS RepairAttempt

VARIABLES
  row,       \* factory_hosted_repairs
  lock,      \* pg_try_advisory_lock: the session that holds it
  crashed    \* history: repairs whose dispatch was cut off after its claim

vars == <<attemptVars, worker, row, lock, crashed>>
hostedVars == <<row, lock, crashed>>

NoRow == [status |-> "none", approval |-> None, sealed |-> FALSE]
MyRow(w) == row[worker[w].repair]
Leaves(w) == Becomes(w, [Idle EXCEPT !.pc = "leave"])

\* register_hosted_repair, after _load_host_repair_approval.
Register(r, a) ==
  /\ row[r].status = "none" /\ a \notin dead
  /\ row' = [row EXCEPT ![r].status = "registered", ![r].approval = a]
  /\ UNCHANGED <<attemptVars, worker, lock, crashed>>

\* hosted_repair_session_lock; a lock that is taken refuses the call.
Enter(w, r, pc) ==
  /\ At(w, "idle") /\ lock[r] = None
  /\ lock' = [lock EXCEPT ![r] = w]
  /\ Becomes(w, [Idle EXCEPT !.pc = pc, !.repair = r])
  /\ UNCHANGED <<attemptVars, row, crashed>>

\* execute_approved_repair by the owner of a workspace.
ExecuteLocally(w, a) ==
  /\ At(w, "idle") /\ a \notin dead
  /\ Becomes(w, [Idle EXCEPT !.pc = "begin", !.approval = a])
  /\ UNCHANGED <<attemptVars, hostedVars>>

\* _registered_repair_inputs
ReadInputs(w) ==
  /\ At(w, "dispatch")
  /\ IF MyRow(w).status # "none" /\ MyRow(w).approval \notin dead
     THEN Becomes(w, [worker[w] EXCEPT !.pc = "claim", !.approval = MyRow(w).approval])
     ELSE Leaves(w)
  /\ UNCHANGED <<attemptVars, hostedVars>>

\* Mutation: the status is not asked for.
AnyStatus(r) == TRUE

Claimable(r) == row[r].status = "registered"

ClaimHostedRepair(w) ==
  /\ At(w, "claim")
  /\ IF Claimable(worker[w].repair)
     THEN row' = [row EXCEPT ![worker[w].repair].status = "executing"] /\ Moves(w, "admit")
     ELSE Leaves(w) /\ UNCHANGED row
  /\ UNCHANGED <<attemptVars, lock, crashed>>

\* execute_workflow_approved_repair up to the attempt: identity, approval file
\* and workflow approval are read again, and may be refused.
Admit(w) ==
  /\ At(w, "admit")
  /\ \/ MyApproval(w) \notin dead /\ Moves(w, "begin")
     \/ Becomes(w, [worker[w] EXCEPT !.pc = "settle", !.outcome = "refused"])
  /\ UNCHANGED <<attemptVars, hostedVars>>

\* The journal does not read back (_verify_host_dispatch_result), or the attempt
\* was not begun after all.
Distrust(w) ==
  /\ worker[w].pc \in {"persist", "settle"}
  /\ Becomes(w, [worker[w] EXCEPT !.pc = "settle", !.outcome = "refused"])
  /\ UNCHANGED <<attemptVars, hostedVars>>

\* Mutation: an execution that raises leaves the row.
SettlesResult(w) ==
  MyRow(w).status = "executing" /\ worker[w].outcome # "refused"

Settles(w) == MyRow(w).status = "executing"

\* finish_hosted_repair; a local execution has nothing to settle.
FinishHostedRepair(w) ==
  /\ At(w, "settle")
  /\ row' = IF worker[w].repair = None \/ ~Settles(w) THEN row
            ELSE [row EXCEPT ![worker[w].repair].status =
                    IF worker[w].outcome = "VERIFIED" THEN "completed" ELSE "failed"]
  /\ Leaves(w)
  /\ UNCHANGED <<attemptVars, lock, crashed>>

\* The end of the session lock, whether it is still held or not.
Unlocked(w) == [r \in Repairs |-> IF lock[r] = w THEN None ELSE lock[r]]

Leave(w) ==
  /\ At(w, "leave")
  /\ lock' = Unlocked(w)
  /\ Becomes(w, Idle)
  /\ UNCHANGED <<attemptVars, row, crashed>>

-----------------------------------------------------------------------------
(* _reconcile_registered_repair_locked *)

ReadOrphan(w) ==
  /\ At(w, "reconcile")
  /\ IF MyRow(w).status = "executing" /\ ~MyRow(w).sealed
     THEN Becomes(w, [worker[w] EXCEPT !.pc = "inspect", !.approval = MyRow(w).approval])
     ELSE Leaves(w)
  /\ UNCHANGED <<attemptVars, hostedVars>>

\* _recovery_attempt_evidence: an attempt that ended verified and clean ...
Finished(a) == attempt[a].status = "VERIFIED" /\ attempt[a].cleaned /\ a \notin tree

\* ... with a record of every check in both stages.
Evidenced(a) ==
  /\ Finished(a) /\ a \notin dead
  /\ attempt[a].checks = {"baseline", "repaired"} \X Checks

Inspect(w) ==
  /\ At(w, "inspect")
  /\ Becomes(w, [worker[w] EXCEPT !.pc = "judged",
                   !.outcome = IF Evidenced(MyApproval(w)) THEN "recovered" ELSE "pending"])
  /\ UNCHANGED <<attemptVars, hostedVars>>

\* reconcile_hosted_repair, or the answer that the repair remains executing.
Reconcile(w) ==
  /\ At(w, "judged")
  /\ row' = IF worker[w].outcome = "recovered" /\ MyRow(w).status = "executing"
            THEN [row EXCEPT ![worker[w].repair].status = "completed",
                             ![worker[w].repair].sealed = TRUE]
            ELSE row
  /\ Leaves(w)
  /\ UNCHANGED <<attemptVars, lock, crashed>>

-----------------------------------------------------------------------------
\* After the claim and before the row is settled.
Executing == {"admit", "begin", "persist", "prepare", "stage", "check", "fail",
              "finish", "settle"}
Dispatches(w, r) == worker[w].repair = r /\ worker[w].pc \in Executing

\* The process dies, or the database fails it.
Crash(w) ==
  /\ ~At(w, "idle")
  /\ crashed' = crashed \cup {r \in Repairs : Dispatches(w, r)}
  /\ lock' = Unlocked(w)
  /\ Becomes(w, Idle)
  /\ UNCHANGED <<attemptVars, row>>

LoseLock(w) ==
  /\ \E r \in Repairs : lock[r] = w
  /\ lock' = Unlocked(w)
  /\ UNCHANGED <<attemptVars, worker, row, crashed>>

Init ==
  /\ AttemptInit
  /\ row = [r \in Repairs |-> NoRow]
  /\ lock = [r \in Repairs |-> None]
  /\ crashed = {}

DispatchStep(w) ==
  \/ ReadInputs(w) \/ ClaimHostedRepair(w) \/ Admit(w) \/ Distrust(w)
  \/ FinishHostedRepair(w) \/ Leave(w)
  \/ ReadOrphan(w) \/ Inspect(w) \/ Reconcile(w)
  \/ AttemptStep(w) /\ UNCHANGED hostedVars

Others ==
  \/ \E r \in Repairs, a \in Approvals : Register(r, a)
  \/ \E w \in Workers, r \in Repairs, pc \in {"dispatch", "reconcile"} : Enter(w, r, pc)
  \/ \E w \in Workers, a \in Approvals : ExecuteLocally(w, a)
  \/ \E w \in Workers : Crash(w) \/ LoseLock(w)
  \/ \E a \in Approvals : (Die(a) \/ StopLands(a)) /\ UNCHANGED hostedVars

Next == (\E w \in Workers : DispatchStep(w)) \/ Others

Spec == Init /\ [][Next]_vars
FairSpec == Spec /\ \A w \in Workers : WF_vars(DispatchStep(w))

-----------------------------------------------------------------------------
(* Properties. *)

Statuses == {"none", "registered", "executing", "completed", "failed"}
AttemptType == [status : {"none", "made", "RUNNING", "VERIFIED", "STOPPED", "FAILED"},
                checks : SUBSET ({"baseline", "repaired"} \X Checks),
                cleaned : BOOLEAN, by : Repairs \cup {None}]
WorkerType == [pc : Executing \cup {"idle", "dispatch", "claim", "reconcile", "inspect",
                                    "judged", "leave"},
               repair : Repairs \cup {None}, approval : Approvals \cup {None},
               stage : {"none", "baseline", "repaired"}, check : Checks \cup {None},
               outcome : {"none", "VERIFIED", "STOPPED", "FAILED", "refused",
                          "recovered", "pending"}]

TypeOK ==
  /\ attempt \in [Approvals -> AttemptType]
  /\ tree \subseteq Approvals /\ dead \subseteq Approvals /\ stop \subseteq Approvals
  /\ halted \subseteq Approvals
  /\ worker \in [Workers -> WorkerType]
  /\ row \in [Repairs -> [status : Statuses, approval : Approvals \cup {None},
                          sealed : BOOLEAN]]
  /\ lock \in [Repairs -> Workers \cup {None}]
  /\ crashed \subseteq Repairs

\* A repair is completed only when its own dispatch executed its approval, every
\* check of both stages is on record, and nothing of the execution is left
\* (finish_hosted_repair, reconcile_hosted_repair) - with dispatchers that die,
\* lose their lock, share approvals with others, and are reconciled meanwhile.
CompletedWasVerified ==
  \A r \in Repairs : row[r].status = "completed" =>
    LET a == row[r].approval
    IN Finished(a) /\ Complete(a) /\ attempt[a].by = r

Life == INSTANCE RepairLife WITH
  status <- [r \in Repairs |-> row[r].status],
  use <- [a \in Approvals |->
            IF Unused(a) THEN "unused" ELSE IF Finished(a) THEN "verified" ELSE "begun"],
  by <- [a \in Approvals |-> attempt[a].by]

\* Registered repairs implement RepairLife.
RepairSpec == Life!Spec

\* A row that remains executing with nobody at work on it is that of a dispatch
\* that was cut off: every other one settles its row, whatever is refused, raised
\* or stopped on the way (_dispatch_registered_repair_locked).
UnsettledWasCutOff ==
  \A r \in Repairs \ crashed :
    row[r].status = "executing" => \E w \in Workers : Dispatches(w, r)

\* So every dispatch comes to its end, under the fairness of FairSpec.
DispatchSettles ==
  \A r \in Repairs :
    row[r].status = "executing" ~> row[r].status # "executing" \/ r \in crashed

\* "Inspect an interrupted dispatch ..." (reconcile_registered_repair), which
\* "verifies real repair approval and journal" (tests/test_repair_sandbox.py:1680):
\* a repair whose attempt has ended verified and clean, under an approval that is
\* still good, is not left to remain executing.
VerifiedIsRecoverable ==
  \A w \in Workers : At(w, "judged") /\ worker[w].outcome = "pending" =>
    ~(Finished(MyApproval(w)) /\ MyApproval(w) \notin dead)
=============================================================================
