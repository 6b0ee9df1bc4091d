--------------------------- MODULE RepairAttempt ---------------------------
(***************************************************************************)
(* The execution of approved repairs: execute_approved_repair of           *)
(* factoryline/repair_sandbox.py, with its attempt directory, journal,     *)
(* worktree and checks.  An approval is used by whoever makes its attempt  *)
(* directory.  The journal is kept as the status and the checks it has on  *)
(* record as passed; that a later event repeats an earlier state is not    *)
(* told apart.  Revocation and expiry of an approval, and a stop request,  *)
(* come from others at any time; loss of the host's authority is one of    *)
(* the ways in which a step fails.                                         *)
(***************************************************************************)
EXTENDS FiniteSets

CONSTANTS
  Workers,      \* processes
  Approvals,    \* repair approvals, each with a patch of its own
  Repairs,      \* ids of registered repairs
  Positive,     \* checks that must fail before the patch and succeed after it
  Negative,     \* checks that must fail after it, too
  None          \* NULL

Checks == Positive \cup Negative
ASSUME CheckAssumption ==
  Positive # {} /\ Negative # {} /\ Positive \cap Negative = {}
ASSUME RepairNoneAssumption == None \notin Repairs \cup Approvals \cup Workers \cup Checks

VARIABLES
  attempt,   \* the attempt directories
  tree,      \* approvals whose worktree is there
  dead,      \* approvals that were revoked or have expired
  stop,      \* approvals with a stop.json
  halted,    \* history: approvals that died or were stopped before the last check
  worker     \* the workers

attemptVars == <<attempt, tree, dead, stop, halted>>

NoAttempt == [status |-> "none", checks |-> {}, cleaned |-> FALSE, by |-> None]
Idle == [pc |-> "idle", repair |-> None, approval |-> None, stage |-> "none",
         check |-> None, outcome |-> "none"]

At(w, pc) == worker[w].pc = pc
Becomes(w, new) == worker' = [worker EXCEPT ![w] = new]
Moves(w, pc) == Becomes(w, [worker[w] EXCEPT !.pc = pc])

\* The stages are left, with the outcome to be put on record.
Ends(w, outcome) ==
  Becomes(w, [worker[w] EXCEPT !.pc = "fail", !.stage = "none", !.check = None,
                               !.outcome = outcome])
MyApproval(w) == worker[w].approval
Mine(w) == attempt[MyApproval(w)]

-----------------------------------------------------------------------------
\* What the stages of an attempt put on record.
Selected(stage) == IF stage = "baseline" THEN Positive ELSE Checks
Recorded(a, stage) == {c \in Checks : <<stage, c>> \in attempt[a].checks}
Complete(a) == \A stage \in {"baseline", "repaired"} : Recorded(a, stage) = Selected(stage)

\* _approval_live
Live(a) == a \notin dead \cup stop

\* Mutation: a directory that is there is taken over.
AnyDirectory(a) == TRUE

\* The exclusive mkdir of _begin_attempt.
Unused(a) == attempt[a].status = "none"

BeginAttempt(w) ==
  /\ At(w, "begin")
  /\ IF Unused(MyApproval(w))
     THEN /\ attempt' = [attempt EXCEPT ![MyApproval(w)] =
                           [NoAttempt EXCEPT !.status = "made", !.by = worker[w].repair]]
          /\ Moves(w, "persist")
     ELSE Becomes(w, [worker[w] EXCEPT !.pc = "settle", !.outcome = "refused"])
             /\ UNCHANGED attempt
  /\ UNCHANGED <<tree, dead, stop, halted>>

StartAttempt(w) ==
  /\ At(w, "persist")
  /\ attempt' = [attempt EXCEPT ![MyApproval(w)].status = "RUNNING"]
  /\ Moves(w, "prepare")
  /\ UNCHANGED <<tree, dead, stop, halted>>

\* _prepare_repair_attempt
Prepare(w) ==
  /\ At(w, "prepare")
  /\ tree' = tree \cup {MyApproval(w)}
  /\ Becomes(w, [worker[w] EXCEPT !.pc = "stage", !.stage = "baseline"])
  /\ UNCHANGED <<attempt, dead, stop, halted>>

\* _run_stage: a check is started only while the approval is live ...
StartCheck(w) ==
  /\ At(w, "stage")
  /\ \E c \in Selected(worker[w].stage) \ Recorded(MyApproval(w), worker[w].stage) :
       IF Live(MyApproval(w))
       THEN Becomes(w, [worker[w] EXCEPT !.pc = "check", !.check = c])
       ELSE Ends(w, "STOPPED")
  /\ UNCHANGED attemptVars

\* Mutation: nobody looks again after the last check.
LiveBefore(w) == TRUE

LiveAfter(w) == Live(MyApproval(w))

\* ... its result is recorded, and the approval looked at again.
EndCheck(w) ==
  /\ At(w, "check")
  /\ \E passed \in BOOLEAN :
       /\ attempt' = IF passed
                     THEN [attempt EXCEPT ![MyApproval(w)].checks =
                             @ \cup {<<worker[w].stage, worker[w].check>>}]
                     ELSE attempt
       /\ IF ~LiveAfter(w) THEN Ends(w, "STOPPED")
          ELSE IF ~passed THEN Ends(w, "FAILED")
          ELSE Becomes(w, [worker[w] EXCEPT !.pc = "stage", !.check = None])
  /\ UNCHANGED <<tree, dead, stop, halted>>

StageDone(w) ==
  At(w, "stage") /\ Recorded(MyApproval(w), worker[w].stage) = Selected(worker[w].stage)

ApplyPatch(w) ==
  /\ StageDone(w) /\ worker[w].stage = "baseline"
  /\ IF Live(MyApproval(w))
     THEN Becomes(w, [worker[w] EXCEPT !.stage = "repaired"])
     ELSE Ends(w, "STOPPED")
  /\ UNCHANGED attemptVars

MarkVerified(w) ==
  /\ StageDone(w) /\ worker[w].stage = "repaired"
  /\ attempt' = [attempt EXCEPT ![MyApproval(w)].status = "VERIFIED"]
  /\ Becomes(w, [worker[w] EXCEPT !.pc = "finish", !.stage = "none"])
  /\ UNCHANGED <<tree, dead, stop, halted>>

\* An exception in the lifecycle: an error, or the authority is gone.
Raise(w) ==
  /\ worker[w].pc \in {"prepare", "stage", "check"}
  /\ \E outcome \in {"STOPPED", "FAILED"} : Ends(w, outcome)
  /\ UNCHANGED attemptVars

PersistFailure(w) ==
  /\ At(w, "fail")
  /\ attempt' = [attempt EXCEPT ![MyApproval(w)].status = worker[w].outcome]
  /\ Becomes(w, [worker[w] EXCEPT !.pc = "finish", !.outcome = "none"])
  /\ UNCHANGED <<tree, dead, stop, halted>>

\* Mutation: an attempt that was not cleaned up keeps its status.
Uncleaned(status) == status

\* What _finish_attempt makes of a status when the worktree, a container or the
\* primary checkout cannot be confirmed.
Downgraded(status) == "FAILED"

FinishAttempt(w) ==
  /\ At(w, "finish")
  /\ \E confirmed \in BOOLEAN, removed \in {TRUE} \cup {MyApproval(w) \notin tree} :
       LET status == IF confirmed THEN Mine(w).status ELSE Downgraded(Mine(w).status)
       IN /\ confirmed => removed
          /\ tree' = IF removed THEN tree \ {MyApproval(w)} ELSE tree
          /\ attempt' = [attempt EXCEPT ![MyApproval(w)].status = status,
                                        ![MyApproval(w)].cleaned = confirmed]
          /\ Becomes(w, [worker[w] EXCEPT !.pc = "settle", !.outcome = status])
  /\ UNCHANGED <<dead, stop, halted>>

-----------------------------------------------------------------------------
\* Others: revoke_repair_approval or the clock, and request_repair_stop, whose
\* file may land long after it saw the attempt running.
Halt(a) == halted' = IF Complete(a) THEN halted ELSE halted \cup {a}

Die(a) ==
  /\ a \notin dead /\ dead' = dead \cup {a}
  /\ Halt(a)
  /\ UNCHANGED <<attempt, tree, stop, worker>>

StopLands(a) ==
  /\ attempt[a].status \notin {"none", "made"}
  /\ a \notin stop /\ stop' = stop \cup {a}
  /\ Halt(a)
  /\ UNCHANGED <<attempt, tree, dead, worker>>

AttemptInit ==
  /\ attempt = [a \in Approvals |-> NoAttempt]
  /\ tree = {} /\ dead = {} /\ stop = {} /\ halted = {}
  /\ worker = [w \in Workers |-> Idle]

AttemptStep(w) ==
  \/ BeginAttempt(w) \/ StartAttempt(w) \/ Prepare(w) \/ StartCheck(w) \/ EndCheck(w)
  \/ ApplyPatch(w) \/ MarkVerified(w) \/ Raise(w) \/ PersistFailure(w) \/ FinishAttempt(w)

-----------------------------------------------------------------------------
(* Properties. *)

\* "active runners check the marker between bounded stages"
\* (revoke_repair_approval): an attempt whose approval was revoked, expired or
\* stopped before its last check was on record is never verified.
HaltedIsNotVerified == \A a \in halted : attempt[a].status # "VERIFIED"
=============================================================================
