---------------------------- MODULE MissionGraph ----------------------------
(***************************************************************************)
(* One thread of the durable mission graph of factoryline/mission_graph.py *)
(* : the row of graph_threads and the rows of graph_events that a mission  *)
(* has in its SQLite store.  Every call of apply_mission_event holds the   *)
(* write lock of the store from BEGIN IMMEDIATE to commit, so an accepted  *)
(* call is one step; a refused call rolls back and is no step at all.      *)
(*                                                                         *)
(* Receipt files are kept by content: a candidate, a validation failure, a *)
(* proof delta, a usage sample or a completion is the value the code reads *)
(* out of the file, and two receipts are the same value exactly when their *)
(* sha256 agree.  A role is declared by the caller and only the events of  *)
(* the owner tie it to an identity, so an actor stands for itself under    *)
(* any role.  fresh_context=true is an attestation a retry or a resume     *)
(* must carry; calls without it are refused and do not appear.             *)
(***************************************************************************)
EXTENDS Integers, Sequences, FiniteSets, FiniteSetsExt, SequencesExt

CONSTANTS
  Actors,         \* identities that submit events
  Owner,          \* the mission's owner, one of the actors
  Keys,           \* idempotency keys
  Criteria,       \* ids of the mission's completion criteria (milestones)
  Candidates,     \* candidate receipts (factory.mission.candidate.v1)
  Failures,       \* validation-failure receipts
  Advances,       \* the pairs <<prior, repair>> of candidates whose repair has
                  \* another diff and at least one new evidence reference
  Samples,        \* usage receipts (factory.mission.usage.v1)
  Dims,           \* metered dimensions: tokens, cost_usd, wall_seconds
  Budget,         \* the mission's maximum in each dimension
  MaxIterations,  \* the mission's max_iterations
  NoActor,        \* a NULL identity column
  NoCriterion,    \* a payload without criterion_id
  Plain           \* any receipt the event only has to bind, not to interpret

Usages == [class : {"measured", "modeled", "unknown"},
           known : SUBSET Dims,          \* dimensions that are not null
           total : [Dims -> Nat]]        \* 0 where null

ASSUME IdentityAssumption == /\ Owner \in Actors
                             /\ NoActor \notin Actors
                             /\ NoCriterion \notin Criteria
ASSUME BudgetAssumption == /\ MaxIterations \in Nat \ {0}
                           /\ Budget \in [Dims -> Nat]
                           /\ Samples \subseteq Usages
ASSUME EvidenceAssumption == /\ Advances \subseteq Candidates \X Candidates
                             /\ \A c \in Candidates : <<c, c>> \notin Advances

VARIABLES
  thread,      \* the graph_threads row
  events,      \* the graph_events rows, by version
  bytesIntact  \* do the mission file and every bound receipt file still
               \* have the bytes whose sha256 is stored?

vars == <<thread, events, bytesIntact>>

ActiveStates == {"planned", "deferred", "creator_running",
                 "independent_verification", "correction_required",
                 "paused_for_review", "completion_receipted",
                 "awaiting_release_authority", "release_decided"}
TerminalStates == {"rejected", "budget_exhausted", "outcome_observed"}
States == ActiveStates \cup TerminalStates

Deltas == [prior : Candidates, repair : Candidates,
           failure : Failures, criterion : Criteria]
Completions == [creatorId : Actors, verifierId : Actors,
                passed : SUBSET Criteria]
Receipts == Candidates \cup Failures \cup Deltas \cup Samples
              \cup Completions \cup {Plain}

ValidationEvents == {"validation_failed", "validation_passed"}
OwnerEvents == {"approve", "defer", "reject", "pause", "plan_revised",
                "resume", "retry", "release_requested", "release_decided",
                "outcome_recorded"}
EventNames == ValidationEvents \cup OwnerEvents
                \cup {"candidate_ready", "usage_recorded", "context_refreshed"}

-----------------------------------------------------------------------------
(* The state machine of _transition. *)

Rules ==
  { <<"planned", "approve", "creator_running">>,
    <<"planned", "defer", "deferred">>,
    <<"planned", "reject", "rejected">>,
    <<"deferred", "approve", "creator_running">>,
    <<"deferred", "reject", "rejected">>,
    <<"creator_running", "candidate_ready", "independent_verification">>,
    <<"creator_running", "pause", "paused_for_review">>,
    <<"independent_verification", "validation_failed", "correction_required">>,
    <<"independent_verification", "validation_passed", "completion_receipted">>,
    <<"independent_verification", "pause", "paused_for_review">>,
    <<"correction_required", "retry", "creator_running">>,
    <<"correction_required", "pause", "paused_for_review">>,
    <<"paused_for_review", "plan_revised", "paused_for_review">>,
    <<"paused_for_review", "resume", "creator_running">>,
    <<"paused_for_review", "reject", "rejected">>,
    <<"completion_receipted", "release_requested", "awaiting_release_authority">>,
    <<"awaiting_release_authority", "release_decided", "release_decided">>,
    <<"release_decided", "outcome_recorded", "outcome_observed">> }

\* Mutation: metering and context events are taken in any state.
LeadsWhenClosed(e, target) ==
  \/ <<thread.state, e, target>> \in Rules
  \/ /\ e \in {"usage_recorded", "context_refreshed"}
     /\ thread.state # "absent"
     /\ target = thread.state

\* The target the table gives event e in the thread's present state.
Leads(e, target) ==
  \/ <<thread.state, e, target>> \in Rules
  \/ /\ e \in {"usage_recorded", "context_refreshed"}
     /\ thread.state \in ActiveStates
     /\ target = thread.state

-----------------------------------------------------------------------------
(* Guards of apply_mission_event. *)

\* Mutation: the head is compared by its state alone.
HeadByState(row, log) ==
  row.state = IF log = <<>> THEN "planned" ELSE log[Len(log)].target

\* The row is the head of the chain of events log: version, state and tip.
HeadOfChain(row, log) ==
  /\ row.version = Len(log)
  /\ row.state = IF log = <<>> THEN "planned" ELSE log[Len(log)].target

\* Each event starts where the event before it ended.
Linked(log) ==
  \A i \in 1..Len(log) :
    log[i].source = IF i = 1 THEN "planned" ELSE log[i - 1].target

\* What _verify_chain recomputes from the events and compares with the row.
ChainVerifies(row, log) == bytesIntact /\ Linked(log) /\ HeadOfChain(row, log)

\* Mutation: only the newest event is looked at for a duplicate.
FreshAtHead(k) == events # <<>> => events[Len(events)].key # k

\* No stored event carries the key: neither the duplicate test nor the UNIQUE
\* constraint of graph_events stops the call.
FreshKey(k) == \A i \in 1..Len(events) : events[i].key # k

GuardActor(e, a) ==
  /\ e \in OwnerEvents => a = Owner
  /\ e \in ValidationEvents => a # thread.creator

\* The completion receipt is complete and names the graph's identities.
CompletionReceiptBinds(r, a) ==
  /\ r.verifierId = a
  /\ r.creatorId = thread.creator
  /\ r.creatorId # r.verifierId
  /\ r.passed = Criteria

\* Mutation: the search for the failure runs forwards.
FirstFailure(log) ==
  SelectInSeq(log, LAMBDA e : e.event = "validation_failed")

LastFailure(log) ==
  SelectLastInSeq(log, LAMBDA e : e.event = "validation_failed")

\* The candidate on record before the latest failure, _latest_correction_binding.
CandidateBefore(log, f) ==
  SelectLastInSubSeq(log, 1, f - 1, LAMBDA e : e.event = "candidate_ready")

\* The proof delta advances and binds the correction the thread is in.
ProofDeltaAdmits(delta) ==
  LET f == LastFailure(events)
      c == CandidateBefore(events, f)
  IN /\ <<delta.prior, delta.repair>> \in Advances
     /\ f # 0 /\ c # 0
     /\ delta.prior = events[c].receipt
     /\ delta.failure = events[f].receipt
     /\ delta.criterion = events[f].criterion

-----------------------------------------------------------------------------
(* Reductions of the row. *)

\* _reduce_usage: measured samples add up; an estimate only replaces a usage
\* whose class is still unknown.
Charged(usage, sample) ==
  IF sample.class = "measured"
  THEN [class |-> "measured",
        known |-> usage.known \cup sample.known,
        total |-> [d \in Dims |-> usage.total[d] + sample.total[d]]]
  ELSE IF usage.class = "unknown" THEN sample ELSE usage

\* Mutation: a budget is reached only when it is passed.
BudgetPassed(usage) ==
  \E d \in usage.known : usage.total[d] > Budget[d]

BudgetReached(usage) ==
  \E d \in usage.known : usage.total[d] >= Budget[d]

\* Mutation: an event that keeps the state keeps the version.
CommitInPlace(e, a, r, c, k, target, row) ==
  /\ thread.state # "absent"
  /\ ChainVerifies(thread, events)
  /\ FreshKey(k)
  /\ GuardActor(e, a)
  /\ thread' = [row EXCEPT !.state = target,
                           !.version = IF target = thread.state
                                       THEN thread.version
                                       ELSE thread.version + 1]
  /\ events' = Append(events,
                      [key |-> k, event |-> e, actor |-> a, receipt |-> r,
                       criterion |-> c, source |-> thread.state,
                       target |-> target])
  /\ UNCHANGED bytesIntact

\* Commit event e: append it to the chain and write the reduced row.
Commit(e, a, r, c, k, target, row) ==
  /\ thread.state # "absent"
  /\ ChainVerifies(thread, events)
  /\ FreshKey(k)
  /\ GuardActor(e, a)
  /\ thread' = [row EXCEPT !.state = target, !.version = thread.version + 1]
  /\ events' = Append(events,
                      [key |-> k, event |-> e, actor |-> a, receipt |-> r,
                       criterion |-> c, source |-> thread.state,
                       target |-> target])
  /\ UNCHANGED bytesIntact

\* An event that changes no column but the state.
Progress(e, a, k) ==
  \E target \in States :
    /\ Leads(e, target)
    /\ Commit(e, a, Plain, NoCriterion, k, target, thread)

-----------------------------------------------------------------------------
(* The operations. *)

NullUsage == [class |-> "unknown", known |-> {}, total |-> [d \in Dims |-> 0]]

InitMissionGraph ==
  /\ thread.state = "absent"
  /\ thread' = [thread EXCEPT !.state = "planned"]
  /\ UNCHANGED <<events, bytesIntact>>

Approve(a, k) ==
  /\ Leads("approve", "creator_running")
  /\ Commit("approve", a, Plain, NoCriterion, k, "creator_running",
            [thread EXCEPT !.attempts = IF @ = 0 THEN 1 ELSE @])

Defer(a, k) == Progress("defer", a, k)

Reject(a, k) == Progress("reject", a, k)

CandidateReady(a, k, candidate) ==
  /\ Leads("candidate_ready", "independent_verification")
  /\ Commit("candidate_ready", a, candidate, NoCriterion, k,
            "independent_verification",
            [thread EXCEPT !.creator = a, !.verifier = NoActor])

ValidationFailed(a, k, failure, c) ==
  /\ Leads("validation_failed", "correction_required")
  /\ Commit("validation_failed", a, failure, c, k, "correction_required",
            [thread EXCEPT !.verifier = a, !.milestones[c] = "failed"])

ValidationPassed(a, k, completion) ==
  /\ Leads("validation_passed", "completion_receipted")
  /\ CompletionReceiptBinds(completion, a)
  /\ Commit("validation_passed", a, completion, NoCriterion, k,
            "completion_receipted",
            [thread EXCEPT !.verifier = a,
                           !.milestones = [c \in Criteria |-> "passed"]])

\* Mutation: reopening a milestone clears its status.
ReopenedToNull(milestones) ==
  [c \in Criteria |-> IF milestones[c] = "failed" THEN "null"
                      ELSE milestones[c]]

\* A retry within max_iterations starts another attempt, one beyond it ends the
\* mission; either way the failed milestones are open again.
Reopened(milestones) ==
  [c \in Criteria |-> IF milestones[c] = "failed" THEN "pending"
                      ELSE milestones[c]]

\* Mutation: the attempts made are compared with the limit, not the next one.
RetryOffByOne(a, k, delta) ==
  /\ Leads("retry", "creator_running")
  /\ ProofDeltaAdmits(delta)
  /\ IF thread.attempts > MaxIterations
     THEN Commit("retry", a, delta, NoCriterion, k, "budget_exhausted",
                 [thread EXCEPT !.milestones = Reopened(@)])
     ELSE Commit("retry", a, delta, NoCriterion, k, "creator_running",
                 [thread EXCEPT !.attempts = @ + 1, !.creator = NoActor,
                                !.verifier = NoActor,
                                !.milestones = Reopened(@)])

Retry(a, k, delta) ==
  /\ Leads("retry", "creator_running")
  /\ ProofDeltaAdmits(delta)
  /\ IF thread.attempts + 1 > MaxIterations
     THEN Commit("retry", a, delta, NoCriterion, k, "budget_exhausted",
                 [thread EXCEPT !.milestones = Reopened(@)])
     ELSE Commit("retry", a, delta, NoCriterion, k, "creator_running",
                 [thread EXCEPT !.attempts = @ + 1, !.creator = NoActor,
                                !.verifier = NoActor,
                                !.milestones = Reopened(@)])

Pause(a, k) ==
  /\ Leads("pause", "paused_for_review")
  /\ Commit("pause", a, Plain, NoCriterion, k, "paused_for_review",
            [thread EXCEPT !.pausedFrom = thread.state])

PlanRevised(a, k) == Progress("plan_revised", a, k)

\* Mutation: a resumed mission continues in the state it was paused from.
ResumesWherePaused == thread.pausedFrom

\* The state a resumed mission continues in, whatever it was paused from.
ResumesIn == "creator_running"

Resume(a, k) ==
  /\ thread.state = "paused_for_review"
  /\ Commit("resume", a, Plain, NoCriterion, k, ResumesIn,
            [thread EXCEPT !.creator = NoActor, !.verifier = NoActor])

ReleaseRequested(a, k) == Progress("release_requested", a, k)

ReleaseDecided(a, k) == Progress("release_decided", a, k)

OutcomeRecorded(a, k) == Progress("outcome_recorded", a, k)

ContextRefreshed(a, k) == Progress("context_refreshed", a, k)

UsageRecorded(a, k, sample) ==
  LET usage == Charged(thread.usage, sample)
  IN /\ Leads("usage_recorded", thread.state)
     /\ Commit("usage_recorded", a, sample, NoCriterion, k,
               IF BudgetReached(usage) THEN "budget_exhausted"
                                       ELSE thread.state,
               [thread EXCEPT !.usage = usage])

\* A bound receipt or the mission file is edited, or put back as it was.
Drift ==
  /\ thread.state # "absent"
  /\ bytesIntact' = ~bytesIntact
  /\ UNCHANGED <<thread, events>>

-----------------------------------------------------------------------------
Init ==
  /\ thread = [state |-> "absent", version |-> 0, attempts |-> 0,
               creator |-> NoActor, verifier |-> NoActor,
               pausedFrom |-> "none", usage |-> NullUsage,
               milestones |-> [c \in Criteria |-> "pending"]]
  /\ events = <<>>
  /\ bytesIntact = TRUE

OwnerStep(a, k) ==
  \/ Approve(a, k)
  \/ Defer(a, k)
  \/ Reject(a, k)
  \/ \E delta \in Deltas : Retry(a, k, delta)
  \/ Pause(a, k)
  \/ PlanRevised(a, k)
  \/ Resume(a, k)
  \/ ReleaseRequested(a, k)
  \/ ReleaseDecided(a, k)
  \/ OutcomeRecorded(a, k)

WorkStep(a, k) ==
  \/ \E c \in Candidates : CandidateReady(a, k, c)
  \/ \E f \in Failures, c \in Criteria : ValidationFailed(a, k, f, c)
  \/ \E r \in Completions : ValidationPassed(a, k, r)
  \/ \E s \in Samples : UsageRecorded(a, k, s)
  \/ ContextRefreshed(a, k)

Next ==
  \/ InitMissionGraph
  \/ \E a \in Actors, k \in Keys : OwnerStep(a, k) \/ WorkStep(a, k)
  \/ Drift

Spec == Init /\ [][Next]_vars

-----------------------------------------------------------------------------
(* Type invariant. *)

EventRecords ==
  [key : Keys, event : EventNames, actor : Actors, receipt : Receipts,
   criterion : Criteria \cup {NoCriterion}, source : States, target : States]

Rows ==
  [state : States \cup {"absent"}, version : Nat, attempts : Nat,
   creator : Actors \cup {NoActor}, verifier : Actors \cup {NoActor},
   pausedFrom : States \cup {"none"}, usage : Usages,
   milestones : [Criteria -> {"pending", "failed", "passed"}]]

\* Every column of graph_threads and every field of an event has its type.
TypeOK ==
  /\ thread \in Rows
  /\ events \in Seq(EventRecords)
  /\ bytesIntact \in BOOLEAN

-----------------------------------------------------------------------------
(* Safety. *)

\* _verify_chain runs before every event: if what apply_mission_event commits
\* ever failed it, an untampered mission would refuse every later event.
\* Whatever was committed verifies as long as the files keep their bytes.
CommittedThreadReopens ==
  thread.state # "absent" /\ bytesIntact => ChainVerifies(thread, events)

\* No thread goes on working with a budget it has reached (_reduce_usage): in
\* every active state, the paused and the completed ones included, the recorded
\* usage is below the mission's maximum in each dimension that is known.
BudgetFence ==
  thread.state \in ActiveStates =>
    \A d \in thread.usage.known : thread.usage.total[d] < Budget[d]

\* attempts counts exactly the approval and the retries that restarted the
\* creator, over any history of pauses and plan revisions, and never passes
\* max_iterations.
AttemptsMatchHistory ==
  /\ thread.attempts = Cardinality({i \in 1..Len(events) :
       /\ events[i].event \in {"approve", "retry"}
       /\ events[i].target = "creator_running"})
  /\ thread.attempts <= MaxIterations

\* The creator's run a verdict judges ended in a candidate by somebody else:
\* no validation event of the log is about an earlier run's candidate, a run
\* that was interrupted, or the validator's own work (_guard_actor with the
\* creator_id that candidate_ready, retry and resume maintain).
CreatorEvents == {"candidate_ready", "pause", "resume", "retry"}
IndependentVerdict(log, i) ==
  \E j \in 1..(i - 1) :
    /\ log[j].event = "candidate_ready"
    /\ log[j].actor # log[i].actor
    /\ \A m \in (j + 1)..(i - 1) :
         log[m].event \notin CreatorEvents \cup ValidationEvents
VerdictsAreIndependent ==
  \A i \in 1..Len(events) :
    events[i].event \in ValidationEvents => IndependentVerdict(events, i)

\* A retry answers the failure the mission is stopped at: the delta names the
\* failure recorded last before it and the candidate that failure judged, never
\* those of an earlier correction.
RetryAnswers(log, i, f, c) ==
  /\ c < f /\ f < i
  /\ log[f].event = "validation_failed" /\ log[c].event = "candidate_ready"
  /\ \A m \in (c + 1)..(i - 1) :
       log[m].event \in {"validation_failed", "candidate_ready"} => m = f
  /\ log[i].receipt.prior = log[c].receipt
  /\ log[i].receipt.failure = log[f].receipt
  /\ log[i].receipt.criterion = log[f].criterion
RetriesAnswerTheLatestFailure ==
  \A i \in 1..Len(events) :
    events[i].event = "retry" =>
      \E c, f \in 1..Len(events) : RetryAnswers(events, i, f, c)

\* A resubmitted usage event is charged once: measured totals are the sum over
\* idempotency keys, not over deliveries.  (Of missions that never recorded an
\* estimate: see MeasuredTotalsAreMeasured.)
Metered == {i \in 1..Len(events) : events[i].event = "usage_recorded"}
MeteredKeys == {events[i].key : i \in Metered}
Sampled(k) ==
  (CHOOSE i \in Metered : events[i].key = k)
ChargedPerKey(d) ==
  SumFunction([k \in MeteredKeys |-> events[Sampled(k)].receipt.total[d]])
UsageIsChargedOncePerKey ==
  (\A i \in Metered : events[i].receipt.class = "measured")
    => \A d \in Dims : thread.usage.total[d] = ChargedPerKey(d)

-----------------------------------------------------------------------------
(* What the store promises to those who submit events. *)

Delivered == [i \in 1..Len(events) |-> events[i].key]
Journal == INSTANCE EventJournal
             WITH Deliveries <- Keys, journal <- Delivered,
                  closed <- thread.state \in TerminalStates

\* The thread is a journal that accepts each idempotency key once and that a
\* rejection, an exhausted budget or an observed outcome closes for good.
JournalSpec == Journal!Spec

-----------------------------------------------------------------------------
(* Claims of the documentation that the code does not meet. *)

\* "reject retries above the mission max_iterations": a mission has at most
\* max_iterations failed attempts.
FailedAttemptsAreBounded ==
  Cardinality({i \in 1..Len(events) : events[i].event = "validation_failed"})
    <= MaxIterations

\* Totals classed "measured" hold measured samples only.
MeasuredTotalsAreMeasured ==
  thread.usage.class = "measured" =>
    \A d \in Dims :
      thread.usage.total[d] =
        MapThenSumSet(LAMBDA i : events[i].receipt.total[d],
                      {i \in Metered : events[i].receipt.class = "measured"})

\* The attempt that follows a retry does not hand in the failed candidate again.
RetryChangesTheCandidate ==
  \A i, j \in 1..Len(events) :
    /\ events[i].event = "retry" /\ events[j].event = "candidate_ready"
    /\ i < j
    /\ \A m \in (i + 1)..(j - 1) : events[m].event # "candidate_ready"
    => events[j].receipt # events[i].receipt.prior
=============================================================================
