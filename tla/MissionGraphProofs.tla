------------------------- MODULE MissionGraphProofs -------------------------
(***************************************************************************)
(* Theorems about MissionGraph and its reader, MissionVerify, for every    *)
(* set of actors, keys, criteria, candidates, failures and samples, every  *)
(* budget and every max_iterations.                                        *)
(***************************************************************************)
EXTENDS MissionClients, SequenceTheorems, FiniteSetTheorems, SumTheorems, TLAPS

-----------------------------------------------------------------------------
(* Type correctness. *)

\* A commit with well-typed arguments keeps the types.
LEMMA CommitType ==
  ASSUME TypeOK,
         NEW e \in EventNames, NEW a \in Actors, NEW r \in Receipts,
         NEW c \in Criteria \cup {NoCriterion}, NEW k \in Keys,
         NEW target \in States, NEW row \in Rows,
         Commit(e, a, r, c, k, target, row)
  PROVE  TypeOK'
<1>1. thread.state \in States
  BY DEF Commit, TypeOK, Rows
<1>2. thread' \in Rows
  <2>1. thread' = [row EXCEPT !.state = target, !.version = thread.version + 1]
    BY DEF Commit
  <2>2. thread.version + 1 \in Nat
    BY DEF TypeOK, Rows
  <2>. QED
    BY <2>1, <2>2 DEF Rows
<1>3. [key |-> k, event |-> e, actor |-> a, receipt |-> r, criterion |-> c,
       source |-> thread.state, target |-> target] \in EventRecords
  BY <1>1 DEF EventRecords
<1>4. events' \in Seq(EventRecords)
  BY <1>3, AppendProperties DEF Commit, TypeOK
<1>. QED
  BY <1>2, <1>4 DEF Commit, TypeOK

\* Charging a sample to a usage yields a usage.
LEMMA ChargedType ==
  ASSUME NEW usage \in Usages, NEW sample \in Usages
  PROVE  Charged(usage, sample) \in Usages
BY DEF Charged, Usages

-----------------------------------------------------------------------------
(* One account of every event.  Each operation commits one event; what the *)
(* invariants below need to know of it is collected in Shaped.             *)

Shaped(e, a, r, target, row) ==
  /\ thread.state \in ActiveStates
  /\ \/ row.usage = thread.usage
     \/ target = "budget_exhausted"
     \/ ~BudgetReached(row.usage)
  /\ e \in ValidationEvents => thread.state = "independent_verification"
  /\ target = "independent_verification" =>
       \/ e = "candidate_ready" /\ row.creator = a
       \/ /\ thread.state = "independent_verification"
          /\ e \notin CreatorEvents \cup ValidationEvents
          /\ row.creator = thread.creator
  /\ e = "approve" => /\ thread.state \in {"planned", "deferred"}
                      /\ target = "creator_running"
  /\ target \in {"planned", "deferred"} =>
       thread.state \in {"planned", "deferred"}
  /\ row.attempts = IF e = "approve" /\ thread.attempts = 0 THEN 1
                    ELSE IF e = "retry" /\ target = "creator_running"
                    THEN thread.attempts + 1 ELSE thread.attempts
  /\ e = "retry" /\ target = "creator_running" =>
       thread.attempts + 1 <= MaxIterations
  /\ e = "retry" => thread.state = "correction_required" /\ ProofDeltaAdmits(r)
  /\ target = "correction_required" =>
       \/ e = "validation_failed"
       \/ /\ thread.state = "correction_required"
          /\ e \notin {"candidate_ready", "validation_failed"}
  /\ IF e = "usage_recorded"
     THEN r \in Samples /\ row.usage = Charged(thread.usage, r)
     ELSE row.usage = thread.usage

Committed(a, k) ==
  \E e \in EventNames, r \in Receipts, c \in Criteria \cup {NoCriterion},
     target \in States, row \in Rows :
    Commit(e, a, r, c, k, target, row) /\ Shaped(e, a, r, target, row)

\* An event that only moves the thread along the table.
LEMMA ProgressCommits ==
  ASSUME TypeOK, NEW a \in Actors, NEW k \in Keys,
         NEW e \in {"defer", "reject", "plan_revised", "release_requested",
                    "release_decided", "outcome_recorded", "context_refreshed"},
         Progress(e, a, k)
  PROVE  Committed(a, k)
<1>1. PICK target \in States :
        Leads(e, target) /\ Commit(e, a, Plain, NoCriterion, k, target, thread)
  BY DEF Progress
<1>2. /\ e \in EventNames /\ Plain \in Receipts /\ thread \in Rows
      /\ NoCriterion \in Criteria \cup {NoCriterion}
  BY DEF EventNames, OwnerEvents, Receipts, TypeOK
<1>3. Shaped(e, a, Plain, target, thread)
  <2>1. CASE e = "context_refreshed" /\ thread.state \in ActiveStates
                                     /\ target = thread.state
    BY <2>1 DEF Shaped, ValidationEvents, CreatorEvents
  <2>2. CASE <<thread.state, e, target>> \in Rules
    BY <2>2 DEF Shaped, Rules, ValidationEvents, CreatorEvents, ActiveStates
  <2>. QED
    BY <1>1, <2>1, <2>2 DEF Leads
<1>. QED
  BY <1>1, <1>2, <1>3 DEF Committed

\* Every operation on the store commits one well-shaped event.
LEMMA StepCommits ==
  ASSUME TypeOK, NEW a \in Actors, NEW k \in Keys,
         OwnerStep(a, k) \/ WorkStep(a, k)
  PROVE  Committed(a, k)
<1>0. /\ thread \in Rows /\ Plain \in Receipts
      /\ {"approve", "retry", "pause", "resume", "candidate_ready",
          "validation_failed", "validation_passed", "usage_recorded"}
            \subseteq EventNames
      /\ Candidates \cup Failures \cup Deltas \cup Samples \cup Completions
            \subseteq Receipts
  BY DEF TypeOK, EventNames, OwnerEvents, ValidationEvents, Receipts
<1>1. CASE Approve(a, k)
  <2> DEFINE row == [thread EXCEPT !.attempts = IF @ = 0 THEN 1 ELSE @]
  <2>1. Commit("approve", a, Plain, NoCriterion, k, "creator_running", row)
    BY <1>1 DEF Approve
  <2>2. row \in Rows
    BY <1>0 DEF Rows
  <2>3. thread.state \in {"planned", "deferred"}
    BY <1>1 DEF Approve, Leads, Rules
  <2>4. Shaped("approve", a, Plain, "creator_running", row)
    BY <1>0, <2>3 DEF Shaped, Rows, ActiveStates, ValidationEvents
  <2>5. "creator_running" \in States
    BY DEF States, ActiveStates
  <2>. HIDE DEF row
  <2>. QED
    BY <1>0, <2>1, <2>2, <2>4, <2>5 DEF Committed
<1>2. CASE Defer(a, k) \/ Reject(a, k) \/ PlanRevised(a, k)
             \/ ReleaseRequested(a, k) \/ ReleaseDecided(a, k)
             \/ OutcomeRecorded(a, k) \/ ContextRefreshed(a, k)
  BY <1>2, ProgressCommits
     DEF Defer, Reject, PlanRevised, ReleaseRequested, ReleaseDecided,
         OutcomeRecorded, ContextRefreshed
<1>3. ASSUME NEW delta \in Deltas, Retry(a, k, delta)
      PROVE  Committed(a, k)
  <2>1. thread.state = "correction_required" /\ ProofDeltaAdmits(delta)
    BY <1>3 DEF Retry, Leads, Rules
  <2>2. Reopened(thread.milestones) \in [Criteria -> {"pending", "failed", "passed"}]
    BY <1>0 DEF Reopened, Rows
  <2>3. CASE thread.attempts + 1 > MaxIterations
    <3> DEFINE row == [thread EXCEPT !.milestones = Reopened(@)]
    <3>1. Commit("retry", a, delta, NoCriterion, k, "budget_exhausted", row)
      BY <1>3, <2>3 DEF Retry
    <3>2. row \in Rows
      BY <1>0, <2>2 DEF Rows
    <3>3. Shaped("retry", a, delta, "budget_exhausted", row)
      BY <1>0, <2>1 DEF Shaped, Rows, ActiveStates, ValidationEvents
    <3>4. "budget_exhausted" \in States
      BY DEF States, TerminalStates
    <3>. HIDE DEF row
    <3>. QED
      BY <1>0, <3>1, <3>2, <3>3, <3>4 DEF Committed
  <2>4. CASE ~(thread.attempts + 1 > MaxIterations)
    <3> DEFINE row == [thread EXCEPT !.attempts = @ + 1, !.creator = NoActor,
                                     !.verifier = NoActor,
                                     !.milestones = Reopened(@)]
    <3>1. Commit("retry", a, delta, NoCriterion, k, "creator_running", row)
      BY <1>3, <2>4 DEF Retry
    <3>2. row \in Rows
      <4> DEFINE n == thread.attempts + 1
                 m == Reopened(thread.milestones)
      <4>1. n \in Nat /\ m \in [Criteria -> {"pending", "failed", "passed"}]
        BY <1>0, <2>2 DEF Rows
      <4>2. row = [[thread EXCEPT !.attempts = n, !.milestones = m]
                     EXCEPT !.creator = NoActor, !.verifier = NoActor]
        BY <1>0 DEF Rows
      <4>. HIDE DEF n, m, row
      <4>3. [thread EXCEPT !.attempts = n, !.milestones = m] \in Rows
        BY <1>0, <4>1 DEF Rows
      <4>. QED
        BY <4>2, <4>3 DEF Rows
    <3>3. thread.attempts + 1 <= MaxIterations
      BY <1>0, <2>4, BudgetAssumption DEF Rows
    <3>4. Shaped("retry", a, delta, "creator_running", row)
      BY <1>0, <2>1, <3>3 DEF Shaped, Rows, ActiveStates, ValidationEvents
    <3>5. "creator_running" \in States
      BY DEF States, ActiveStates
    <3>. HIDE DEF row
    <3>. QED
      BY <1>0, <3>1, <3>2, <3>4, <3>5 DEF Committed
  <2>. QED
    BY <2>3, <2>4
<1>4. CASE Pause(a, k)
  <2> DEFINE row == [thread EXCEPT !.pausedFrom = thread.state]
  <2>1. Commit("pause", a, Plain, NoCriterion, k, "paused_for_review", row)
    BY <1>4 DEF Pause
  <2>2. thread.state \in ActiveStates /\ thread.state \in States
    BY <1>4 DEF Pause, Leads, Rules, States, ActiveStates
  <2>3. row \in Rows
    BY <1>0, <2>2 DEF Rows
  <2>4. Shaped("pause", a, Plain, "paused_for_review", row)
    BY <1>0, <2>2 DEF Shaped, Rows, ValidationEvents
  <2>5. "paused_for_review" \in States
    BY DEF States, ActiveStates
  <2>. HIDE DEF row
  <2>. QED
    BY <1>0, <2>1, <2>3, <2>4, <2>5 DEF Committed
<1>5. CASE Resume(a, k)
  <2> DEFINE row == [thread EXCEPT !.creator = NoActor, !.verifier = NoActor]
  <2>1. Commit("resume", a, Plain, NoCriterion, k, "creator_running", row)
    BY <1>5 DEF Resume, ResumesIn
  <2>2. row \in Rows
    BY <1>0 DEF Rows
  <2>3. Shaped("resume", a, Plain, "creator_running", row)
    BY <1>0, <1>5 DEF Resume, Shaped, Rows, ActiveStates, ValidationEvents
  <2>4. "creator_running" \in States
    BY DEF States, ActiveStates
  <2>. HIDE DEF row
  <2>. QED
    BY <1>0, <2>1, <2>2, <2>3, <2>4 DEF Committed
<1>6. ASSUME NEW candidate \in Candidates, CandidateReady(a, k, candidate)
      PROVE  Committed(a, k)
  <2> DEFINE row == [thread EXCEPT !.creator = a, !.verifier = NoActor]
  <2>1. Commit("candidate_ready", a, candidate, NoCriterion, k,
               "independent_verification", row)
    BY <1>6 DEF CandidateReady
  <2>2. row \in Rows
    BY <1>0 DEF Rows
  <2>3. Shaped("candidate_ready", a, candidate, "independent_verification", row)
    BY <1>0, <1>6 DEF CandidateReady, Leads, Rules, Shaped, Rows, ActiveStates,
                      ValidationEvents
  <2>4. "independent_verification" \in States
    BY DEF States, ActiveStates
  <2>. HIDE DEF row
  <2>. QED
    BY <1>0, <2>1, <2>2, <2>3, <2>4 DEF Committed
<1>7. ASSUME NEW failure \in Failures, NEW c \in Criteria,
             ValidationFailed(a, k, failure, c)
      PROVE  Committed(a, k)
  <2> DEFINE row == [thread EXCEPT !.verifier = a, !.milestones[c] = "failed"]
  <2>1. Commit("validation_failed", a, failure, c, k, "correction_required", row)
    BY <1>7 DEF ValidationFailed
  <2>2. row \in Rows
    BY <1>0 DEF Rows
  <2>3. Shaped("validation_failed", a, failure, "correction_required", row)
    BY <1>0, <1>7 DEF ValidationFailed, Leads, Rules, Shaped, Rows, ActiveStates
  <2>4. "correction_required" \in States
    BY DEF States, ActiveStates
  <2>. HIDE DEF row
  <2>. QED
    BY <1>0, <2>1, <2>2, <2>3, <2>4 DEF Committed
<1>8. ASSUME NEW completion \in Completions, ValidationPassed(a, k, completion)
      PROVE  Committed(a, k)
  <2> DEFINE row == [thread EXCEPT !.verifier = a,
                                   !.milestones = [c \in Criteria |-> "passed"]]
  <2>1. Commit("validation_passed", a, completion, NoCriterion, k,
               "completion_receipted", row)
    BY <1>8 DEF ValidationPassed
  <2>2. row \in Rows
    BY <1>0 DEF Rows
  <2>3. Shaped("validation_passed", a, completion, "completion_receipted", row)
    BY <1>0, <1>8 DEF ValidationPassed, Leads, Rules, Shaped, Rows, ActiveStates
  <2>4. "completion_receipted" \in States
    BY DEF States, ActiveStates
  <2>. HIDE DEF row
  <2>. QED
    BY <1>0, <2>1, <2>2, <2>3, <2>4 DEF Committed
<1>9. ASSUME NEW sample \in Samples, UsageRecorded(a, k, sample)
      PROVE  Committed(a, k)
  <2> DEFINE usage == Charged(thread.usage, sample)
             row == [thread EXCEPT !.usage = usage]
             target == IF BudgetReached(usage) THEN "budget_exhausted"
                                               ELSE thread.state
  <2>1. Commit("usage_recorded", a, sample, NoCriterion, k, target, row)
    BY <1>9 DEF UsageRecorded
  <2>2. usage \in Usages
    BY <1>0, ChargedType, BudgetAssumption DEF Rows
  <2>3. row \in Rows
    BY <1>0, <2>2 DEF Rows
  <2>4. thread.state \in ActiveStates
    BY <1>9 DEF UsageRecorded, Leads, Rules
  <2>5. target \in States
    BY <2>4 DEF States, TerminalStates
  <2>6. Shaped("usage_recorded", a, sample, target, row)
    <3>1. usage = Charged(thread.usage, sample)
      OBVIOUS
    <3>. HIDE DEF usage
    <3>. QED
      BY <1>0, <2>4, <3>1 DEF Shaped, Rows, ValidationEvents, CreatorEvents
  <2>. HIDE DEF row, target
  <2>. QED
    BY <1>0, <2>1, <2>3, <2>5, <2>6 DEF Committed
<1>. QED
  BY <1>1, <1>2, <1>3, <1>4, <1>5, <1>6, <1>7, <1>8, <1>9 DEF OwnerStep, WorkStep

\* An accepted event is appended to the log and nothing before it changes.
LEMMA CommitLog ==
  ASSUME TypeOK, NEW e, NEW a, NEW r, NEW c, NEW k, NEW target, NEW row,
         Commit(e, a, r, c, k, target, row)
  PROVE  /\ Len(events) \in Nat
         /\ Len(events') = Len(events) + 1
         /\ \A i \in 1..Len(events) : events'[i] = events[i]
         /\ events'[Len(events) + 1] =
              [key |-> k, event |-> e, actor |-> a, receipt |-> r,
               criterion |-> c, source |-> thread.state, target |-> target]
BY AppendProperties DEF Commit, TypeOK

-----------------------------------------------------------------------------
(* The invariants. *)

\* Every stored event continues the one before it and the row is their head.
ChainInv ==
  /\ thread.state = "absent" => events = <<>> /\ thread.version = 0
  /\ thread.state # "absent" => Linked(events) /\ HeadOfChain(thread, events)

\* A known usage is below budget in every active state; nothing is known of a
\* mission that is not stored yet.
FenceInv ==
  /\ BudgetFence
  /\ thread.state = "absent" => thread.usage.known = {}

\* While a candidate waits for its verdict, creator_id is the actor of the
\* latest event of the creator, which is the candidate's.
CandidateWaits ==
  \E j \in 1..Len(events) :
    /\ events[j].event = "candidate_ready"
    /\ events[j].actor = thread.creator
    /\ \A m \in (j + 1)..Len(events) :
         events[m].event \notin CreatorEvents \cup ValidationEvents

VerdictInv ==
  /\ VerdictsAreIndependent
  /\ thread.state = "independent_verification" => CandidateWaits

Restart(e) ==
  e.event \in {"approve", "retry"} /\ e.target = "creator_running"
Restarts(log) == {i \in 1..Len(log) : Restart(log[i])}

\* Before the approval no attempt was made, so the approval always makes one.
AttemptInv ==
  /\ thread.attempts = Cardinality(Restarts(events))
  /\ thread.attempts <= MaxIterations
  /\ thread.state \in {"absent", "planned", "deferred"} => thread.attempts = 0

\* Before position i, f is the latest failure and c the candidate it judged.
Corrects(log, i, f, c) ==
  /\ c < f /\ f < i
  /\ log[f].event = "validation_failed" /\ log[c].event = "candidate_ready"
  /\ \A m \in (c + 1)..(i - 1) :
       log[m].event \in {"validation_failed", "candidate_ready"} => m = f

\* While a correction is required, there is one failure to correct.
CorrectionWaits ==
  \E c, f \in 1..Len(events) : Corrects(events, Len(events) + 1, f, c)

CorrectionInv ==
  /\ RetriesAnswerTheLatestFailure
  /\ thread.state = "correction_required" => CorrectionWaits

\* Every key is on record once, so the sample of a key is that of one event.
KeysDiffer ==
  \A i, j \in 1..Len(events) : events[i].key = events[j].key => i = j

ChargeInv ==
  /\ KeysDiffer
  /\ \A i \in Metered : events[i].receipt \in Samples
  /\ UsageIsChargedOncePerKey

IInv ==
  /\ TypeOK /\ ChainInv /\ FenceInv /\ VerdictInv
  /\ AttemptInv /\ CorrectionInv /\ ChargeInv

-----------------------------------------------------------------------------
(* Each invariant is kept by one well-shaped commit. *)

LEMMA CommitChain ==
  ASSUME TypeOK, ChainInv, NEW e, NEW a, NEW r, NEW c, NEW k,
         NEW target \in States, NEW row \in Rows,
         Commit(e, a, r, c, k, target, row)
  PROVE  ChainInv'
<1> DEFINE n == Len(events)
<1>1. /\ n \in Nat /\ Len(events') = n + 1
      /\ \A i \in 1..n : events'[i] = events[i]
      /\ events'[n + 1].source = thread.state /\ events'[n + 1].target = target
  <2>1. events'[n + 1] =
          [key |-> k, event |-> e, actor |-> a, receipt |-> r,
           criterion |-> c, source |-> thread.state, target |-> target]
    BY CommitLog
  <2>2. /\ n \in Nat /\ Len(events') = n + 1
        /\ \A i \in 1..n : events'[i] = events[i]
    BY CommitLog
  <2>. QED
    BY <2>1, <2>2
<1>2. /\ thread.state # "absent"
      /\ thread'.state = target /\ thread'.version = thread.version + 1
  BY DEF Commit, Rows
<1>3. target # "absent"
  BY DEF States, ActiveStates, TerminalStates
<1>4. Linked(events) /\ HeadOfChain(thread, events)
  BY <1>2 DEF ChainInv
<1>5. events' # <<>>
  BY <1>1
<1>6. HeadOfChain(thread', events')
  BY <1>1, <1>2, <1>4, <1>5 DEF HeadOfChain
<1>7. Linked(events')
  <2>. SUFFICES ASSUME NEW i \in 1..(n + 1)
                PROVE  events'[i].source =
                         IF i = 1 THEN "planned" ELSE events'[i - 1].target
    BY <1>1 DEF Linked
  <2>1. CASE i \in 1..n
    <3>1. i # 1 => i - 1 \in 1..n
      BY <1>1, <2>1
    <3>. QED
      BY <1>1, <1>4, <2>1, <3>1 DEF Linked
  <2>2. CASE i = n + 1
    <3>1. CASE n = 0
      <4>1. events = <<>>
        BY <3>1, EmptySeq DEF TypeOK
      <4>. QED
        BY <1>1, <1>4, <2>2, <3>1, <4>1 DEF HeadOfChain
    <3>2. CASE n # 0
      <4>1. n \in 1..n /\ events # <<>> /\ i # 1 /\ i - 1 = n
        BY <1>1, <2>2, <3>2
      <4>. QED
        BY <1>1, <1>4, <2>2, <4>1 DEF HeadOfChain
    <3>. QED
      BY <3>1, <3>2
  <2>. QED
    BY <1>1, <2>1, <2>2
<1>. QED
  BY <1>2, <1>3, <1>6, <1>7 DEF ChainInv

\* A usage that did not reach the budget is below it where it is known.
LEMMA BelowBudget ==
  ASSUME NEW usage \in Usages
  PROVE  ~BudgetReached(usage)
           <=> \A d \in usage.known : usage.total[d] < Budget[d]
<1>1. \A d \in usage.known : usage.total[d] \in Nat /\ Budget[d] \in Nat
  BY BudgetAssumption DEF Usages
<1>. QED
  BY <1>1 DEF BudgetReached

LEMMA CommitFence ==
  ASSUME TypeOK, FenceInv, NEW e, NEW a, NEW r, NEW c, NEW k,
         NEW target \in States, NEW row \in Rows,
         Commit(e, a, r, c, k, target, row), Shaped(e, a, r, target, row)
  PROVE  FenceInv'
<1>1. thread'.state = target /\ thread'.usage = row.usage
  BY DEF Commit, Rows
<1>2. target # "absent"
  BY DEF States, ActiveStates, TerminalStates
<1>3. ~BudgetReached(thread.usage)
  BY BelowBudget DEF FenceInv, BudgetFence, Shaped, TypeOK, Rows
<1>4. target \in ActiveStates => ~BudgetReached(thread'.usage)
  BY <1>1, <1>3 DEF Shaped, ActiveStates
<1>5. thread'.usage \in Usages
  BY <1>1 DEF Rows
<1>. QED
  BY <1>1, <1>2, <1>4, <1>5, BelowBudget DEF FenceInv, BudgetFence

LEMMA CommitVerdict ==
  ASSUME TypeOK, VerdictInv, NEW e, NEW a, NEW r, NEW c, NEW k,
         NEW target \in States, NEW row \in Rows,
         Commit(e, a, r, c, k, target, row), Shaped(e, a, r, target, row)
  PROVE  VerdictInv'
<1> DEFINE n == Len(events)
<1>1. /\ n \in Nat /\ Len(events') = n + 1
      /\ \A i \in 1..n : events'[i] = events[i]
      /\ events'[n + 1].event = e /\ events'[n + 1].actor = a
  <2>1. events'[n + 1] =
          [key |-> k, event |-> e, actor |-> a, receipt |-> r,
           criterion |-> c, source |-> thread.state, target |-> target]
    BY CommitLog
  <2>2. /\ n \in Nat /\ Len(events') = n + 1
        /\ \A i \in 1..n : events'[i] = events[i]
    BY CommitLog
  <2>. QED
    BY <2>1, <2>2
<1>2. thread'.state = target /\ thread'.creator = row.creator
  BY DEF Commit, Rows
<1>. HIDE DEF n
<1>3. ASSUME NEW i \in 1..(n + 1), events'[i].event \in ValidationEvents
      PROVE  IndependentVerdict(events', i)
  <2>1. CASE i \in 1..n
    <3>1. IndependentVerdict(events, i)
      BY <1>1, <1>3, <2>1 DEF VerdictInv, VerdictsAreIndependent, n
    <3>2. PICK j \in 1..(i - 1) :
            /\ events[j].event = "candidate_ready"
            /\ events[j].actor # events[i].actor
            /\ \A m \in (j + 1)..(i - 1) :
                 events[m].event \notin CreatorEvents \cup ValidationEvents
      BY <3>1 DEF IndependentVerdict
    <3>3. /\ \A m \in 1..(i - 1) : events'[m] = events[m]
          /\ events'[i] = events[i]
      BY <1>1, <2>1
    <3>4. \A m \in (j + 1)..(i - 1) :
            events'[m].event \notin CreatorEvents \cup ValidationEvents
      BY <3>2, <3>3
    <3>. QED
      BY <3>2, <3>3, <3>4 DEF IndependentVerdict
  <2>2. CASE i = n + 1
    <3>1. e \in ValidationEvents /\ CandidateWaits
      BY <1>1, <1>3, <2>2 DEF VerdictInv, Shaped
    <3>2. PICK j \in 1..n :
            /\ events[j].event = "candidate_ready"
            /\ events[j].actor = thread.creator
            /\ \A m \in (j + 1)..n :
                 events[m].event \notin CreatorEvents \cup ValidationEvents
      BY <3>1 DEF CandidateWaits, n
    <3>3. a # thread.creator
      BY <3>1 DEF Commit, GuardActor
    <3>4. i - 1 = n
      BY <1>1, <2>2
    <3>5. \A m \in (j + 1)..(i - 1) :
            events'[m].event \notin CreatorEvents \cup ValidationEvents
      BY <1>1, <3>2, <3>4
    <3>. QED
      BY <1>1, <2>2, <3>2, <3>3, <3>4, <3>5 DEF IndependentVerdict
  <2>. QED
    BY <1>1, <2>1, <2>2
<1>4. ASSUME target = "independent_verification"
      PROVE  CandidateWaits'
  <2>1. CASE e = "candidate_ready" /\ row.creator = a
    <3>1. \A m \in (n + 2)..(n + 1) :
            events'[m].event \notin CreatorEvents \cup ValidationEvents
      BY <1>1
    <3>2. n + 1 \in 1..Len(events') /\ (n + 1) + 1 = n + 2
      BY <1>1
    <3>. QED
      BY <1>1, <1>2, <2>1, <3>1, <3>2 DEF CandidateWaits
  <2>2. CASE /\ thread.state = "independent_verification"
             /\ e \notin CreatorEvents \cup ValidationEvents
             /\ row.creator = thread.creator
    <3>1. PICK j \in 1..n :
            /\ events[j].event = "candidate_ready"
            /\ events[j].actor = thread.creator
            /\ \A m \in (j + 1)..n :
                 events[m].event \notin CreatorEvents \cup ValidationEvents
      BY <2>2 DEF CandidateWaits, VerdictInv, n
    <3>2. \A m \in (j + 1)..(n + 1) :
            events'[m].event \notin CreatorEvents \cup ValidationEvents
      BY <1>1, <2>2, <3>1
    <3>. QED
      BY <1>1, <1>2, <2>2, <3>1, <3>2 DEF CandidateWaits
  <2>. QED
    BY <1>4, <2>1, <2>2 DEF Shaped
<1>. QED
  BY <1>1, <1>2, <1>3, <1>4 DEF VerdictInv, VerdictsAreIndependent

LEMMA CommitAttempt ==
  ASSUME TypeOK, AttemptInv, NEW e, NEW a, NEW r, NEW c, NEW k,
         NEW target \in States, NEW row \in Rows,
         Commit(e, a, r, c, k, target, row), Shaped(e, a, r, target, row)
  PROVE  AttemptInv'
<1> DEFINE n == Len(events)
           new == [key |-> k, event |-> e, actor |-> a, receipt |-> r,
                   criterion |-> c, source |-> thread.state, target |-> target]
<1>1. /\ n \in Nat /\ Len(events') = n + 1
      /\ \A i \in 1..n : events'[i] = events[i]
  BY CommitLog
<1>2. events'[n + 1] = new
  BY CommitLog
<1>3. /\ thread'.state = target /\ thread'.attempts = row.attempts
      /\ thread.attempts \in Nat
  BY DEF Commit, Rows, TypeOK
<1>4. target # "absent"
  BY DEF States, ActiveStates, TerminalStates
<1>5. Restart(new) <=> e \in {"approve", "retry"} /\ target = "creator_running"
  BY DEF Restart
<1>. HIDE DEF n, new
<1>6. IsFiniteSet(Restarts(events)) /\ n + 1 \notin Restarts(events)
  <2>1. Restarts(events) \subseteq 1..n
    BY DEF Restarts, n
  <2>. QED
    BY <1>1, <2>1, FS_Interval, FS_Subset
<1>7. CASE Restart(new)
  <2>1. Restarts(events') = Restarts(events) \cup {n + 1}
    BY <1>1, <1>2, <1>7 DEF Restarts, Restart, n
  <2>2. Cardinality(Restarts(events')) = thread.attempts + 1
    BY <1>6, <2>1, FS_AddElement DEF AttemptInv
  <2>3. row.attempts = thread.attempts + 1 /\ row.attempts <= MaxIterations
    <3>1. CASE e = "approve"
      BY <3>1, BudgetAssumption DEF Shaped, AttemptInv
    <3>2. CASE e = "retry"
      BY <1>5, <1>7, <3>2 DEF Shaped
    <3>. QED
      BY <1>5, <1>7, <3>1, <3>2
  <2>. QED
    BY <1>3, <1>5, <1>7, <2>2, <2>3 DEF AttemptInv
<1>8. CASE ~Restart(new)
  <2>1. Restarts(events') = Restarts(events)
    BY <1>1, <1>2, <1>8 DEF Restarts, Restart, n
  <2>2. row.attempts = thread.attempts
    BY <1>5, <1>8 DEF Shaped
  <2>. QED
    BY <1>3, <1>4, <2>1, <2>2 DEF AttemptInv, Shaped
<1>. QED
  BY <1>7, <1>8

\* What _latest_correction_binding finds in the log is the failure that waits for
\* its correction, and its candidate.
LEMMA LatestFound ==
  ASSUME TypeOK, NEW c \in 1..Len(events), NEW f \in 1..Len(events),
         Corrects(events, Len(events) + 1, f, c)
  PROVE  LastFailure(events) = f /\ CandidateBefore(events, f) = c
<1> DEFINE n == Len(events)
           failures == {i \in 1..n : events[i].event = "validation_failed"}
           candidates == {i \in 1..(f - 1) : events[i].event = "candidate_ready"}
<1>1. n \in Nat /\ c \in 1..n /\ f \in 1..n /\ c < f
  BY DEF TypeOK, Corrects
<1>2. \A m \in (c + 1)..n :
        events[m].event \in {"validation_failed", "candidate_ready"} => m = f
  BY <1>1 DEF Corrects
<1>3. f \in failures /\ \A i \in failures : f >= i
  BY <1>1, <1>2 DEF Corrects
<1>4. c \in candidates /\ \A i \in candidates : c >= i
  BY <1>1, <1>2 DEF Corrects
<1>5. failures \subseteq Int /\ candidates \subseteq Int
  BY <1>1
<1>6. LastFailure(events) = IF failures # {} THEN Max(failures) ELSE 0
  BY DEF LastFailure, SelectLastInSeq
<1>7. CandidateBefore(events, f) = IF candidates # {} THEN Max(candidates) ELSE 0
  BY DEF CandidateBefore, SelectLastInSubSeq
<1>. HIDE DEF failures, candidates, n
<1>8. Max(failures) = f
  <2>1. ASSUME NEW x \in failures, \A y \in failures : x >= y
        PROVE  x = f
    BY <1>3, <1>5, <2>1
  <2>. QED
    BY <1>3, <2>1 DEF Max
<1>9. Max(candidates) = c
  <2>1. ASSUME NEW x \in candidates, \A y \in candidates : x >= y
        PROVE  x = c
    BY <1>4, <1>5, <2>1
  <2>. QED
    BY <1>4, <2>1 DEF Max
<1>. QED
  BY <1>3, <1>4, <1>6, <1>7, <1>8, <1>9

LEMMA CommitCorrection ==
  ASSUME TypeOK, VerdictInv, CorrectionInv,
         NEW e, NEW a, NEW r, NEW c, NEW k,
         NEW target \in States, NEW row \in Rows,
         Commit(e, a, r, c, k, target, row), Shaped(e, a, r, target, row)
  PROVE  CorrectionInv'
<1> DEFINE n == Len(events)
<1>1. /\ n \in Nat /\ Len(events') = n + 1
      /\ \A i \in 1..n : events'[i] = events[i]
      /\ events'[n + 1].event = e /\ events'[n + 1].receipt = r
  <2>1. events'[n + 1] =
          [key |-> k, event |-> e, actor |-> a, receipt |-> r,
           criterion |-> c, source |-> thread.state, target |-> target]
    BY CommitLog
  <2>2. /\ n \in Nat /\ Len(events') = n + 1
        /\ \A i \in 1..n : events'[i] = events[i]
    BY CommitLog
  <2>. QED
    BY <2>1, <2>2
<1>2. thread'.state = target
  BY DEF Commit, Rows
<1>. HIDE DEF n
<1>3. ASSUME NEW i \in 1..(n + 1), events'[i].event = "retry"
      PROVE  \E j, f \in 1..(n + 1) : RetryAnswers(events', i, f, j)
  <2>1. CASE i \in 1..n
    <3>1. PICK j \in 1..n, f \in 1..n : RetryAnswers(events, i, f, j)
      BY <1>1, <1>3, <2>1 DEF CorrectionInv, RetriesAnswerTheLatestFailure, n
    <3>2. /\ j \in 1..(i - 1) /\ f \in 1..(i - 1) /\ j \in 1..(n + 1) /\ f \in 1..(n + 1)
          /\ \A m \in 1..i : events'[m] = events[m]
          /\ \A m \in (j + 1)..(i - 1) : m \in 1..i
      BY <1>1, <2>1, <3>1 DEF RetryAnswers
    <3>3. RetryAnswers(events', i, f, j)
      BY <1>1, <2>1, <3>1, <3>2 DEF RetryAnswers
    <3>. QED
      BY <3>2, <3>3
  <2>2. CASE i = n + 1
    <3>1. thread.state = "correction_required" /\ ProofDeltaAdmits(r)
      BY <1>1, <1>3, <2>2 DEF Shaped
    <3>2. PICK j \in 1..n, f \in 1..n : Corrects(events, n + 1, f, j)
      BY <3>1 DEF CorrectionInv, CorrectionWaits, n
    <3>3. LastFailure(events) = f /\ CandidateBefore(events, f) = j
      BY <3>2, LatestFound DEF n
    <3>4. /\ r.prior = events[j].receipt
          /\ r.failure = events[f].receipt
          /\ r.criterion = events[f].criterion
      BY <3>1, <3>3 DEF ProofDeltaAdmits
    <3>5. /\ j \in 1..(n + 1) /\ f \in 1..(n + 1)
          /\ events'[j] = events[j] /\ events'[f] = events[f]
          /\ \A m \in (j + 1)..(i - 1) : events'[m] = events[m]
      BY <1>1, <2>2, <3>2
    <3>6. RetryAnswers(events', i, f, j)
      BY <1>1, <2>2, <3>2, <3>4, <3>5 DEF RetryAnswers, Corrects
    <3>. QED
      BY <3>5, <3>6
  <2>. QED
    BY <1>1, <2>1, <2>2
<1>4. ASSUME target = "correction_required"
      PROVE  CorrectionWaits'
  <2>1. CASE e = "validation_failed"
    <3>1. PICK j \in 1..n :
            /\ events[j].event = "candidate_ready"
            /\ \A m \in (j + 1)..n :
                 events[m].event \notin CreatorEvents \cup ValidationEvents
      BY <2>1 DEF Shaped, ValidationEvents, VerdictInv, CandidateWaits, n
    <3>2. ASSUME NEW m \in (j + 1)..(n + 1),
                 events'[m].event \in {"validation_failed", "candidate_ready"}
          PROVE  m = n + 1
      BY <1>1, <3>1, <3>2 DEF CreatorEvents, ValidationEvents
    <3>3. /\ j < n + 1 /\ n + 1 < (n + 1) + 1 /\ ((n + 1) + 1) - 1 = n + 1
          /\ j \in 1..(n + 1) /\ n + 1 \in 1..(n + 1)
      BY <1>1
    <3>4. Corrects(events', (n + 1) + 1, n + 1, j)
      BY <1>1, <2>1, <3>1, <3>2, <3>3 DEF Corrects
    <3>. QED
      BY <1>1, <3>3, <3>4 DEF CorrectionWaits
  <2>2. CASE /\ thread.state = "correction_required"
             /\ e \notin {"candidate_ready", "validation_failed"}
    <3>1. PICK j \in 1..n, f \in 1..n : Corrects(events, n + 1, f, j)
      BY <2>2 DEF CorrectionInv, CorrectionWaits, n
    <3>2. \A m \in (j + 1)..n :
            events[m].event \in {"validation_failed", "candidate_ready"} => m = f
      BY <1>1, <3>1 DEF Corrects
    <3>3. ASSUME NEW m \in (j + 1)..(n + 1),
                 events'[m].event \in {"validation_failed", "candidate_ready"}
          PROVE  m = f
      BY <1>1, <2>2, <3>2, <3>3
    <3>4. /\ f < (n + 1) + 1 /\ ((n + 1) + 1) - 1 = n + 1
          /\ j \in 1..(n + 1) /\ f \in 1..(n + 1)
      BY <1>1
    <3>5. Corrects(events', (n + 1) + 1, f, j)
      BY <1>1, <3>1, <3>3, <3>4 DEF Corrects
    <3>. QED
      BY <1>1, <3>4, <3>5 DEF CorrectionWaits
  <2>. QED
    BY <1>4, <2>1, <2>2 DEF Shaped
<1>. QED
  BY <1>1, <1>2, <1>3, <1>4 DEF CorrectionInv, RetriesAnswerTheLatestFailure

\* The event an idempotency key is looked up by is the only one that has it.
LEMMA OnlySample ==
  ASSUME NEW log, NEW M, NEW x, NEW i \in M, log[i].key = x,
         \A j \in M : log[j].key = x => j = i
  PROVE  (CHOOSE j \in M : log[j].key = x) = i
OBVIOUS

LEMMA KeyIsSampled ==
  ASSUME events \in Seq(EventRecords), KeysDiffer, NEW i \in Metered
  PROVE  Sampled(events[i].key) = i
<1> DEFINE x == events[i].key
<1>1. \A j \in Metered : events[j].key = x => j = i
  BY DEF KeysDiffer, Metered
<1>. HIDE DEF x
<1>2. events[i].key = x
  BY DEF x
<1>3. (CHOOSE j \in Metered : events[j].key = x) = i
  BY <1>1, <1>2, OnlySample
<1>. QED
  BY <1>3 DEF Sampled, x

\* The samples on record, by key.
SamplesOnRecord ==
  /\ Metered \subseteq 1..Len(events) /\ IsFiniteSet(Metered)
  /\ IsFiniteSet(MeteredKeys)
  /\ \A k \in MeteredKeys :
       /\ Sampled(k) \in Metered
       /\ events[Sampled(k)].key = k

LEMMA RecordIsFinite ==
  ASSUME TypeOK, KeysDiffer
  PROVE  SamplesOnRecord
<1>1. Len(events) \in Nat
  BY DEF TypeOK
<1>2. Metered \subseteq 1..Len(events) /\ IsFiniteSet(Metered)
  <2>1. Metered \subseteq 1..Len(events)
    BY DEF Metered
  <2>2. IsFiniteSet(1..Len(events))
    BY <1>1, FS_Interval
  <2>. QED
    BY <2>1, <2>2, FS_Subset
<1>3. IsFiniteSet(MeteredKeys)
  <2> DEFINE key == [i \in Metered |-> events[i].key]
  <2>1. key \in Surjection(Metered, MeteredKeys)
    BY DEF Surjection, MeteredKeys
  <2>. QED
    BY <1>2, <2>1, FS_Surjection
<1>4. ASSUME NEW k \in MeteredKeys
      PROVE  Sampled(k) \in Metered /\ events[Sampled(k)].key = k
  <2>1. PICK i \in Metered : events[i].key = k
    BY DEF MeteredKeys
  <2>2. Sampled(k) = i
    BY <2>1, KeyIsSampled DEF TypeOK
  <2>. QED
    BY <2>1, <2>2
<1>. QED
  BY <1>2, <1>3, <1>4 DEF SamplesOnRecord

\* An event that is not a sample leaves the samples on record as they are.
LEMMA CommitOther ==
  ASSUME TypeOK, TypeOK', ChargeInv, KeysDiffer', NEW n \in Nat, n = Len(events),
         Len(events') = n + 1, \A i \in 1..n : events'[i] = events[i],
         events'[n + 1].event # "usage_recorded",
         thread'.usage = thread.usage
  PROVE  UsageIsChargedOncePerKey'
<1>1. Metered' = Metered
  BY DEF Metered
<1>2. \A i \in Metered : i \in 1..n /\ events'[i] = events[i]
  BY DEF Metered
<1>3. MeteredKeys' = MeteredKeys
  BY <1>1, <1>2 DEF MeteredKeys
<1>4. ASSUME NEW k \in MeteredKeys
      PROVE  Sampled(k) \in Metered /\ Sampled(k)' = Sampled(k)
  <2>1. SamplesOnRecord
    BY RecordIsFinite DEF ChargeInv
  <2>2. PICK i \in Metered : i = Sampled(k) /\ events[i].key = k
    BY <2>1 DEF SamplesOnRecord
  <2>3. \A j \in Metered : events'[j].key = k => j = i
    BY <1>2, <2>2 DEF ChargeInv, KeysDiffer
  <2>4. events'[i].key = k
    BY <1>2, <2>2
  <2>5. (CHOOSE j \in Metered : events'[j].key = k) = i
    BY <2>3, <2>4, OnlySample
  <2>. QED
    BY <1>1, <2>2, <2>5 DEF Sampled
<1>5. ASSUME NEW d \in Dims
      PROVE  ChargedPerKey(d)' = ChargedPerKey(d)
  <2>1. \A k \in MeteredKeys : events'[Sampled(k)'] = events[Sampled(k)]
    BY <1>2, <1>4
  <2>. QED
    BY <1>3, <2>1 DEF ChargedPerKey
<1>6. ASSUME \A i \in Metered : events'[i].receipt.class = "measured",
             NEW d \in Dims
      PROVE  thread'.usage.total[d] = ChargedPerKey(d)'
  <2>1. \A i \in Metered : events[i].receipt.class = "measured"
    BY <1>2, <1>6
  <2>. QED
    BY <1>5, <2>1 DEF ChargeInv, UsageIsChargedOncePerKey
<1>. QED
  BY <1>1, <1>6 DEF UsageIsChargedOncePerKey

\* One key more in the record adds the total of its sample to the charge.
LEMMA OneKeyMore ==
  ASSUME IsFiniteSet(MeteredKeys), NEW k, k \notin MeteredKeys,
         MeteredKeys' = MeteredKeys \cup {k},
         NEW d, NEW r, r.total[d] \in Int, events'[Sampled(k)'].receipt = r,
         \A x \in MeteredKeys : events[Sampled(x)].receipt.total[d] \in Int,
         \A x \in MeteredKeys : events'[Sampled(x)'] = events[Sampled(x)]
  PROVE  ChargedPerKey(d)' = ChargedPerKey(d) + r.total[d]
<1> DEFINE R == MeteredKeys \cup {k}
           f == [x \in MeteredKeys |-> events[Sampled(x)].receipt.total[d]]
           g == [x \in R |-> events'[Sampled(x)'].receipt.total[d]]
<1>1. g \in [R -> Int] /\ g[k] = r.total[d]
  OBVIOUS
<1>2. f = [x \in R \ {k} |-> g[x]]
  <2>1. R \ {k} = MeteredKeys
    OBVIOUS
  <2>. QED
    BY <2>1
<1>3. ChargedPerKey(d) = SumFunction(f) /\ ChargedPerKey(d)' = SumFunction(g)
  BY DEF ChargedPerKey
<1>4. IsFiniteSet(R) /\ k \in R
  BY FS_AddElement
<1>. HIDE DEF f, g, R
<1>5. SumFunction(g) = SumFunction([x \in R \ {k} |-> g[x]]) + g[k]
  BY <1>1, <1>4, SumWithout
<1>. QED
  BY <1>1, <1>2, <1>3, <1>5

\* A recorded sample adds its total under a key that had none.
LEMMA CommitSample ==
  ASSUME TypeOK, TypeOK', ChargeInv, KeysDiffer', NEW n \in Nat, n = Len(events),
         Len(events') = n + 1, \A i \in 1..n : events'[i] = events[i],
         NEW r \in Samples, NEW k, FreshKey(k),
         events'[n + 1].event = "usage_recorded",
         events'[n + 1].receipt = r, events'[n + 1].key = k,
         thread'.usage = Charged(thread.usage, r)
  PROVE  UsageIsChargedOncePerKey'
<1>1. Metered' = Metered \cup {n + 1} /\ n + 1 \notin Metered
  BY DEF Metered
<1>2. \A i \in Metered : i \in 1..n /\ events'[i] = events[i]
  BY DEF Metered
<1>3. MeteredKeys' = MeteredKeys \cup {k} /\ k \notin MeteredKeys
  BY <1>1, <1>2 DEF MeteredKeys, FreshKey
<1>4. SamplesOnRecord
  BY RecordIsFinite DEF ChargeInv
<1>5. ASSUME NEW x \in MeteredKeys
      PROVE  Sampled(x) \in Metered /\ Sampled(x)' = Sampled(x)
  <2>1. PICK i \in Metered : i = Sampled(x) /\ events[i].key = x
    BY <1>4 DEF SamplesOnRecord
  <2>2. \A j \in Metered' : events'[j].key = x => j = i
    BY <1>1, <1>2, <1>3, <2>1 DEF ChargeInv, KeysDiffer
  <2>3. events'[i].key = x /\ i \in Metered'
    BY <1>1, <1>2, <2>1
  <2>4. (CHOOSE j \in Metered' : events'[j].key = x) = i
    BY <2>2, <2>3, OnlySample
  <2>. QED
    BY <2>1, <2>4 DEF Sampled
<1>6. Sampled(k)' = n + 1
  <2>1. \A j \in Metered' : events'[j].key = k => j = n + 1
    BY <1>1, <1>2, <1>3 DEF FreshKey
  <2>2. n + 1 \in Metered'
    BY <1>1
  <2>3. (CHOOSE j \in Metered' : events'[j].key = k) = n + 1
    BY <2>1, <2>2, OnlySample
  <2>. QED
    BY <2>3 DEF Sampled
<1>7. ASSUME NEW d \in Dims
      PROVE  ChargedPerKey(d)' = ChargedPerKey(d) + r.total[d]
  <2>1. ASSUME NEW x \in MeteredKeys
        PROVE  events[Sampled(x)].receipt.total[d] \in Int
    <3>1. events[Sampled(x)].receipt \in Usages
      BY <1>5, BudgetAssumption DEF ChargeInv
    <3>. QED
      BY <3>1 DEF Usages
  <2>2. r.total[d] \in Int
    BY BudgetAssumption DEF Usages
  <2>3. \A x \in MeteredKeys : events'[Sampled(x)'] = events[Sampled(x)]
    BY <1>2, <1>5
  <2>4. events'[Sampled(k)'].receipt = r
    BY <1>6
  <2>5. IsFiniteSet(MeteredKeys)
    BY <1>4 DEF SamplesOnRecord
  <2>. QED
    BY <1>3, <2>1, <2>2, <2>3, <2>4, <2>5, OneKeyMore
<1>8. ASSUME \A i \in Metered' : events'[i].receipt.class = "measured",
             NEW d \in Dims
      PROVE  thread'.usage.total[d] = ChargedPerKey(d)'
  <2>1. \A i \in Metered : events[i].receipt.class = "measured"
    BY <1>1, <1>2, <1>8
  <2>2. r.class = "measured"
    BY <1>1, <1>8
  <2>3. thread'.usage.total[d] = thread.usage.total[d] + r.total[d]
    BY <2>2 DEF Charged
  <2>. QED
    BY <1>7, <2>1, <2>3 DEF ChargeInv, UsageIsChargedOncePerKey
<1>. QED
  BY <1>8 DEF UsageIsChargedOncePerKey

LEMMA CommitCharge ==
  ASSUME TypeOK, TypeOK', ChargeInv, NEW e, NEW a, NEW r, NEW c, NEW k,
         NEW target \in States, NEW row \in Rows,
         Commit(e, a, r, c, k, target, row), Shaped(e, a, r, target, row)
  PROVE  ChargeInv'
<1> DEFINE n == Len(events)
<1>1. /\ n \in Nat /\ Len(events') = n + 1
      /\ \A i \in 1..n : events'[i] = events[i]
  BY CommitLog
<1>2. /\ events'[n + 1].event = e /\ events'[n + 1].receipt = r
      /\ events'[n + 1].key = k
  <2>1. events'[n + 1] =
          [key |-> k, event |-> e, actor |-> a, receipt |-> r,
           criterion |-> c, source |-> thread.state, target |-> target]
    BY CommitLog
  <2>. QED
    BY <2>1
<1>3. FreshKey(k) /\ thread'.usage = row.usage
  BY DEF Commit, Rows
<1>4. KeysDiffer'
  <2>1. \A i \in 1..n : events'[i].key # k
    BY <1>1, <1>3 DEF FreshKey
  <2>2. \A i \in 1..(n + 1) : i \in 1..n \/ i = n + 1
    BY <1>1
  <2>. QED
    BY <1>1, <1>2, <2>1, <2>2 DEF ChargeInv, KeysDiffer
<1>5. \A i \in Metered' : events'[i].receipt \in Samples
  <2>. SUFFICES ASSUME NEW i \in Metered' PROVE events'[i].receipt \in Samples
    OBVIOUS
  <2>1. CASE i \in 1..n
    BY <1>1, <2>1 DEF ChargeInv, Metered
  <2>2. CASE i = n + 1
    BY <1>2, <2>2 DEF Metered, Shaped
  <2>. QED
    BY <1>1, <2>1, <2>2 DEF Metered
<1>6. UsageIsChargedOncePerKey'
  <2>1. CASE e = "usage_recorded"
    <3>1. r \in Samples /\ row.usage = Charged(thread.usage, r)
      BY <2>1 DEF Shaped
    <3>. QED
      BY <1>1, <1>2, <1>3, <1>4, <2>1, <3>1, CommitSample
  <2>2. CASE e # "usage_recorded"
    <3>1. row.usage = thread.usage
      BY <2>2 DEF Shaped
    <3>. QED
      BY <1>1, <1>2, <1>3, <1>4, <2>2, <3>1, CommitOther
  <2>. QED
    BY <2>1, <2>2
<1>. QED
  BY <1>4, <1>5, <1>6 DEF ChargeInv

-----------------------------------------------------------------------------
(* The three facts about IInv. *)

LEMMA ChargesKept ==
  ASSUME ChargeInv, events' = events, thread'.usage = thread.usage
  PROVE  ChargeInv'
<1>1. Metered' = Metered
  BY DEF Metered
<1>2. MeteredKeys' = MeteredKeys
  BY <1>1 DEF MeteredKeys
<1>3. \A k : Sampled(k)' = Sampled(k)
  BY <1>1 DEF Sampled
<1>4. \A d : ChargedPerKey(d)' = ChargedPerKey(d)
  BY <1>2, <1>3 DEF ChargedPerKey
<1>. QED
  BY <1>1, <1>4 DEF ChargeInv, KeysDiffer, UsageIsChargedOncePerKey

LEMMA InitInv == Init => IInv
<1>. SUFFICES ASSUME Init PROVE IInv
  OBVIOUS
<1>1. /\ thread.state = "absent" /\ thread.version = 0 /\ thread.attempts = 0
      /\ thread.usage = NullUsage /\ events = <<>> /\ bytesIntact = TRUE
  BY DEF Init
<1>2. TypeOK
  <2>1. NullUsage \in Usages
    BY DEF NullUsage, Usages
  <2>2. thread \in Rows
    BY <2>1 DEF Init, Rows
  <2>. QED
    BY <1>1, <2>2 DEF TypeOK
<1>3. ChainInv
  BY <1>1 DEF ChainInv
<1>4. FenceInv
  BY <1>1 DEF FenceInv, BudgetFence, ActiveStates, NullUsage
<1>5. VerdictInv
  BY <1>1 DEF VerdictInv, VerdictsAreIndependent
<1>6. AttemptInv
  <2>1. Restarts(events) = {}
    BY <1>1 DEF Restarts
  <2>2. Cardinality(Restarts(events)) = 0
    BY <2>1, FS_EmptySet
  <2>3. 0 <= MaxIterations
    BY BudgetAssumption
  <2>. QED
    BY <1>1, <2>2, <2>3 DEF AttemptInv
<1>7. CorrectionInv
  BY <1>1 DEF CorrectionInv, RetriesAnswerTheLatestFailure
<1>8. ChargeInv
  <2>1. Metered = {} /\ MeteredKeys = {}
    BY <1>1 DEF Metered, MeteredKeys
  <2>2. ASSUME NEW d \in Dims
        PROVE  thread.usage.total[d] = ChargedPerKey(d)
    <3>1. ChargedPerKey(d) = 0
      BY <2>1, SumOfNothing DEF ChargedPerKey
    <3>. QED
      BY <1>1, <3>1 DEF NullUsage
  <2>. QED
    BY <1>1, <2>1, <2>2 DEF ChargeInv, KeysDiffer, UsageIsChargedOncePerKey
<1>. QED
  BY <1>2, <1>3, <1>4, <1>5, <1>6, <1>7, <1>8 DEF IInv

LEMMA NextInv == IInv /\ [Next]_vars => IInv'
<1>. SUFFICES ASSUME IInv, [Next]_vars PROVE IInv'
  OBVIOUS
<1>. USE DEF IInv
<1>1. CASE InitMissionGraph
  <2>1. /\ thread.state = "absent" /\ events' = events
        /\ bytesIntact' = bytesIntact
        /\ thread' = [thread EXCEPT !.state = "planned"]
    BY <1>1 DEF InitMissionGraph
  <2>2. /\ thread'.state = "planned" /\ thread'.version = thread.version
        /\ thread'.attempts = thread.attempts /\ thread'.usage = thread.usage
        /\ thread'.creator = thread.creator
    BY <2>1 DEF TypeOK, Rows
  <2>3. TypeOK'
    <3>1. "planned" \in States
      BY DEF States, ActiveStates
    <3>2. thread' \in Rows
      BY <2>1, <3>1 DEF TypeOK, Rows
    <3>. QED
      BY <2>1, <3>2 DEF TypeOK
  <2>4. ChainInv'
    BY <2>1, <2>2 DEF ChainInv, Linked, HeadOfChain
  <2>5. FenceInv'
    BY <2>1, <2>2 DEF FenceInv, BudgetFence
  <2>6. VerdictInv'
    BY <2>1, <2>2 DEF VerdictInv, VerdictsAreIndependent
  <2>7. AttemptInv'
    BY <2>1, <2>2 DEF AttemptInv
  <2>8. CorrectionInv'
    BY <2>1, <2>2 DEF CorrectionInv, RetriesAnswerTheLatestFailure
  <2>9. ChargeInv'
    BY <2>1, <2>2, ChargesKept
  <2>. QED
    BY <2>3, <2>4, <2>5, <2>6, <2>7, <2>8, <2>9
<1>2. ASSUME NEW a \in Actors, NEW k \in Keys, OwnerStep(a, k) \/ WorkStep(a, k)
      PROVE  IInv'
  <2>1. PICK e \in EventNames, r \in Receipts, c \in Criteria \cup {NoCriterion},
             target \in States, row \in Rows :
          Commit(e, a, r, c, k, target, row) /\ Shaped(e, a, r, target, row)
    BY <1>2, StepCommits DEF Committed
  <2>2. TypeOK'
    BY <2>1, CommitType
  <2>3. ChainInv'
    BY <2>1, CommitChain
  <2>4. FenceInv'
    BY <2>1, CommitFence
  <2>5. VerdictInv'
    BY <2>1, CommitVerdict
  <2>6. AttemptInv'
    BY <2>1, CommitAttempt
  <2>7. CorrectionInv'
    BY <2>1, CommitCorrection
  <2>8. ChargeInv'
    BY <2>1, <2>2, CommitCharge
  <2>. QED
    BY <2>2, <2>3, <2>4, <2>5, <2>6, <2>7, <2>8
<1>3. CASE Drift \/ UNCHANGED vars
  <2>1. thread' = thread /\ events' = events /\ bytesIntact' \in BOOLEAN
    BY <1>3 DEF Drift, vars, TypeOK
  <2>2. ChargeInv'
    BY <2>1, ChargesKept
  <2>. QED
    BY <2>1, <2>2 DEF TypeOK, ChainInv, FenceInv, BudgetFence,
                VerdictInv, VerdictsAreIndependent, CandidateWaits, AttemptInv,
                CorrectionInv, RetriesAnswerTheLatestFailure, CorrectionWaits
<1>. QED
  BY <1>1, <1>2, <1>3 DEF Next

LEMMA Invariant == Spec => []IInv
BY InitInv, NextInv, PTL DEF Spec

-----------------------------------------------------------------------------
(* The theorems. *)

\* The stored row and events of a mission are always well typed.
THEOREM TypeCorrect == Spec => []TypeOK
<1>1. IInv => TypeOK
  BY DEF IInv
<1>. QED
  BY <1>1, Invariant, PTL

\* Whatever apply_mission_event committed verifies when it is opened again.
THEOREM Reopens == Spec => []CommittedThreadReopens
<1>1. IInv => CommittedThreadReopens
  BY DEF IInv, ChainInv, CommittedThreadReopens, ChainVerifies
<1>. QED
  BY <1>1, Invariant, PTL

\* No active mission has reached a budget, for any budgets and samples.
THEOREM Fenced == Spec => []BudgetFence
<1>1. IInv => BudgetFence
  BY DEF IInv, FenceInv
<1>. QED
  BY <1>1, Invariant, PTL

\* Every verdict on record is by somebody who did not make the candidate.
THEOREM Independence == Spec => []VerdictsAreIndependent
<1>1. IInv => VerdictsAreIndependent
  BY DEF IInv, VerdictInv
<1>. QED
  BY <1>1, Invariant, PTL

\* A retry was justified by the failure recorded last and the candidate it judged
\* (_latest_correction_binding), however often the mission was paused in between.
THEOREM RetriesAnswer == Spec => []RetriesAnswerTheLatestFailure
<1>1. IInv => RetriesAnswerTheLatestFailure
  BY DEF IInv, CorrectionInv
<1>. QED
  BY <1>1, Invariant, PTL

\* The attempt counter is the number of restarts on record, within the limit.
THEOREM Attempts == Spec => []AttemptsMatchHistory
<1>1. IInv => AttemptsMatchHistory
  BY DEF IInv, AttemptInv, AttemptsMatchHistory, Restarts, Restart
<1>. QED
  BY <1>1, Invariant, PTL

\* The measured totals of a mission are the sum of one sample per idempotency key,
\* whatever was delivered again and whatever the samples are (_reduce_usage).
THEOREM ChargedOnce == Spec => []UsageIsChargedOncePerKey
<1>1. IInv => UsageIsChargedOncePerKey
  BY DEF IInv, ChargeInv
<1>. QED
  BY <1>1, Invariant, PTL

-----------------------------------------------------------------------------
(* The thread implements the journal. *)

\* An accepted event is one delivery the journal records.
LEMMA CommitRecords ==
  ASSUME TypeOK, NEW e, NEW a, NEW r, NEW c, NEW k \in Keys,
         NEW target, NEW row,
         Commit(e, a, r, c, k, target, row), thread.state \in ActiveStates
  PROVE  Journal!Next
<1> DEFINE n == Len(events)
<1>1. /\ n \in Nat /\ Len(events') = n + 1
      /\ \A i \in 1..n : events'[i] = events[i]
  BY CommitLog
<1>2. events'[n + 1].key = k
  <2>1. events'[n + 1] =
          [key |-> k, event |-> e, actor |-> a, receipt |-> r,
           criterion |-> c, source |-> thread.state, target |-> target]
    BY CommitLog
  <2>. QED
    BY <2>1
<1>3. Len(Delivered) = n /\ \A i \in 1..n : Delivered[i] = events[i].key
  BY <1>1 DEF Delivered
<1>4. ~(thread.state \in TerminalStates)
  BY DEF ActiveStates, TerminalStates
<1>5. \A i \in 1..Len(Delivered) : Delivered[i] # k
  BY <1>3 DEF Commit, FreshKey
<1>6. Delivered' = Append(Delivered, k)
  <2>1. Delivered' = [i \in 1..(n + 1) |-> IF i = n + 1 THEN k ELSE Delivered[i]]
    BY <1>1, <1>2, <1>3 DEF Delivered
  <2>2. Append(Delivered, k) =
          [i \in 1..(n + 1) |-> IF i = n + 1 THEN k ELSE Delivered[i]]
    BY <1>1, <1>3 DEF Delivered
  <2>. QED
    BY <2>1, <2>2
<1>. QED
  BY <1>4, <1>5, <1>6 DEF Journal!Next, Journal!Record

\* A mission thread is a journal of idempotency keys that accepts each key once
\* and accepts nothing after the event that ends the mission.
THEOREM JournalRefinement == Spec => JournalSpec
<1>1. Init => Journal!Init
  BY DEF Init, Journal!Init, Delivered, TerminalStates
<1>2. IInv /\ [Next]_vars => [Journal!Next]_(Journal!journalVars)
  <2>. SUFFICES ASSUME IInv, [Next]_vars
                PROVE  [Journal!Next]_(Journal!journalVars)
    OBVIOUS
  <2>1. CASE InitMissionGraph
    BY <2>1 DEF InitMissionGraph, IInv, TypeOK, Rows, Journal!journalVars,
                Delivered, TerminalStates
  <2>2. ASSUME NEW a \in Actors, NEW k \in Keys, OwnerStep(a, k) \/ WorkStep(a, k)
        PROVE  Journal!Next
    <3>1. PICK e \in EventNames, r \in Receipts, c \in Criteria \cup {NoCriterion},
               target \in States, row \in Rows :
            Commit(e, a, r, c, k, target, row) /\ Shaped(e, a, r, target, row)
      BY <2>2, StepCommits DEF Committed, IInv
    <3>2. thread.state \in ActiveStates
      BY <3>1 DEF Shaped
    <3>. QED
      BY <3>1, <3>2, CommitRecords DEF IInv
  <2>3. CASE Drift \/ UNCHANGED vars
    BY <2>3 DEF Drift, vars, Journal!journalVars, Delivered
  <2>. QED
    BY <2>1, <2>2, <2>3 DEF Next
<1>. QED
  BY <1>1, <1>2, Invariant, PTL DEF Spec, JournalSpec, Journal!Spec

-----------------------------------------------------------------------------
(* The reader beside the writers. *)

\* The row a reader holds is still the thread's, or one of an older version.
ReaderInv ==
  /\ reader \in [pc: {"idle", "row", "done"}, row: Rows, valid: BOOLEAN]
  /\ reader.pc = "row" =>
       /\ reader.row.state # "absent"
       /\ reader.row = thread \/ reader.row.version < thread.version

LEMMA ReaderReads ==
  ASSUME ReaderInv, ReadEvents
  PROVE  /\ UNCHANGED vars /\ ReaderInv'
         /\ reader'.valid <=> ChainVerifies(reader.row, events)
<1>. DEFINE told(v) == [reader EXCEPT !.pc = "done", !.valid = v]
<1>1. ASSUME NEW v \in BOOLEAN
      PROVE  /\ told(v) \in [pc: {"idle", "row", "done"}, row: Rows, valid: BOOLEAN]
             /\ told(v).pc = "done" /\ told(v).valid = v
  BY <1>1 DEF ReaderInv
<1>2. reader' = told(ChainVerifies(reader.row, events)) /\ UNCHANGED vars
  BY Zenon DEF ReadEvents
<1>3. ChainVerifies(reader.row, events) \in BOOLEAN
  BY Zenon DEF ChainVerifies
<1>. HIDE DEF told
<1>4. PICK v \in BOOLEAN :
        reader' = told(v) /\ (v <=> ChainVerifies(reader.row, events))
  BY <1>2, <1>3, Zenon
<1>. QED
  BY <1>1, <1>2, <1>4 DEF ReaderInv

LEMMA ReaderSteps ==
  ASSUME IInv, ReaderInv, [ReaderNext]_readerVars
  PROVE  [Next]_vars /\ ReaderInv'
<1>0. TypeOK /\ thread \in Rows /\ thread.version \in Nat
  BY DEF IInv, TypeOK, Rows
<1>1. CASE Next /\ UNCHANGED reader
  <2>. SUFFICES ASSUME reader.pc = "row" PROVE ReaderInv'
    BY <1>1 DEF ReaderInv
  <2>0. /\ reader.row \in Rows /\ reader.row.state # "absent"
        /\ reader.row.version \in Nat
        /\ reader.row = thread \/ reader.row.version < thread.version
    BY DEF ReaderInv, Rows
  <2>1. CASE InitMissionGraph
    <3>1. thread.state = "absent" /\ thread'.version = thread.version
      BY <1>0, <2>1 DEF InitMissionGraph, Rows
    <3>. QED
      BY <1>1, <2>0, <3>1 DEF ReaderInv
  <2>2. ASSUME NEW a \in Actors, NEW k \in Keys, OwnerStep(a, k) \/ WorkStep(a, k)
        PROVE  ReaderInv'
    <3>1. PICK e \in EventNames, r \in Receipts, c \in Criteria \cup {NoCriterion},
               target \in States, row \in Rows :
            Commit(e, a, r, c, k, target, row)
      BY <1>0, <2>2, StepCommits DEF Committed, IInv
    <3>2. thread' = [row EXCEPT !.state = target, !.version = thread.version + 1]
      BY <3>1 DEF Commit
    <3>3. thread'.version = thread.version + 1
      BY <3>2 DEF Rows
    <3>4. reader.row.version < thread'.version
      BY <1>0, <2>0, <3>3
    <3>. QED
      BY <1>1, <2>0, <3>4 DEF ReaderInv
  <2>3. CASE Drift
    BY <1>1, <2>0, <2>3 DEF Drift, ReaderInv
  <2>. QED
    BY <1>1, <2>1, <2>2, <2>3 DEF Next
<1>2. CASE ReadRow
  BY <1>0, <1>2 DEF ReadRow, ReaderInv, vars
<1>3. CASE ReadEvents
  BY <1>3, ReaderReads
<1>4. CASE UNCHANGED readerVars
  BY <1>4 DEF readerVars, vars, ReaderInv
<1>. QED
  BY <1>1, <1>2, <1>3, <1>4 DEF ReaderNext

LEMMA ReaderAnswers ==
  ASSUME IInv, ReaderInv, [ReaderNext]_readerVars, Answers
  PROVE  reader'.valid <=> reader.row = thread /\ bytesIntact
<1>1. reader.pc = "row" /\ reader'.pc = "done"
  BY DEF Answers
<1>2. ReadEvents
  BY <1>1 DEF ReaderNext, ReadRow, readerVars
<1>3. /\ reader.row \in Rows /\ reader.row.state # "absent"
      /\ reader.row.version \in Nat
      /\ reader.row = thread \/ reader.row.version < thread.version
  BY <1>1 DEF ReaderInv, Rows
<1>4. reader'.valid <=> ChainVerifies(reader.row, events)
  BY <1>2, ReaderReads
<1>5. CASE reader.row = thread
  BY <1>3, <1>4, <1>5 DEF IInv, ChainInv, ChainVerifies
<1>6. CASE reader.row.version < thread.version
  <2>1. thread.version = Len(events) /\ thread.version \in Nat
    <3>1. Len(<<>>) = 0
      OBVIOUS
    <3>. QED
      BY <3>1 DEF IInv, ChainInv, HeadOfChain, TypeOK, Rows
  <2>2. reader.row # thread
    BY <1>3, <1>6
  <2>. QED
    BY <1>3, <1>4, <1>6, <2>1, <2>2 DEF ChainVerifies, HeadOfChain
<1>. QED
  BY <1>3, <1>5, <1>6

\* A status that is returned is that of the row at the time the events were
\* read, for any number of events committed between the two SELECTs of
\* mission_graph_status (verify_mission_graph).
THEOREM StatusAccurate == ReaderSpec => StatusIsAccurate
<1>1. ReaderInit => IInv /\ ReaderInv
  <2>. SUFFICES ASSUME ReaderInit PROVE IInv /\ ReaderInv
    OBVIOUS
  <2>1. IInv
    BY InitInv DEF ReaderInit
  <2>2. thread \in Rows
    BY <2>1 DEF IInv, TypeOK
  <2>. QED
    BY <2>1, <2>2 DEF ReaderInit, Idle, ReaderInv
<1>2. IInv /\ ReaderInv /\ [ReaderNext]_readerVars => (IInv /\ ReaderInv)'
  BY ReaderSteps, NextInv
<1>3. IInv /\ ReaderInv /\ [ReaderNext]_readerVars
        => [Answers => (reader'.valid <=> reader.row = thread /\ bytesIntact)]_readerVars
  BY ReaderAnswers
<1>. QED
  BY <1>1, <1>2, <1>3, PTL DEF ReaderSpec, StatusIsAccurate

-----------------------------------------------------------------------------
(* The callers, whose answers may be lost, and the reader. *)

Statuses == {"waiting", "accepted", "refused"}
CallRecords == [status : Statuses, key : Keys, intent : Intents]

AcceptedIsRecorded ==
  \A p \in Callers : calls[p].status = "accepted" => Recorded(calls[p]) # {}

CallsInv ==
  /\ calls \in [Callers -> CallRecords \cup {NoCall}]
  /\ RefusedHasNoEffect
  /\ AcceptedIsRecorded

\* A call that has been made carries a key and an intent.
LEMMA MadeCall ==
  ASSUME calls \in [Callers -> CallRecords \cup {NoCall}],
         NEW p \in Callers, calls[p].status \in Statuses
  PROVE  calls[p] \in CallRecords
BY DEF NoCall, Statuses

\* An answer changes the status of one call and nothing else of any call.
LEMMA AnswerKeeps ==
  ASSUME calls \in [Callers -> CallRecords \cup {NoCall}],
         NEW p \in Callers, Waiting(p),
         NEW s \in {"accepted", "refused"}, Answer(p, s)
  PROVE  /\ calls' \in [Callers -> CallRecords \cup {NoCall}]
         /\ calls'[p].status \in {"waiting", s}
         /\ calls'[p].key = calls[p].key /\ calls'[p].intent = calls[p].intent
         /\ calls[p] \in CallRecords /\ calls'[p] \in CallRecords
         /\ \A q \in Callers \ {p} : calls'[q] = calls[q]
<1>1. calls[p] \in CallRecords /\ calls[p].status = "waiting"
  BY MadeCall DEF Waiting, Statuses
<1>2. CASE calls' = calls
  BY <1>1, <1>2
<1>3. CASE calls' = [calls EXCEPT ![p].status = s]
  <2> DEFINE call == [calls[p] EXCEPT !.status = s]
  <2>1. /\ call \in CallRecords /\ call.status = s
        /\ call.key = calls[p].key /\ call.intent = calls[p].intent
    BY <1>1 DEF CallRecords, Statuses
  <2>2. calls' = [calls EXCEPT ![p] = call]
    BY <1>3
  <2>. HIDE DEF call
  <2>3. calls'[p] = call /\ \A q \in Callers \ {p} : calls'[q] = calls[q]
    BY <2>2
  <2>4. calls' \in [Callers -> CallRecords \cup {NoCall}]
    BY <2>1, <2>2
  <2>. QED
    BY <1>1, <2>1, <2>3, <2>4
<1>. QED
  BY <1>2, <1>3 DEF Answer

\* An accepted call appends one event, of its key and its intent.
LEMMA AcceptedAppends ==
  ASSUME TypeOK, NEW call \in CallRecords, Accepts(call)
  PROVE  /\ Next
         /\ Len(events') = Len(events) + 1
         /\ \A i \in 1..Len(events) : events'[i] = events[i]
         /\ events'[Len(events) + 1].key = call.key
         /\ SameIntent(events'[Len(events) + 1], call.intent)
<1> DEFINE a == call.intent.actor
           k == call.key
<1>1. a \in Actors /\ k \in Keys
  BY IntentAssumption DEF CallRecords
<1>2. OwnerStep(a, k) \/ WorkStep(a, k)
  BY DEF Accepts
<1>3. SameIntent(events'[Len(events')], call.intent)
  BY DEF Accepts
<1>. HIDE DEF a, k
<1>4. PICK e \in EventNames, r \in Receipts, c \in Criteria \cup {NoCriterion},
           target \in States, row \in Rows :
        Commit(e, a, r, c, k, target, row)
  BY <1>1, <1>2, StepCommits DEF Committed
<1>5. /\ Len(events') = Len(events) + 1
      /\ \A i \in 1..Len(events) : events'[i] = events[i]
      /\ events'[Len(events) + 1] =
           [key |-> k, event |-> e, actor |-> a, receipt |-> r,
            criterion |-> c, source |-> thread.state, target |-> target]
  BY <1>4, CommitLog
<1>6. events'[Len(events) + 1].key = k
  BY <1>5
<1>7. Next
  BY <1>1, <1>2 DEF Next
<1>. QED
  BY <1>3, <1>5, <1>6, <1>7 DEF k

\* A step that appends no event and touches one call, which it makes or answers.
LEMMA NothingAppended ==
  ASSUME CallsInv, events' = events, NEW p \in Callers,
         calls' \in [Callers -> CallRecords \cup {NoCall}],
         \A q \in Callers \ {p} : calls'[q] = calls[q],
         calls'[p] # NoCall,
         \/ calls[p] = NoCall
         \/ calls'[p].key = calls[p].key /\ calls'[p].intent = calls[p].intent,
         calls'[p].status = "refused" => Recorded(calls'[p]) = {},
         calls'[p].status = "accepted" => Recorded(calls'[p]) # {}
  PROVE  CallsInv'
<1>1. \A q \in Callers : Recorded(calls[q])' = Recorded(calls'[q])
  BY DEF Recorded, SameIntent
<1>2. ASSUME NEW q \in Callers, calls'[q].status = "refused",
             \A r \in Callers \ {q} : ~SameCall(q, r)'
      PROVE  Recorded(calls'[q]) = {}
  <2>1. CASE q = p
    BY <1>2, <2>1
  <2>2. CASE q # p
    <3>1. calls'[q] = calls[q]
      BY <2>2
    <3>2. ASSUME NEW r \in Callers \ {q} PROVE ~SameCall(q, r)
      BY <1>2, <3>1 DEF SameCall
    <3>. QED
      BY <1>2, <3>1, <3>2 DEF CallsInv, RefusedHasNoEffect
  <2>. QED
    BY <2>1, <2>2
<1>3. ASSUME NEW q \in Callers, calls'[q].status = "accepted"
      PROVE  Recorded(calls'[q]) # {}
  <2>1. CASE q = p
    BY <1>3, <2>1
  <2>2. CASE q # p
    BY <1>3, <2>2 DEF CallsInv, AcceptedIsRecorded
  <2>. QED
    BY <2>1, <2>2
<1>4. RefusedHasNoEffect'
  BY <1>1, <1>2 DEF RefusedHasNoEffect
<1>5. AcceptedIsRecorded'
  BY <1>1, <1>3 DEF AcceptedIsRecorded
<1>. QED
  BY <1>4, <1>5 DEF CallsInv

\* Intents that agree in what intent_sha covers are one intent.
LEMMA IntentFields ==
  ASSUME NEW x \in Intents, NEW y \in Intents,
         x.event = y.event, x.actor = y.actor, x.receipt = y.receipt,
         x.criterion = y.criterion
  PROVE  x = y
<1>1. \A z \in Intents :
        z = [event |-> z.event, actor |-> z.actor, receipt |-> z.receipt,
             criterion |-> z.criterion]
  BY IntentAssumption
<1>. QED
  BY <1>1

\* The event that a call appends is nobody else's: a call told of a refusal is
\* another call, and what was on record stays there.
LEMMA CallAppended ==
  ASSUME TypeOK, CallsInv, NEW p \in Callers, Waiting(p),
         Accepts(calls[p]), Answer(p, "accepted")
  PROVE  CallsInv'
<1> DEFINE n == Len(events)
<1>1. /\ calls' \in [Callers -> CallRecords \cup {NoCall}]
      /\ calls'[p].status \in {"waiting", "accepted"}
      /\ calls'[p].key = calls[p].key /\ calls'[p].intent = calls[p].intent
      /\ calls[p] \in CallRecords /\ calls'[p] \in CallRecords
      /\ \A q \in Callers \ {p} : calls'[q] = calls[q]
  BY AnswerKeeps DEF CallsInv
<1>2. /\ Len(events') = n + 1
      /\ \A i \in 1..n : events'[i] = events[i]
      /\ events'[n + 1].key = calls[p].key
      /\ SameIntent(events'[n + 1], calls[p].intent)
  BY <1>1, AcceptedAppends
<1>3. n \in Nat
  BY DEF TypeOK
<1>. HIDE DEF n
<1>4. ASSUME NEW q \in Callers, calls'[q].status = "refused",
             \A r \in Callers \ {q} : ~SameCall(q, r)'
      PROVE  Recorded(calls[q])' = {}
  <2>1. q # p /\ calls'[q] = calls[q]
    BY <1>1, <1>4
  <2>2. calls[q] \in CallRecords
    BY <1>1, <1>4, <2>1, MadeCall DEF CallsInv, Statuses
  <2>3. ASSUME NEW r \in Callers \ {q} PROVE ~SameCall(q, r)
    <3>1. \/ /\ calls'[r] # NoCall
             /\ calls'[r].key = calls[r].key /\ calls'[r].intent = calls[r].intent
          \/ calls'[r] = calls[r]
      BY <1>1 DEF NoCall, CallRecords
    <3>. QED
      BY <1>4, <2>1, <3>1 DEF SameCall
  <2>4. Recorded(calls[q]) = {}
    BY <1>4, <2>1, <2>3 DEF CallsInv, RefusedHasNoEffect
  <2>5. calls[p].key # calls[q].key \/ calls[p].intent # calls[q].intent
    <3>1. ~SameCall(q, p) /\ calls[p] # NoCall
      BY <1>1, <2>1, <2>3 DEF NoCall, CallRecords
    <3>. QED
      BY <3>1 DEF SameCall
  <2>6. ~(events'[n + 1].key = calls[q].key
            /\ SameIntent(events'[n + 1], calls[q].intent))
    <3>1. SameIntent(events'[n + 1], calls[q].intent)
            => calls[p].intent = calls[q].intent
      <4>1. /\ calls[p].intent \in Intents /\ calls[q].intent \in Intents
        BY <1>1, <2>2 DEF CallRecords
      <4>. QED
        BY <1>2, <4>1, IntentFields DEF SameIntent
    <3>. QED
      BY <1>2, <2>5, <3>1
  <2>7. ASSUME NEW i \in 1..(n + 1)
        PROVE  ~(events'[i].key = calls[q].key
                   /\ SameIntent(events'[i], calls[q].intent))
    <3>1. CASE i \in 1..n
      BY <1>2, <2>4, <3>1 DEF Recorded, n
    <3>2. CASE i = n + 1
      BY <2>6, <3>2
    <3>. QED
      BY <1>3, <3>1, <3>2
  <2>. QED
    BY <1>2, <2>1, <2>7 DEF Recorded, SameIntent
<1>5. ASSUME NEW q \in Callers, calls'[q].status = "accepted"
      PROVE  Recorded(calls[q])' # {}
  <2>1. CASE q = p
    <3>1. n + 1 \in 1..(n + 1)
      BY <1>3
    <3>2. n + 1 \in Recorded(calls[q])'
      BY <1>1, <1>2, <2>1, <3>1 DEF Recorded, SameIntent
    <3>. QED
      BY <3>2
  <2>2. CASE q # p
    <3>1. calls'[q] = calls[q]
      BY <1>1, <2>2
    <3>2. PICK i \in 1..n : events[i].key = calls[q].key
                              /\ SameIntent(events[i], calls[q].intent)
      BY <1>5, <3>1 DEF CallsInv, AcceptedIsRecorded, Recorded, n
    <3>3. i \in 1..(n + 1) /\ events'[i] = events[i]
      BY <1>2, <1>3, <3>2
    <3>4. i \in Recorded(calls[q])'
      BY <1>2, <3>1, <3>2, <3>3 DEF Recorded, SameIntent
    <3>. QED
      BY <3>4
  <2>. QED
    BY <2>1, <2>2
<1>6. RefusedHasNoEffect'
  BY <1>4 DEF RefusedHasNoEffect
<1>7. AcceptedIsRecorded'
  BY <1>5 DEF AcceptedIsRecorded
<1>. QED
  BY <1>1, <1>6, <1>7 DEF CallsInv

LEMMA CallsKept ==
  ASSUME CallsInv, events' = events, calls' = calls
  PROVE  CallsInv'
BY DEF CallsInv, RefusedHasNoEffect, AcceptedIsRecorded, Recorded, SameCall

LEMMA DeliverySteps ==
  ASSUME TypeOK, CallsInv, [DeliveryNext]_deliveryVars
  PROVE  [Next]_vars /\ CallsInv'
<1>1. CASE InitMissionGraph /\ UNCHANGED calls
  <2>1. events' = events /\ calls' = calls /\ Next
    BY <1>1 DEF InitMissionGraph, Next
  <2>. QED
    BY <2>1, CallsKept
<1>2. CASE Drift /\ UNCHANGED calls
  <2>1. events' = events /\ calls' = calls /\ Next
    BY <1>2 DEF Drift, Next
  <2>. QED
    BY <2>1, CallsKept
<1>3. ASSUME NEW p \in Callers, NEW k \in Keys, NEW intent \in Intents,
             Call(p, k, intent)
      PROVE  UNCHANGED vars /\ CallsInv'
  <2> DEFINE call == [status |-> "waiting", key |-> k, intent |-> intent]
  <2>1. /\ calls[p] = NoCall /\ calls' = [calls EXCEPT ![p] = call]
        /\ UNCHANGED vars
    BY <1>3 DEF Call
  <2>2. call \in CallRecords /\ call.status = "waiting" /\ call # NoCall
    BY DEF CallRecords, Statuses, NoCall
  <2>. HIDE DEF call
  <2>3. /\ calls'[p] = call /\ \A q \in Callers \ {p} : calls'[q] = calls[q]
        /\ calls' \in [Callers -> CallRecords \cup {NoCall}]
    BY <2>1, <2>2 DEF CallsInv
  <2>. QED
    BY <2>1, <2>2, <2>3, NothingAppended DEF vars
<1>4. ASSUME NEW p \in Callers, Apply(p)
      PROVE  Next /\ CallsInv'
  <2>1. Waiting(p) /\ Accepts(calls[p]) /\ Answer(p, "accepted")
    BY <1>4 DEF Apply
  <2>2. calls[p] \in CallRecords
    BY <2>1, AnswerKeeps DEF CallsInv
  <2>3. Next
    BY <2>1, <2>2, AcceptedAppends
  <2>. QED
    BY <2>1, <2>3, CallAppended
<1>5. ASSUME NEW p \in Callers, NEW s \in {"accepted", "refused"},
             Waiting(p), Answer(p, s), UNCHANGED vars,
             s = "accepted" <=> Recorded(calls[p]) # {}
      PROVE  CallsInv'
  <2>1. /\ calls' \in [Callers -> CallRecords \cup {NoCall}]
        /\ calls'[p].status \in {"waiting", s}
        /\ calls'[p].key = calls[p].key /\ calls'[p].intent = calls[p].intent
        /\ calls[p] \in CallRecords /\ calls'[p] \in CallRecords
        /\ \A q \in Callers \ {p} : calls'[q] = calls[q]
    BY <1>5, AnswerKeeps DEF CallsInv
  <2>2. Recorded(calls'[p]) = Recorded(calls[p])
    BY <2>1 DEF Recorded
  <2>3. calls'[p] # NoCall
    BY <2>1 DEF NoCall, CallRecords
  <2>4. /\ calls'[p].status = "refused" => Recorded(calls'[p]) = {}
        /\ calls'[p].status = "accepted" => Recorded(calls'[p]) # {}
    BY <1>5, <2>1, <2>2
  <2>. QED
    BY <1>5, <2>1, <2>3, <2>4, NothingAppended DEF vars
<1>6. ASSUME NEW p \in Callers, Duplicate(p)
      PROVE  UNCHANGED vars /\ CallsInv'
  BY <1>5, <1>6 DEF Duplicate, IsDuplicate
<1>7. ASSUME NEW p \in Callers, Refuse(p)
      PROVE  UNCHANGED vars /\ CallsInv'
  BY <1>5, <1>7 DEF Refuse, IsDuplicate
<1>8. CASE UNCHANGED deliveryVars
  BY <1>8, CallsKept DEF deliveryVars, vars
<1>. QED
  BY <1>1, <1>2, <1>3, <1>4, <1>6, <1>7, <1>8 DEF DeliveryNext

\* A caller is told that its event was refused only if it is not on record, and that
\* it was accepted only if it is there once, for any number of callers, lost answers
\* and repetitions (apply_mission_event).
THEOREM AnswersTrue == DeliverySpec => []AnswersAreTrue
<1>1. DeliveryInit => IInv /\ CallsInv
  <2>1. DeliveryInit => CallsInv
    BY DEF DeliveryInit, NoCall, CallsInv, RefusedHasNoEffect, AcceptedIsRecorded
  <2>. QED
    BY <2>1, InitInv DEF DeliveryInit
<1>2. IInv /\ CallsInv /\ [DeliveryNext]_deliveryVars => (IInv /\ CallsInv)'
  BY DeliverySteps, NextInv DEF IInv
<1>3. IInv /\ CallsInv => AnswersAreTrue
  BY DEF IInv, ChargeInv, KeysDiffer, CallsInv, AnswersAreTrue,
         AcceptedIsRecordedOnce, AcceptedIsRecorded, Recorded
<1>. QED
  BY <1>1, <1>2, <1>3, PTL DEF DeliverySpec

\* The store with all of its clients is the callers' store and the reader's store
\* at once: neither disturbs the other.
THEOREM ClientsCompose == ClientsSpec => DeliverySpec /\ ReaderSpec
<1>1. ClientsInit => DeliveryInit /\ ReaderInit /\ IInv /\ CallsInv
  <2>1. DeliveryInit => CallsInv
    BY DEF DeliveryInit, NoCall, CallsInv, RefusedHasNoEffect, AcceptedIsRecorded
  <2>. QED
    BY <2>1, InitInv DEF ClientsInit, DeliveryInit, ReaderInit
<1>2. [ClientsNext]_clientVars => [DeliveryNext]_deliveryVars
  BY DEF ClientsNext, ReadRow, ReadEvents, clientVars, deliveryVars, vars
<1>3. TypeOK /\ CallsInv /\ [ClientsNext]_clientVars => [ReaderNext]_readerVars
  <2>. SUFFICES ASSUME TypeOK, CallsInv, [ClientsNext]_clientVars
                PROVE  [ReaderNext]_readerVars
    OBVIOUS
  <2>1. CASE DeliveryNext /\ UNCHANGED reader
    BY <2>1, DeliverySteps DEF ReaderNext, readerVars
  <2>2. CASE ReadRow \/ ReadEvents
    BY <2>2 DEF ReaderNext
  <2>3. CASE UNCHANGED clientVars
    BY <2>3 DEF clientVars, readerVars, vars
  <2>. QED
    BY <2>1, <2>2, <2>3 DEF ClientsNext
<1>4. IInv /\ CallsInv /\ [DeliveryNext]_deliveryVars => (IInv /\ CallsInv)'
  BY DeliverySteps, NextInv DEF IInv
<1>5. IInv => TypeOK
  BY DEF IInv
<1>. QED
  BY <1>1, <1>2, <1>3, <1>4, <1>5, PTL DEF ClientsSpec, DeliverySpec, ReaderSpec

\* With writers, lost answers and readers at once, what callers and readers are told
\* is so.
THEOREM ClientsToldTrue == ClientsSpec => []AnswersAreTrue /\ StatusIsAccurate
BY ClientsCompose, AnswersTrue, StatusAccurate, PTL

=============================================================================
