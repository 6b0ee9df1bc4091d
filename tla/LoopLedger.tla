------------------------------ MODULE LoopLedger ------------------------------
(***************************************************************************)
(* One budget session of factoryline/loop_passport.py: the session row and *)
(* the action rows of its SQLite ledger.  Every call runs in one BEGIN     *)
(* IMMEDIATE transaction, so a call is one step, and a call whose process  *)
(* dies before the commit is none.  A caller may repeat any call.          *)
(*                                                                         *)
(* The ledger is kept in the order the code reads it in, ORDER BY          *)
(* created_at, action_digest.  created_at is the wall clock: a row lands   *)
(* at the end unless the clock was set back or did not advance, which may  *)
(* happen at any time.                                                     *)
(*                                                                         *)
(* Passports stand for valid passports of the loop by their manifest, to   *)
(* whose bytes the limits belong; with an invalid one a call ends before   *)
(* it opens the ledger.  Ledgers of accounting version 1 are not modelled. *)
(***************************************************************************)
EXTENDS Integers, Sequences, FiniteSetsExt, SequencesExt

CONSTANTS
  Actions,       \* action tokens (their digests)
  Dims,          \* iterations, wall_seconds, tokens, cost_usd
  Iterations,    \* the first of them, 1 for every action
  Amounts,       \* measurements in base units
  MaxUnits,      \* _RUNTIME_MAX_UNITS
  Passports,     \* valid passports of this loop
  Limits,        \* the limits of each
  NoAction       \* an answer about no action

ASSUME DimsAssumption == Iterations \in Dims
ASSUME AmountAssumption ==
  /\ MaxUnits \in Nat
  /\ Amounts \subseteq [Dims -> 0..MaxUnits]
  /\ \A m \in Amounts : m[Iterations] = 1
ASSUME LimitAssumption == Limits \in [Passports -> [Dims -> 0..MaxUnits]]
ASSUME NoActionAssumption == NoAction \notin Actions

VARIABLES
  session,   \* the session row
  log,       \* the action rows, in reading order
  answer,    \* the answer to the last call
  ordered    \* history: so far every row landed at the end

vars == <<session, log, answer, ordered>>

Plus(u, v) == [d \in Dims |-> u[d] + v[d]]
Minus(u, v) == [d \in Dims |-> u[d] - v[d]]
Zero == [d \in Dims |-> 0]
Within(u, max) == \A d \in Dims : u[d] <= max[d]

SessionLimits == Limits[session.passport]

\* Mutation: reaching a limit counts as exceeding it.
ReachedOrExceeded(u) == \E d \in Dims : u[d] >= SessionLimits[d]

\* _runtime_exceeded
Exceeded(u) == \E d \in Dims : u[d] > SessionLimits[d]

-----------------------------------------------------------------------------
(* The projection of the ledger, _runtime_usage.  The code adds the rows up *)
(* and compares every stored receipt with the running total; the total at   *)
(* a row whose receipts passed is the one in its last receipt.              *)

Total(row) == IF row.status = "SETTLED" THEN row.settlement ELSE row.admission

TotalBefore(rows, i) == IF i = 1 THEN Zero ELSE Total(rows[i - 1])

Verdict(total) == IF Exceeded(total) THEN "BUDGET_EXCEEDED" ELSE "SETTLED"

\* The receipts of the rows agree with the totals their order gives.
Verifies(rows) ==
  \A i \in 1..Len(rows) :
    LET before == TotalBefore(rows, i)
    IN /\ rows[i].admission = Plus(before, rows[i].estimate)
       /\ rows[i].status = "SETTLED" =>
            /\ rows[i].settlement = Plus(before, rows[i].actual)
            /\ rows[i].verdict = Verdict(rows[i].settlement)
       /\ \A d \in Dims : Total(rows[i])[d] <= MaxUnits

\* Mutation: the ledger is trusted without being read back.
TakenOnTrust == TRUE

\* _runtime_usage returns at all: it raises, and the call fails, when a receipt
\* does not agree.
ReadsBack == Verifies(log)

Usage == IF log = <<>> THEN Zero ELSE Total(log[Len(log)])

Pending == {i \in 1..Len(log) : log[i].status = "ADMITTED"}

-----------------------------------------------------------------------------
(* Guard and answers. *)

\* _runtime_guard: a call with another manifest ends the session, on whatever
\* occasion the manifest is seen.
Guarded(p) ==
  IF session.status # "absent" /\ session.passport # p
  THEN [session EXCEPT !.status = "INCOMPLETE"] ELSE session

\* What the session lets the call do: everything when it is ACTIVE.
Standing(p) ==
  IF session.status = "absent" THEN "INCOMPLETE" ELSE Guarded(p).status

Reply(op, p, a, s) ==
  answer' = [op |-> op, passport |-> p, action |-> a, status |-> s]

\* The ledger does not read back: the transaction is rolled back.
Unreadable(op, p, a) ==
  /\ ~ReadsBack
  /\ Reply(op, p, a, "INCOMPLETE")
  /\ UNCHANGED <<session, log>>

-----------------------------------------------------------------------------
(* start_budget_session *)

Start(p) ==
  \/ /\ session.status # "absent" /\ session.passport # p
     /\ Reply("start", p, NoAction, "ACTION_CONFLICT")
     /\ UNCHANGED <<session, log>>
  \/ /\ session.status = "absent"
     /\ session' = [status |-> "ACTIVE", passport |-> p]
     /\ Reply("start", p, NoAction, "ACTIVE")
     /\ UNCHANGED log
  \/ /\ session.status # "absent" /\ session.passport = p
     /\ ReadsBack
     /\ Reply("start", p, NoAction, session.status)
     /\ UNCHANGED <<session, log>>
  \/ /\ session.status # "absent" /\ session.passport = p
     /\ Unreadable("start", p, NoAction)

(* admit_budget_action *)

\* Mutation: a stored admission is handed out before the session is looked at.
ReplayWhenBlocked(row, e, standing) ==
  IF row.estimate # e THEN "ACTION_CONFLICT"
  ELSE IF row.status = "ADMITTED" THEN "ADMITTED"
  ELSE IF standing # "ACTIVE" THEN standing
  ELSE row.verdict

\* _runtime_admission_replay: the answer to a known action.
ReplayAnswer(row, e, standing) ==
  IF row.estimate # e THEN "ACTION_CONFLICT"
  ELSE IF standing # "ACTIVE" THEN standing
  ELSE IF row.status = "SETTLED" THEN row.verdict
  ELSE "ADMITTED"

AdmitReplayed(p, a, e) ==
  \E i \in 1..Len(log) :
    /\ log[i].action = a
    /\ ReadsBack
    /\ session' = Guarded(p)
    /\ Reply("admit", p, a, ReplayAnswer(log[i], e, Standing(p)))
    /\ UNCHANGED log

Unknown(a) == \A i \in 1..Len(log) : log[i].action # a

AdmitRefused(p, a, e) ==
  /\ Unknown(a) /\ ReadsBack
  /\ Standing(p) # "ACTIVE" \/ Pending # {}
  /\ session' = Guarded(p)
  /\ Reply("admit", p, a, IF Standing(p) # "ACTIVE" THEN Standing(p)
                          ELSE "ACTION_IN_PROGRESS")
  /\ UNCHANGED log

\* An estimate that does not fit ends the session and reserves nothing.
AdmitOverBudget(p, a, e) ==
  /\ Unknown(a) /\ ReadsBack
  /\ Standing(p) = "ACTIVE" /\ Pending = {}
  /\ Exceeded(Plus(Usage, e))
  /\ session' = [session EXCEPT !.status = "BUDGET_EXCEEDED"]
  /\ Reply("admit", p, a, "BUDGET_EXCEEDED")
  /\ UNCHANGED log

\* Where the clock puts a new row in the order of the ledger.
Places == 1..(Len(log) + 1)

\* _runtime_reserve_action
Reserve(p, a, e) ==
  /\ Unknown(a) /\ ReadsBack
  /\ Standing(p) = "ACTIVE" /\ Pending = {}
  /\ ~Exceeded(Plus(Usage, e))
  /\ \E i \in Places :
       LET row == [action |-> a, status |-> "ADMITTED", estimate |-> e,
                   admission |-> Plus(Usage, e), actual |-> Zero,
                   settlement |-> Zero, verdict |-> "none"]
       IN log' = IF i > Len(log) THEN Append(log, row) ELSE InsertAt(log, i, row)
  /\ Reply("admit", p, a, "ADMITTED")
  /\ UNCHANGED session

Admit(p, a, e) ==
  \/ AdmitReplayed(p, a, e)
  \/ AdmitRefused(p, a, e)
  \/ AdmitOverBudget(p, a, e)
  \/ Reserve(p, a, e)
  \/ Unreadable("admit", p, a)

(* settle_budget_action *)

\* A session that is INCOMPLETE is not read any further.
SettleIncomplete(p, a) ==
  /\ Standing(p) = "INCOMPLETE"
  /\ session' = Guarded(p)
  /\ Reply("settle", p, a, "INCOMPLETE")
  /\ UNCHANGED log

\* _runtime_settlement_replay: also in a session that is BUDGET_EXCEEDED.
SettleReplayed(p, a, m) ==
  /\ Standing(p) # "INCOMPLETE" /\ ReadsBack
  /\ \E i \in 1..Len(log) :
       /\ log[i].action = a /\ log[i].status = "SETTLED"
       /\ Reply("settle", p, a, IF log[i].actual = m THEN log[i].verdict
                                ELSE "ACTION_CONFLICT")
  /\ UNCHANGED <<session, log>>

SettleRefused(p, a) ==
  /\ Standing(p) # "INCOMPLETE" /\ ReadsBack
  /\ \A i \in 1..Len(log) : log[i].action = a => log[i].status # "SETTLED"
  /\ Standing(p) # "ACTIVE" \/ \A i \in Pending : log[i].action # a
  /\ Reply("settle", p, a, IF Standing(p) # "ACTIVE" THEN Standing(p)
                           ELSE "INCOMPLETE")
  /\ UNCHANGED <<session, log>>

\* Mutation: the measurement is charged on top of the estimate.
ChargedOnTop(row, m) == Plus(Usage, m)

\* The projected total with the measurement in place of the estimate.
Resettled(row, m) == Plus(Minus(Usage, row.estimate), m)

\* A measurement beyond the range of the ledger is not recorded.
SettleOutOfRange(p, a, m) ==
  /\ Standing(p) = "ACTIVE" /\ ReadsBack
  /\ \E i \in Pending :
       /\ log[i].action = a
       /\ \E d \in Dims : Resettled(log[i], m)[d] > MaxUnits
  /\ Reply("settle", p, a, "INCOMPLETE")
  /\ UNCHANGED <<session, log>>

\* Mutation: an overrun is recorded in the receipt only.
StatusKept(total) == session

StatusAfter(total) ==
  IF Exceeded(total) THEN [session EXCEPT !.status = "BUDGET_EXCEEDED"]
  ELSE session

\* _runtime_settle_existing
Settle(p, a, m) ==
  /\ Standing(p) = "ACTIVE" /\ ReadsBack
  /\ \E i \in Pending :
       LET total == Resettled(log[i], m)
       IN /\ log[i].action = a
          /\ \A d \in Dims : total[d] <= MaxUnits
          /\ log' = [log EXCEPT ![i] = [@ EXCEPT !.status = "SETTLED",
                       !.actual = m, !.settlement = total,
                       !.verdict = Verdict(total)]]
          /\ session' = StatusAfter(total)
          /\ Reply("settle", p, a, Verdict(total))

SettleAction(p, a, m) ==
  \/ SettleIncomplete(p, a)
  \/ SettleReplayed(p, a, m)
  \/ SettleRefused(p, a)
  \/ SettleOutOfRange(p, a, m)
  \/ Settle(p, a, m)
  \/ Standing(p) # "INCOMPLETE" /\ Unreadable("settle", p, a)

(* budget_session_status *)

Status(p) ==
  \/ /\ Standing(p) = "INCOMPLETE" \/ ReadsBack
     /\ session' = Guarded(p)
     /\ Reply("status", p, NoAction, Standing(p))
     /\ UNCHANGED log
  \/ Standing(p) # "INCOMPLETE" /\ Unreadable("status", p, NoAction)

-----------------------------------------------------------------------------
Init ==
  /\ \E p \in Passports : session = [status |-> "absent", passport |-> p]
  /\ log = <<>>
  /\ \E p \in Passports :
       answer = [op |-> "none", passport |-> p, action |-> NoAction,
                 status |-> "none"]
  /\ ordered = TRUE

Call(p) ==
  \/ Start(p)
  \/ Status(p)
  \/ \E a \in Actions, m \in Amounts : Admit(p, a, m) \/ SettleAction(p, a, m)

\* No row was put before another one.
RowsStay == \A i \in 1..Len(log) : log'[i].action = log[i].action

Next ==
  /\ \E p \in Passports : Call(p)
  /\ ordered' = (ordered /\ RowsStay)

Spec == Init /\ [][Next]_vars

-----------------------------------------------------------------------------
(* Type invariant. *)

SessionStatuses == {"absent", "ACTIVE", "BUDGET_EXCEEDED", "INCOMPLETE"}
Verdicts == {"none", "SETTLED", "BUDGET_EXCEEDED"}
Totals == [Dims -> Int]
ActionRows ==
  [action : Actions, status : {"ADMITTED", "SETTLED"},
   estimate : Amounts, admission : Totals,
   actual : Amounts \cup {Zero}, settlement : Totals, verdict : Verdicts]

\* The rows of session and action have their types.
TypeOK ==
  /\ session \in [status : SessionStatuses, passport : Passports]
  /\ log \in Seq(ActionRows)
  /\ session.status = "absent" => log = <<>>
  /\ ordered \in BOOLEAN

-----------------------------------------------------------------------------
(* Safety. *)

\* Whatever the runtime commits it can read back: the receipt of every action
\* agrees with the projection of the ledger at that action, through any order
\* of admissions, settlements, denials and repeated calls.  Otherwise all later
\* calls would end INCOMPLETE and the open reservation could not be settled.
\* (As long as the clock advances: see UnresolvedStaysSettleable.)
LedgerVerifies == ordered => Verifies(log)

\* Nobody is told to go ahead by a session that is spent or given up: ADMITTED
\* is answered only for the action that is the session's one open reservation,
\* to the passport of the session, while the session is ACTIVE and its ledger
\* reads back; for a first answer as for a replay, and with any clock.
AdmissionAuthorized ==
  answer'.op = "admit" /\ answer'.status = "ADMITTED" =>
    /\ Verifies(log)
    /\ session'.status = "ACTIVE" /\ session'.passport = answer'.passport
    /\ {log'[i].action : i \in Pending'} = {answer'.action}
AdmittedIsAuthorized == [][AdmissionAuthorized]_vars

\* What the session promises to the owner of the loop.
OpenReservations ==
  {[action |-> log[i].action, estimate |-> log[i].estimate] : i \in Pending}
SettledActions ==
  {log[i].action : i \in {j \in 1..Len(log) : log[j].status = "SETTLED"}}
Budget == INSTANCE LoopBudget
            WITH status <- session.status, limits <- SessionLimits,
                 charged <- Usage, open <- OpenReservations,
                 settled <- SettledActions,
                 Offers <- {Limits[p] : p \in Passports}

\* The ledger implements LoopBudget, as long as its rows are in the order they
\* were admitted in: estimates count until they are settled, each action is
\* charged once, and nothing is charged any more after the measurements passed a
\* limit.
BudgetSpec ==
  Budget!Init /\ [][ordered' => [Budget!Next]_(Budget!budgetVars)]_vars

\* A session that admits work is within its limits, and has one reservation at
\* most, whose charge it can still take back (as long as the clock advances).
ActiveIsWithinLimits ==
  ordered /\ session.status = "ACTIVE" =>
    /\ Within(Usage, SessionLimits)
    /\ \A i, j \in Pending : i = j
    /\ \A i \in Pending : i = Len(log)

\* However the clock orders the rows, the charges of an ACTIVE session are
\* within its limits: what was measured for the settled actions plus what was
\* estimated for the open one, added up without regard to their order.
ChargeOf(row) == IF row.status = "SETTLED" THEN row.actual ELSE row.estimate
Charges(rows, d) == SumFunction([i \in 1..Len(rows) |-> ChargeOf(rows[i])[d]])
ChargesFitWhileActive ==
  session.status = "ACTIVE" => \A d \in Dims : Charges(log, d) <= SessionLimits[d]

-----------------------------------------------------------------------------
(* Claims of the documentation that the code does not meet. *)

\* A reservation that was made and not settled can be settled: the session that
\* holds it is ACTIVE and its ledger reads back, whatever the clock did.
UnresolvedStaysSettleable ==
  session.status = "ACTIVE" /\ Pending # {} => Verifies(log)

\* Restoring a valid passport ends INCOMPLETE: a caller with the passport of
\* the session is not told that session or passport are incomplete.
RestoredPassportIsAccepted ==
  [][/\ answer' # answer
     /\ answer'.op \in {"admit", "status"} /\ session.status # "absent"
     /\ answer'.passport = session.passport
     => answer'.status # "INCOMPLETE"]_vars
=============================================================================
