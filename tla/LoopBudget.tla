------------------------------ MODULE LoopBudget ------------------------------
(***************************************************************************)
(* What a budget session promises to the owner of a supervised loop, with  *)
(* the ledger, its receipts and its replays left out: one reservation at a *)
(* time, charged at its estimate until it is settled at what was measured, *)
(* and no charge after the measurements passed a limit or the session was  *)
(* given up.  LoopLedger.tla implements it.                                *)
(***************************************************************************)
EXTENDS Integers

CONSTANTS Actions,     \* what may be reserved, each at most once
          Dims,        \* metered dimensions
          Amounts,     \* amounts an action may be estimated at or measured to
          Offers       \* the limits a session may be opened with

VARIABLES status,      \* "absent", "ACTIVE", "BUDGET_EXCEEDED", "INCOMPLETE"
          limits,      \* limits of the session
          charged,     \* amount charged so far
          open,        \* the unsettled reservation, as a set of at most one
          settled      \* actions whose measurement is on record

budgetVars == <<status, limits, charged, open, settled>>

Plus(u, v) == [d \in Dims |-> u[d] + v[d]]
Minus(u, v) == [d \in Dims |-> u[d] - v[d]]
Zero == [d \in Dims |-> 0]
Within(u, max) == \A d \in Dims : u[d] <= max[d]

Init ==
  /\ status = "absent" /\ limits \in Offers
  /\ charged = Zero /\ open = {} /\ settled = {}

Open ==
  /\ status = "absent"
  /\ status' = "ACTIVE"
  /\ limits' \in Offers
  /\ UNCHANGED <<charged, open, settled>>

\* An action is admitted when its whole estimate fits.
Reserve(a, e) ==
  /\ status = "ACTIVE" /\ open = {} /\ a \notin settled
  /\ Within(Plus(charged, e), limits)
  /\ charged' = Plus(charged, e)
  /\ open' = {[action |-> a, estimate |-> e]}
  /\ UNCHANGED <<status, limits, settled>>

\* The measurement takes the estimate's place, and ends the session when it
\* passes a limit.
Settle(r, m) ==
  /\ status = "ACTIVE" /\ r \in open
  /\ charged' = Plus(Minus(charged, r.estimate), m)
  /\ status' = IF Within(charged', limits) THEN "ACTIVE" ELSE "BUDGET_EXCEEDED"
  /\ open' = {}
  /\ settled' = settled \cup {r.action}
  /\ UNCHANGED limits

\* An estimate that did not fit ends the session.
Exhaust ==
  /\ status = "ACTIVE" /\ open = {}
  /\ status' = "BUDGET_EXCEEDED"
  /\ UNCHANGED <<limits, charged, open, settled>>

\* The session is given up, whatever is open stays charged.
Void ==
  /\ status # "absent"
  /\ status' = "INCOMPLETE"
  /\ UNCHANGED <<limits, charged, open, settled>>

Next ==
  \/ Open \/ Exhaust \/ Void
  \/ \E a \in Actions, e \in Amounts : Reserve(a, e)
  \/ \E r \in open, m \in Amounts : Settle(r, m)

Spec == Init /\ [][Next]_budgetVars
=============================================================================
