--------------------------- MODULE LoopLedgerProofs ---------------------------
(***************************************************************************)
(* Theorems about LoopLedger, for any sets of actions, amounts and         *)
(* passports.  Sound says that the ledger reads back, that only its last   *)
(* row can be open, that no action has two rows, and that an ACTIVE        *)
(* session is within its limits.  A ledger is Sound until the clock puts a *)
(* row before another one; that at most one row is open holds of any.      *)
(***************************************************************************)
EXTENDS LoopLedger, SumTheorems, TLAPS

OpenIsLast == \A i \in 1..Len(log) : log[i].status = "ADMITTED" => i = Len(log)
OneRowEach ==
  \A i, j \in 1..Len(log) : log[i].action = log[j].action => i = j
Fits == session.status = "ACTIVE" => ~Exceeded(Usage)

Sound == TypeOK /\ ReadsBack /\ OpenIsLast /\ OneRowEach /\ Fits

OneOpen == \A i, j \in Pending : i = j

IInv == TypeOK /\ OneOpen /\ (ordered => Sound)

-----------------------------------------------------------------------------
(* Amounts and totals. *)

\* A measurement taken back and replaced: what is left is the total before it.
LEMMA Replaced ==
  ASSUME NEW u \in Totals, NEW e \in Amounts, NEW m \in Amounts
  PROVE  Plus(Minus(Plus(u, e), e), m) = Plus(u, m)
<1>1. e \in [Dims -> Int] /\ m \in [Dims -> Int]
  BY AmountAssumption
<1>2. \A d \in Dims : ((u[d] + e[d]) - e[d]) + m[d] = u[d] + m[d]
  BY <1>1 DEF Totals
<1> QED BY <1>2 DEF Plus, Minus

\* Totals are closed under charging an amount.
LEMMA PlusType ==
  ASSUME NEW u \in Totals, NEW m \in Amounts
  PROVE  Plus(u, m) \in Totals /\ Minus(u, m) \in Totals
BY AmountAssumption DEF Totals, Plus, Minus

LEMMA ZeroType == Zero \in Totals
BY DEF Zero, Totals

\* The totals a typed ledger is projected to.
LEMMA TotalType ==
  ASSUME TypeOK
  PROVE  /\ \A i \in 1..Len(log) : log[i] \in ActionRows
         /\ \A i \in 1..Len(log) : Total(log[i]) \in Totals
         /\ \A i \in 1..Len(log) : TotalBefore(log, i) \in Totals
         /\ Usage \in Totals
<1>1. \A i \in 1..Len(log) : log[i] \in ActionRows
  BY DEF TypeOK
<1>2. \A i \in 1..Len(log) : Total(log[i]) \in Totals
  BY <1>1 DEF Total, ActionRows
<1>3. \A i \in 1..Len(log) : TotalBefore(log, i) \in Totals
  <2> SUFFICES ASSUME NEW i \in 1..Len(log) PROVE TotalBefore(log, i) \in Totals
    OBVIOUS
  <2>1. CASE i = 1
    BY <2>1, ZeroType DEF TotalBefore
  <2>2. CASE i # 1
    <3>1. i - 1 \in 1..Len(log)
      BY <2>2, Len(log) \in Nat DEF TypeOK
    <3> QED BY <2>2, <3>1, <1>2 DEF TotalBefore
  <2> QED BY <2>1, <2>2
<1>4. Usage \in Totals
  <2>1. CASE log = <<>>
    BY <2>1, ZeroType DEF Usage
  <2>2. CASE log # <<>>
    <3>1. Len(log) \in 1..Len(log)
      BY <2>2 DEF TypeOK
    <3> QED BY <2>2, <3>1, <1>2 DEF Usage
  <2> QED BY <2>1, <2>2
<1> QED BY <1>1, <1>2, <1>3, <1>4

-----------------------------------------------------------------------------
(* Steps that change no row. *)

\* What a call that writes no row may do to the session.
SessionStep ==
  /\ session' \in [status : SessionStatuses, passport : Passports]
  /\ session'.passport = session.passport \/ log = <<>>
  /\ session'.status = "absent" => session.status = "absent"
  /\ session'.status = "ACTIVE" => session.status \in {"absent", "ACTIVE"}

\* The invariant does not depend on answers, and a session only loses rights.
LEMMA LogKept ==
  ASSUME Sound, log' = log, SessionStep, ordered' \in BOOLEAN
  PROVE  Sound'
<1> USE DEF Sound
<1>1. TypeOK'
  BY DEF TypeOK, SessionStep
<1>2. ReadsBack'
  <2>1. CASE log = <<>>
    BY <2>1 DEF ReadsBack, Verifies
  <2>2. CASE session'.passport = session.passport
    BY <2>2 DEF ReadsBack, Verifies, Verdict, Exceeded, SessionLimits,
                TotalBefore, Total
  <2> QED BY <2>1, <2>2 DEF SessionStep
<1>3. OpenIsLast' /\ OneRowEach'
  BY DEF OpenIsLast, OneRowEach
<1>4. Fits'
  <2> SUFFICES ASSUME session'.status = "ACTIVE" PROVE ~Exceeded(Usage)'
    BY DEF Fits
  <2>1. CASE log = <<>>
    <3>1. Usage' = Zero
      BY <2>1 DEF Usage
    <3>2. \A d \in Dims : Limits[session'.passport][d] \in 0..MaxUnits
      BY LimitAssumption DEF SessionStep
    <3>3. \A d \in Dims : ~(Zero[d] > Limits[session'.passport][d])
      BY <3>2, AmountAssumption DEF Zero
    <3> QED BY <3>1, <3>3 DEF Exceeded, SessionLimits
  <2>2. CASE log # <<>>
    <3>1. session.status = "ACTIVE" /\ session'.passport = session.passport
      BY <2>2 DEF SessionStep, TypeOK
    <3> QED BY <3>1 DEF Fits, Exceeded, SessionLimits, Usage, Total
  <2> QED BY <2>1, <2>2
<1> QED BY <1>1, <1>2, <1>3, <1>4

\* The guard is such a step, whatever passport is presented.
LEMMA GuardStep ==
  ASSUME TypeOK, NEW p \in Passports, session' = Guarded(p)
  PROVE  SessionStep
BY DEF TypeOK, Guarded, SessionStep, SessionStatuses

\* So is keeping the session.
LEMMA KeptStep ==
  ASSUME TypeOK, session' = session
  PROVE  SessionStep
BY DEF TypeOK, SessionStep

-----------------------------------------------------------------------------
(* Steps that write a row. *)

\* The log with a row put in at a place, or at its end.
WithRow(rows, row, i) == IF i > Len(rows) THEN Append(rows, row) ELSE InsertAt(rows, i, row)

\* Where a row lands when the clock was set back.
LEMMA Inserted ==
  ASSUME NEW rows \in Seq(ActionRows), NEW row \in ActionRows,
         NEW i \in 1..(Len(rows) + 1)
  PROVE  /\ WithRow(rows, row, i) \in Seq(ActionRows)
         /\ Len(WithRow(rows, row, i)) = Len(rows) + 1
         /\ WithRow(rows, row, i)[i] = row
         /\ \A j \in 1..Len(rows) : j < i => WithRow(rows, row, i)[j] = rows[j]
         /\ \A j \in (i + 1)..(Len(rows) + 1) : WithRow(rows, row, i)[j] = rows[j - 1]
<1> DEFINE new == WithRow(rows, row, i)
<1>1. CASE i > Len(rows)
  <2>1. i = Len(rows) + 1 /\ new = Append(rows, row)
    BY <1>1 DEF WithRow
  <2> QED BY <2>1
<1>2. CASE i \in 1..Len(rows)
  <2> DEFINE left == SubSeq(rows, 1, i - 1)
             right == SubSeq(rows, i, Len(rows))
  <2>1. /\ left \in Seq(ActionRows) /\ Len(left) = i - 1
        /\ \A j \in 1..(i - 1) : left[j] = rows[j]
    BY <1>2
  <2>2. /\ right \in Seq(ActionRows) /\ Len(right) = Len(rows) - i + 1
        /\ \A j \in 1..(Len(rows) - i + 1) : right[j] = rows[i + j - 1]
    BY <1>2
  <2>3. <<row>> \in Seq(ActionRows) /\ Len(<<row>>) = 1 /\ <<row>>[1] = row
    OBVIOUS
  <2>4. new = (left \o <<row>>) \o right
    BY <1>2 DEF InsertAt, WithRow
  <2> HIDE DEF left, right, new
  <2> DEFINE begin == left \o <<row>>
  <2>5. /\ begin \in Seq(ActionRows) /\ Len(begin) = i /\ begin[i] = row
        /\ \A j \in 1..(i - 1) : begin[j] = rows[j]
    BY <2>1, <2>3, <1>2
  <2>6. new = begin \o right
    BY <2>4
  <2> HIDE DEF begin
  <2>7. /\ new \in Seq(ActionRows) /\ Len(new) = Len(rows) + 1 /\ new[i] = row
        /\ \A j \in 1..(i - 1) : new[j] = rows[j]
    <3>1. new \in Seq(ActionRows)
      BY <2>2, <2>5, <2>6
    <3>2. Len(new) = Len(begin) + Len(right)
      BY <2>2, <2>5, <2>6
    <3>3. Len(new) = Len(rows) + 1
      BY <3>2, <2>2, <2>5, <1>2
    <3>4. \A j \in 1..i : new[j] = begin[j]
      BY <2>2, <2>5, <2>6, <1>2
    <3>5. i \in 1..i /\ \A j \in 1..(i - 1) : j \in 1..i
      BY <1>2
    <3> QED BY <3>1, <3>3, <3>4, <3>5, <2>5
  <2>8. ASSUME NEW j \in (i + 1)..(Len(rows) + 1)
        PROVE  new[j] = rows[j - 1]
    <3>1. new[j] = right[j - i]
      BY <2>2, <2>5, <2>6, <1>2
    <3> QED BY <3>1, <2>2, <1>2
  <2> QED BY <2>7, <2>8, <1>2 DEF new
<1> QED BY <1>1, <1>2

\* The row of a reservation.
NewRow(a, e) ==
  [action |-> a, status |-> "ADMITTED", estimate |-> e, admission |-> Plus(Usage, e),
   actual |-> Zero, settlement |-> Zero, verdict |-> "none"]

\* If it leaves the others in their places, it is the last one.
LEMMA AppendedInOrder ==
  ASSUME TypeOK, RowsStay,
         NEW p \in Passports, NEW a \in Actions, NEW e \in Amounts,
         Reserve(p, a, e)
  PROVE  log' = Append(log, NewRow(a, e))
<1>1. PICK i \in 1..(Len(log) + 1) :
        log' = WithRow(log, NewRow(a, e), i)
  BY DEF Reserve, Places, NewRow, WithRow
<1>2. NewRow(a, e) \in ActionRows /\ NewRow(a, e).action = a
  BY TotalType, PlusType, ZeroType DEF NewRow, ActionRows, Verdicts
<1>3. log \in Seq(ActionRows) /\ \A j \in 1..Len(log) : log[j].action # a
  BY DEF TypeOK, Reserve, Unknown
<1>4. log'[i] = NewRow(a, e)
  BY <1>1, <1>2, <1>3, Inserted
<1>5. i \notin 1..Len(log)
  BY <1>2, <1>3, <1>4 DEF RowsStay
<1> QED BY <1>1, <1>3, <1>5 DEF WithRow

\* A reservation extends a ledger that reads back to one that reads back.
LEMMA ReserveInv ==
  ASSUME Sound, RowsStay, ordered' \in BOOLEAN,
         NEW p \in Passports, NEW a \in Actions, NEW e \in Amounts,
         Reserve(p, a, e)
  PROVE  Sound'
<1> USE DEF Sound
<1> DEFINE row == NewRow(a, e)
           n == Len(log)
<1>1. /\ n \in Nat
      /\ log \in Seq(ActionRows)
      /\ Usage \in Totals
      /\ \A i \in 1..n : log[i] \in ActionRows
  BY TotalType DEF TypeOK
<1>2. log' = Append(log, row) /\ session' = session
  BY AppendedInOrder DEF Reserve
<1>3. row \in ActionRows
  BY <1>1, PlusType, ZeroType DEF NewRow, ActionRows, Verdicts
<1>4. /\ row.status = "ADMITTED" /\ row.action = a /\ row.estimate = e
      /\ row.admission = Plus(Usage, e)
  BY DEF NewRow
<1> HIDE DEF row
<1>5. /\ Len(log') = n + 1
      /\ log'[n + 1] = row
      /\ \A i \in 1..n : log'[i] = log[i]
      /\ log' \in Seq(ActionRows)
      /\ log' # <<>>
  BY <1>1, <1>2, <1>3
<1>6. /\ session.status = "ACTIVE"
      /\ Pending = {}
      /\ ~Exceeded(Plus(Usage, e))
      /\ \A i \in 1..n : log[i].action # a
  <2>1. Standing(p) = "ACTIVE"
    BY DEF Reserve
  <2>2. session.status = "ACTIVE"
    BY <2>1 DEF Standing, Guarded, TypeOK
  <2> QED BY <2>2 DEF Reserve, Unknown
<1>7. TypeOK'
  BY <1>2, <1>5, <1>6 DEF TypeOK
<1>8. ReadsBack'
  <2> SUFFICES ASSUME NEW i \in 1..(n + 1)
               PROVE  /\ log'[i].admission
                           = Plus(TotalBefore(log', i), log'[i].estimate)
                      /\ log'[i].status = "SETTLED" =>
                           /\ log'[i].settlement
                                = Plus(TotalBefore(log', i), log'[i].actual)
                           /\ log'[i].verdict = Verdict(log'[i].settlement)
                      /\ \A d \in Dims : Total(log'[i])[d] <= MaxUnits
    BY <1>2, <1>5 DEF ReadsBack, Verifies, Verdict, Exceeded,
                      SessionLimits, TotalBefore, Total
  <2>1. CASE i \in 1..n
    <3>1. TotalBefore(log', i) = TotalBefore(log, i)
      <4>1. CASE i = 1
        BY <4>1 DEF TotalBefore
      <4>2. CASE i # 1
        <5>1. i - 1 \in 1..n
          BY <2>1, <4>2, <1>1
        <5> QED BY <4>2, <5>1, <1>5 DEF TotalBefore
      <4> QED BY <4>1, <4>2
    <3>2. log'[i] = log[i]
      BY <2>1, <1>5
    <3> QED BY <2>1, <3>1, <3>2 DEF ReadsBack, Verifies
  <2>2. CASE i = n + 1
    <3>1. TotalBefore(log', i) = Usage
      <4>1. CASE n = 0
        BY <4>1, <2>2, <1>1 DEF TotalBefore, Usage
      <4>2. CASE n # 0
        <5>1. log # <<>> /\ n \in 1..n /\ i # 1 /\ i - 1 = n
          BY <4>2, <1>1, <2>2
        <5>2. log'[i - 1] = log[n]
          BY <5>1, <1>5
        <5> QED BY <5>1, <5>2 DEF TotalBefore, Usage
      <4> QED BY <4>1, <4>2
    <3>2. Total(log'[i]) = Plus(Usage, e)
      BY <2>2, <1>4, <1>5 DEF Total
    <3>3. \A d \in Dims : Plus(Usage, e)[d] <= MaxUnits
      <4>1. Plus(Usage, e) \in Totals
        BY <1>1, PlusType
      <4>2. \A d \in Dims : Limits[session.passport][d] \in 0..MaxUnits
        BY LimitAssumption DEF TypeOK
      <4>3. \A d \in Dims : ~(Plus(Usage, e)[d] > Limits[session.passport][d])
        BY <1>6 DEF Exceeded, SessionLimits
      <4> HIDE DEF Sound
      <4> QED BY <4>1, <4>2, <4>3, AmountAssumption DEF Totals
    <3> QED BY <2>2, <3>1, <3>2, <3>3, <1>4, <1>5
  <2> QED BY <2>1, <2>2, <1>1
<1>9. OpenIsLast'
  <2>1. \A i \in 1..n : log'[i].status # "ADMITTED"
    BY <1>5, <1>6 DEF Pending
  <2> QED BY <2>1, <1>5, <1>1 DEF OpenIsLast
<1>10. OneRowEach'
  <2>1. \A i \in 1..n : log'[i].action # a
    BY <1>5, <1>6
  <2>2. log'[n + 1].action = a
    BY <1>4, <1>5
  <2>3. \A i, j \in 1..n : log'[i].action = log'[j].action => i = j
    BY <1>5 DEF OneRowEach
  <2> QED BY <2>1, <2>2, <2>3, <1>5, <1>1 DEF OneRowEach
<1>11. Fits'
  <2>1. Usage' = Plus(Usage, e)
    BY <1>4, <1>5, <1>1 DEF Usage, Total
  <2> QED BY <2>1, <1>2, <1>6 DEF Fits, Exceeded, SessionLimits
<1> QED BY <1>7, <1>8, <1>9, <1>10, <1>11

\* What the row being settled becomes.
SettledRow(row, m, total) ==
  [row EXCEPT !.status = "SETTLED", !.actual = m, !.settlement = total,
              !.verdict = Verdict(total)]

\* A settlement is about the last row, and puts the measurement in the place
\* of the estimate in the total of the ledger.
LEMMA SettleStep ==
  ASSUME Sound, NEW p \in Passports, NEW a \in Actions, NEW m \in Amounts,
         Settle(p, a, m)
  PROVE  \E total \in Totals :
           /\ Len(log) \in 1..Len(log)
           /\ log[Len(log)] \in ActionRows
           /\ log[Len(log)].action = a /\ log[Len(log)].status = "ADMITTED"
           /\ total = Plus(TotalBefore(log, Len(log)), m)
           /\ total = Plus(Minus(Usage, log[Len(log)].estimate), m)
           /\ \A d \in Dims : total[d] <= MaxUnits
           /\ log' = [log EXCEPT ![Len(log)] =
                        SettledRow(log[Len(log)], m, total)]
           /\ session' = StatusAfter(total)
           /\ session.status = "ACTIVE"
<1>1. PICK i \in Pending :
        /\ log[i].action = a
        /\ \A d \in Dims : Resettled(log[i], m)[d] <= MaxUnits
        /\ log' = [log EXCEPT ![i] = SettledRow(@, m, Resettled(log[i], m))]
        /\ session' = StatusAfter(Resettled(log[i], m))
  BY DEF Settle, SettledRow
<1>2. /\ i \in 1..Len(log) /\ i = Len(log) /\ log[i].status = "ADMITTED"
      /\ log # <<>>
  BY DEF Pending, OpenIsLast, Sound
<1>3. log[i] \in ActionRows /\ log[i].estimate \in Amounts
  BY <1>2, TotalType DEF Sound, ActionRows
<1>4. TotalBefore(log, i) \in Totals
  BY <1>2, TotalType DEF Sound
<1>5. Usage = Plus(TotalBefore(log, i), log[i].estimate)
  <2>1. Usage = log[i].admission
    BY <1>2 DEF Usage, Total
  <2> QED BY <2>1, <1>2 DEF Sound, ReadsBack, Verifies
<1>6. Resettled(log[i], m) = Plus(TotalBefore(log, i), m)
  BY <1>3, <1>4, <1>5, Replaced DEF Resettled
<1>7. Resettled(log[i], m) \in Totals
  BY <1>4, <1>6, PlusType
<1>8. Resettled(log[i], m) = Plus(Minus(Usage, log[i].estimate), m)
  BY DEF Resettled
<1>9. session.status = "ACTIVE"
  <2>1. Standing(p) = "ACTIVE"
    BY DEF Settle
  <2> QED BY <2>1 DEF Standing, Guarded, TypeOK, Sound
<1> QED BY <1>1, <1>2, <1>3, <1>6, <1>7, <1>8, <1>9

\* A settlement keeps the invariant.
LEMMA SettleInv ==
  ASSUME Sound, ordered' \in BOOLEAN, NEW p \in Passports, NEW a \in Actions, NEW m \in Amounts,
         Settle(p, a, m)
  PROVE  Sound'
<1> DEFINE n == Len(log)
<1>1. PICK total \in Totals :
        /\ n \in 1..n
        /\ log[n] \in ActionRows
        /\ log[n].action = a /\ log[n].status = "ADMITTED"
        /\ total = Plus(TotalBefore(log, n), m)
        /\ \A d \in Dims : total[d] <= MaxUnits
        /\ log' = [log EXCEPT ![n] = SettledRow(log[n], m, total)]
        /\ session' = StatusAfter(total)
        /\ session.status = "ACTIVE"
  BY SettleStep
<1> DEFINE row == SettledRow(log[n], m, total)
<1>2. /\ row.status = "SETTLED" /\ row.actual = m /\ row.settlement = total
      /\ row.verdict = Verdict(total) /\ row.action = a
      /\ row.estimate = log[n].estimate /\ row.admission = log[n].admission
      /\ row \in ActionRows
  BY <1>1 DEF SettledRow, ActionRows, Verdict, Verdicts
<1>3. log' = [log EXCEPT ![n] = row]
  BY <1>1
<1> HIDE DEF row
<1>4. /\ n \in Nat /\ log \in Seq(ActionRows)
      /\ \A i \in 1..n : log[i] \in ActionRows
  BY TotalType DEF Sound, TypeOK
<1>5. /\ Len(log') = n
      /\ log'[n] = row
      /\ \A i \in 1..n : i # n => log'[i] = log[i]
      /\ log' \in Seq(ActionRows)
      /\ log' # <<>>
  BY <1>1, <1>2, <1>3, <1>4
<1>6. /\ session' \in [status : SessionStatuses, passport : Passports]
      /\ session'.passport = session.passport
      /\ session'.status # "absent"
      /\ session'.status = "ACTIVE" => ~Exceeded(total)
  BY <1>1 DEF Sound, TypeOK, StatusAfter, SessionStatuses
<1>7. TypeOK'
  BY <1>5, <1>6 DEF TypeOK
<1>8. ReadsBack'
  <2> SUFFICES ASSUME NEW i \in 1..n
               PROVE  /\ log'[i].admission
                           = Plus(TotalBefore(log', i), log'[i].estimate)
                      /\ log'[i].status = "SETTLED" =>
                           /\ log'[i].settlement
                                = Plus(TotalBefore(log', i), log'[i].actual)
                           /\ log'[i].verdict = Verdict(log'[i].settlement)
                      /\ \A d \in Dims : Total(log'[i])[d] <= MaxUnits
    BY <1>5, <1>6 DEF ReadsBack, Verifies, Verdict, Exceeded,
                      SessionLimits, TotalBefore, Total
  <2>1. TotalBefore(log', i) = TotalBefore(log, i)
    <3>1. CASE i = 1
      BY <3>1 DEF TotalBefore
    <3>2. CASE i # 1
      <4>1. i - 1 \in 1..n /\ i - 1 # n
        BY <3>2, <1>4
      <4> QED BY <3>2, <4>1, <1>5 DEF TotalBefore
    <3> QED BY <3>1, <3>2
  <2>2. log[i].admission = Plus(TotalBefore(log, i), log[i].estimate)
    BY DEF Sound, ReadsBack, Verifies
  <2>3. CASE i # n
    BY <2>1, <2>3, <1>5 DEF Sound, ReadsBack, Verifies
  <2>4. CASE i = n
    <3>1. Total(log'[i]) = total
      BY <2>4, <1>2, <1>5 DEF Total
    <3>2. /\ log'[i].admission = log[i].admission
          /\ log'[i].estimate = log[i].estimate
          /\ log'[i].settlement = total /\ log'[i].actual = m
          /\ log'[i].verdict = Verdict(total)
      BY <2>4, <1>2, <1>5
    <3> QED BY <2>1, <2>2, <2>4, <3>1, <3>2, <1>1
  <2> QED BY <2>3, <2>4
<1>9. OpenIsLast'
  BY <1>2, <1>5 DEF Sound, OpenIsLast
<1>10. OneRowEach'
  <2>1. \A i \in 1..n : log'[i].action = log[i].action
    BY <1>1, <1>2, <1>5
  <2> QED BY <2>1, <1>5 DEF Sound, OneRowEach
<1>11. Fits'
  <2>1. Usage' = total
    BY <1>2, <1>5 DEF Usage, Total
  <2> QED BY <2>1, <1>6 DEF Fits, Exceeded, SessionLimits
<1> QED BY <1>7, <1>8, <1>9, <1>10, <1>11 DEF Sound

-----------------------------------------------------------------------------
(* The invariant. *)

LEMMA InitInv == Init => Sound
BY DEF Init, Sound, TypeOK, SessionStatuses, ReadsBack, Verifies,
       OpenIsLast, OneRowEach, Fits

\* Opening or reading the session writes no row.
LEMMA CallsWithoutAction ==
  ASSUME TypeOK, NEW p \in Passports, Start(p) \/ Status(p)
  PROVE  log' = log /\ SessionStep
<1>1. CASE Start(p)
  <2>1. CASE session.status = "absent" /\ session' = [status |-> "ACTIVE", passport |-> p]
    BY <1>1, <2>1 DEF Start, SessionStep, SessionStatuses, TypeOK, Unreadable
  <2>2. CASE session' = session
    BY <1>1, <2>2, KeptStep DEF Start, Unreadable
  <2> QED BY <1>1, <2>1, <2>2 DEF Start, Unreadable
<1>2. CASE Status(p)
  BY <1>2, GuardStep, KeptStep DEF Status, Unreadable
<1> QED BY <1>1, <1>2

\* A step that writes no row changes the session as a call may.
LEMMA OtherSteps ==
  ASSUME TypeOK, NEW p \in Passports, NEW a \in Actions, NEW m \in Amounts,
         \/ AdmitReplayed(p, a, m) \/ AdmitRefused(p, a, m)
         \/ AdmitOverBudget(p, a, m) \/ Unreadable("admit", p, a)
         \/ SettleIncomplete(p, a) \/ SettleReplayed(p, a, m)
         \/ SettleRefused(p, a) \/ SettleOutOfRange(p, a, m)
         \/ Unreadable("settle", p, a)
  PROVE  log' = log /\ SessionStep
<1>1. CASE AdmitReplayed(p, a, m) \/ AdmitRefused(p, a, m)
             \/ SettleIncomplete(p, a)
  BY <1>1, GuardStep DEF AdmitReplayed, AdmitRefused, SettleIncomplete
<1>2. CASE AdmitOverBudget(p, a, m)
  <2>1. session' = [session EXCEPT !.status = "BUDGET_EXCEEDED"] /\ log' = log
    BY <1>2 DEF AdmitOverBudget
  <2> QED BY <2>1 DEF TypeOK, SessionStep, SessionStatuses
<1>3. CASE \/ Unreadable("admit", p, a) \/ Unreadable("settle", p, a)
           \/ SettleReplayed(p, a, m) \/ SettleRefused(p, a)
           \/ SettleOutOfRange(p, a, m)
  BY <1>3, KeptStep DEF Unreadable, SettleReplayed, SettleRefused,
                        SettleOutOfRange
<1> QED BY <1>1, <1>2, <1>3

\* A call that leaves the rows in their places keeps the ledger sound.
LEMMA CallSound ==
  ASSUME Sound, RowsStay, ordered' \in BOOLEAN, NEW p \in Passports, Call(p)
  PROVE  Sound'
<1>1. CASE Start(p) \/ Status(p)
  <2>1. log' = log /\ SessionStep
    BY <1>1, CallsWithoutAction DEF Sound
  <2> QED BY <2>1, LogKept
<1>2. ASSUME NEW a \in Actions, NEW m \in Amounts, Admit(p, a, m)
      PROVE  Sound'
  <2>1. CASE Reserve(p, a, m)
    BY <1>2, <2>1, ReserveInv
  <2>2. CASE ~Reserve(p, a, m)
    <3>1. log' = log /\ SessionStep
      BY <1>2, <2>2, OtherSteps DEF Admit, Sound
    <3> QED BY <3>1, LogKept
  <2> QED BY <2>1, <2>2
<1>3. ASSUME NEW a \in Actions, NEW m \in Amounts, SettleAction(p, a, m)
      PROVE  Sound'
  <2>1. CASE Settle(p, a, m)
    BY <1>3, <2>1, SettleInv
  <2>2. CASE ~Settle(p, a, m)
    <3>1. log' = log /\ SessionStep
      BY <1>3, <2>2, OtherSteps DEF SettleAction, Sound
    <3> QED BY <3>1, LogKept
  <2> QED BY <2>1, <2>2
<1> QED BY <1>1, <1>2, <1>3 DEF Call

\* A reservation puts its row somewhere, and leaves the others in their order.
LEMMA ReserveInserts ==
  ASSUME TypeOK, NEW p \in Passports, NEW a \in Actions, NEW e \in Amounts,
         Reserve(p, a, e)
  PROVE  \E i \in 1..(Len(log) + 1) :
           /\ log' \in Seq(ActionRows) /\ Len(log') = Len(log) + 1
           /\ log'[i] = NewRow(a, e)
           /\ \A j \in 1..Len(log) : j < i => log'[j] = log[j]
           /\ \A j \in (i + 1)..(Len(log) + 1) : log'[j] = log[j - 1]
<1> DEFINE row == NewRow(a, e)
<1>1. PICK i \in 1..(Len(log) + 1) :
        log' = WithRow(log, row, i)
  BY DEF Reserve, Places, NewRow, WithRow
<1>2. row \in ActionRows
  BY TotalType, PlusType, ZeroType DEF NewRow, ActionRows, Verdicts
<1> HIDE DEF row
<1>3. log \in Seq(ActionRows)
  BY DEF TypeOK
<1>4. /\ log' \in Seq(ActionRows) /\ Len(log') = Len(log) + 1 /\ log'[i] = row
      /\ \A j \in 1..Len(log) : j < i => log'[j] = log[j]
      /\ \A j \in (i + 1)..(Len(log) + 1) : log'[j] = log[j - 1]
  <2> DEFINE new == WithRow(log, row, i)
  <2>1. new \in Seq(ActionRows) /\ Len(new) = Len(log) + 1 /\ new[i] = row
    BY <1>1, <1>2, <1>3, Inserted
  <2>2. \A j \in 1..Len(log) : j < i => new[j] = log[j]
    BY <1>1, <1>2, <1>3, Inserted
  <2>3. \A j \in (i + 1)..(Len(log) + 1) : new[j] = log[j - 1]
    BY <1>1, <1>2, <1>3, Inserted
  <2>4. log' = new
    BY <1>1
  <2> HIDE DEF new
  <2> QED BY <2>1, <2>2, <2>3, <2>4
<1> QED BY <1>4 DEF row

\* A reservation is made when nothing is open, wherever its row lands.
LEMMA ReserveOpens ==
  ASSUME TypeOK, NEW p \in Passports, NEW a \in Actions, NEW e \in Amounts,
         Reserve(p, a, e)
  PROVE  \E i \in 1..Len(log') : Pending' = {i} /\ log'[i].action = a
<1>2. NewRow(a, e).action = a /\ NewRow(a, e).status = "ADMITTED"
  BY DEF NewRow
<1>3. /\ log \in Seq(ActionRows) /\ Len(log) \in Nat
      /\ \A j \in 1..Len(log) : log[j].status # "ADMITTED"
  BY DEF TypeOK, Reserve, Pending
<1>4. PICK i \in 1..(Len(log) + 1) :
        /\ Len(log') = Len(log) + 1 /\ log'[i] = NewRow(a, e)
        /\ \A j \in 1..Len(log) : j < i => log'[j] = log[j]
        /\ \A j \in (i + 1)..(Len(log) + 1) : log'[j] = log[j - 1]
  BY ReserveInserts
<1>5. ASSUME NEW j \in 1..Len(log'), j # i
      PROVE  log'[j].status # "ADMITTED"
  <2>1. CASE j < i
    BY <1>3, <1>4, <2>1
  <2>2. CASE j > i
    <3>1. j - 1 \in 1..Len(log) /\ log'[j] = log[j - 1]
      BY <1>3, <1>4, <1>5, <2>2
    <3> QED BY <1>3, <3>1
  <2> QED BY <1>3, <1>4, <1>5, <2>1, <2>2
<1>6. i \in 1..Len(log') /\ log'[i].status = "ADMITTED"
  BY <1>2, <1>3, <1>4
<1> QED BY <1>2, <1>4, <1>5, <1>6 DEF Pending

\* A settlement writes the measurement into the row of an open reservation.
LEMMA SettleWrites ==
  ASSUME TypeOK, NEW p \in Passports, NEW a \in Actions, NEW m \in Amounts,
         Settle(p, a, m)
  PROVE  \E i \in Pending, row \in ActionRows :
           /\ log' = [log EXCEPT ![i] = row]
           /\ row.status = "SETTLED" /\ row.actual = m
           /\ Resettled(log[i], m) \in Totals
           /\ session' = StatusAfter(Resettled(log[i], m))
<1>1. PICK i \in Pending :
        /\ log' = [log EXCEPT ![i] = SettledRow(log[i], m, Resettled(log[i], m))]
        /\ session' = StatusAfter(Resettled(log[i], m))
  BY DEF Settle, SettledRow
<1>2. log[i] \in ActionRows /\ Usage \in Totals
  BY TotalType DEF Pending
<1>3. Resettled(log[i], m) \in Totals
  BY <1>2, PlusType DEF Resettled, ActionRows
<1> DEFINE total == Resettled(log[i], m)
<1> DEFINE row == SettledRow(log[i], m, total)
<1> HIDE DEF total
<1>4. row \in ActionRows /\ row.status = "SETTLED" /\ row.actual = m
  BY <1>2, <1>3 DEF SettledRow, ActionRows, Verdict, Verdicts, total
<1> HIDE DEF row
<1>5. log' = [log EXCEPT ![i] = row]
  BY <1>1 DEF row, total
<1> QED BY <1>1, <1>3, <1>4, <1>5

\* At most one row is open, in whatever order they are.
LEMMA OneOpenKept ==
  ASSUME TypeOK, OneOpen, [Next]_vars
  PROVE  OneOpen'
<1>1. log' = log => OneOpen'
  BY DEF OneOpen, Pending
<1>2. CASE UNCHANGED vars
  BY <1>1, <1>2 DEF vars
<1>3. CASE Next
  <2>1. PICK p \in Passports : Call(p)
    BY <1>3 DEF Next
  <2>2. CASE Start(p) \/ Status(p)
    BY <1>1, <2>2, CallsWithoutAction
  <2>3. ASSUME NEW a \in Actions, NEW m \in Amounts,
               Admit(p, a, m) \/ SettleAction(p, a, m)
        PROVE  OneOpen'
    <3>1. CASE Reserve(p, a, m)
      BY <3>1, ReserveOpens DEF OneOpen
    <3>2. CASE Settle(p, a, m)
      <4>1. PICK i \in Pending, row \in ActionRows :
              log' = [log EXCEPT ![i] = row] /\ row.status = "SETTLED"
        BY <3>2, SettleWrites
      <4>2. log \in Seq(ActionRows) /\ i \in 1..Len(log)
        BY DEF TypeOK, Pending
      <4>5. Pending' \subseteq Pending
        BY <4>1, <4>2 DEF Pending
      <4> QED BY <4>5 DEF OneOpen
    <3>3. CASE ~Reserve(p, a, m) /\ ~Settle(p, a, m)
      BY <1>1, <2>3, <3>3, OtherSteps DEF Admit, SettleAction
    <3> QED BY <3>1, <3>2, <3>3
  <2> QED BY <2>1, <2>2, <2>3 DEF Call
<1> QED BY <1>2, <1>3

\* The types hold with any clock.
THEOREM TypeCorrect == Spec => []TypeOK
<1>1. Init => TypeOK
  BY DEF Init, TypeOK, SessionStatuses
<1>2. TypeOK /\ [Next]_vars => TypeOK'
  <2> SUFFICES ASSUME TypeOK, [Next]_vars PROVE TypeOK'
    OBVIOUS
  <2>0. ordered' \in BOOLEAN
    BY DEF Next, TypeOK, vars
  <2>1. log' = log /\ SessionStep => TypeOK'
    BY <2>0 DEF TypeOK, SessionStep
  <2>2. CASE UNCHANGED vars
    BY <2>1, <2>2, KeptStep DEF vars
  <2>3. ASSUME NEW p \in Passports, Start(p) \/ Status(p)
        PROVE  TypeOK'
    BY <2>1, <2>3, CallsWithoutAction
  <2>4. ASSUME NEW p \in Passports, NEW a \in Actions, NEW m \in Amounts,
               Admit(p, a, m) \/ SettleAction(p, a, m),
               ~Reserve(p, a, m), ~Settle(p, a, m)
        PROVE  TypeOK'
    <3>1. log' = log /\ SessionStep
      BY <2>4, OtherSteps DEF Admit, SettleAction
    <3> QED BY <2>1, <3>1
  <2>5. ASSUME NEW p \in Passports, NEW a \in Actions, NEW m \in Amounts,
               Reserve(p, a, m)
        PROVE  TypeOK'
    <3>4. log' \in Seq(ActionRows)
      BY <2>5, ReserveInserts
    <3>5. session' = session /\ session.status # "absent"
      BY <2>5 DEF Reserve, Standing
    <3> QED BY <2>0, <3>4, <3>5 DEF TypeOK
  <2>6. ASSUME NEW p \in Passports, NEW a \in Actions, NEW m \in Amounts,
               Settle(p, a, m)
        PROVE  TypeOK'
    <3>1. PICK i \in Pending, row \in ActionRows :
            /\ log' = [log EXCEPT ![i] = row]
            /\ session' = StatusAfter(Resettled(log[i], m))
      BY <2>6, SettleWrites
    <3>2. i \in 1..Len(log)
      BY DEF Pending
    <3>6. log' \in Seq(ActionRows)
      BY <3>1, <3>2 DEF TypeOK
    <3>7. session' \in [status : SessionStatuses, passport : Passports]
            /\ session'.status # "absent"
      <4>1. session.status # "absent"
        BY <2>6 DEF Settle, Standing
      <4> QED BY <3>1, <4>1 DEF StatusAfter, TypeOK, SessionStatuses
    <3> QED BY <2>0, <3>6, <3>7 DEF TypeOK
  <2> QED BY <2>2, <2>3, <2>4, <2>5, <2>6 DEF Next, Call, Admit, SettleAction
<1> QED BY <1>1, <1>2, PTL DEF Spec

\* One reservation at most is open, and the ledger is sound until the clock puts a
\* row before another.
THEOREM Invariant == Spec => []IInv
<1>1. TypeOK /\ TypeOK' /\ IInv /\ [Next]_vars => IInv'
  <2> SUFFICES ASSUME TypeOK, TypeOK', IInv, [Next]_vars PROVE IInv'
    OBVIOUS
  <2>1. OneOpen'
    BY OneOpenKept DEF IInv
  <2>2. ASSUME ordered'
        PROVE  Sound'
    <3>1. ordered /\ Sound
      BY <2>2 DEF IInv, Next, vars
    <3>2. ordered' \in BOOLEAN
      BY DEF TypeOK
    <3>3. CASE UNCHANGED vars
      BY <3>1, <3>2, <3>3, LogKept, KeptStep DEF vars, Sound
    <3>4. CASE Next
      <4>1. RowsStay /\ \E p \in Passports : Call(p)
        BY <2>2, <3>4 DEF Next
      <4> QED BY <3>1, <3>2, <4>1, CallSound
    <3> QED BY <3>3, <3>4
  <2> QED BY <2>1, <2>2 DEF IInv
<1>2. Init => IInv
  BY InitInv DEF IInv, Sound, OneOpen, Pending, Init
<1> QED BY <1>1, <1>2, TypeCorrect, PTL DEF Spec

\* Every receipt in the ledger agrees with the projection at its action, until the
\* clock puts a row before another one (_runtime_usage).
THEOREM ReadsBackAlways == Spec => []LedgerVerifies
<1>1. IInv => LedgerVerifies
  BY DEF IInv, Sound, LedgerVerifies, ReadsBack
<1> QED BY <1>1, Invariant, PTL

\* An ACTIVE session is within its limits, its one reservation is last.
THEOREM WithinLimits == Spec => []ActiveIsWithinLimits
<1>1. IInv => ActiveIsWithinLimits
  <2> SUFFICES ASSUME Sound, session.status = "ACTIVE"
               PROVE  /\ Within(Usage, SessionLimits)
                      /\ \A i, j \in Pending : i = j
                      /\ \A i \in Pending : i = Len(log)
    BY DEF ActiveIsWithinLimits, IInv
  <2>1. Within(Usage, SessionLimits)
    <3>1. Usage \in Totals
      BY TotalType DEF Sound
    <3>2. \A d \in Dims : SessionLimits[d] \in 0..MaxUnits
      BY LimitAssumption DEF Sound, TypeOK, SessionLimits
    <3>3. \A d \in Dims : ~(Usage[d] > SessionLimits[d])
      BY DEF Sound, Fits, Exceeded
    <3> QED BY <3>1, <3>2, <3>3, AmountAssumption DEF Within, Totals
  <2>2. \A i \in Pending : i = Len(log)
    BY DEF Sound, OpenIsLast, Pending
  <2> QED BY <2>1, <2>2
<1> QED BY <1>1, Invariant, PTL

\* A caller is told to go ahead only by a session that holds its reservation,
\* with any clock (admit_budget_action).
THEOREM Authorized == Spec => AdmittedIsAuthorized
<1>1. IInv /\ IInv' /\ [Next]_vars => [AdmissionAuthorized]_vars
  <2> SUFFICES ASSUME IInv, IInv', Next,
                      answer'.op = "admit", answer'.status = "ADMITTED"
               PROVE  /\ Verifies(log)
                      /\ session'.status = "ACTIVE"
                      /\ session'.passport = answer'.passport
                      /\ {log'[i].action : i \in Pending'} = {answer'.action}
    BY DEF vars, AdmissionAuthorized
  <2>1. PICK p \in Passports, a \in Actions, m \in Amounts :
          AdmitReplayed(p, a, m) \/ Reserve(p, a, m)
    <3>1. \A p \in Passports : ~Start(p) /\ ~Status(p)
      BY DEF Start, Status, Reply, Unreadable
    <3>2. \A p \in Passports, a \in Actions, m \in Amounts : ~SettleAction(p, a, m)
      <4>1. \A p \in Passports, a \in Actions, m \in Amounts :
              Settle(p, a, m) => \E s : Reply("settle", p, a, s)
        BY DEF Settle
      <4>2. \A p \in Passports, a \in Actions, m \in Amounts :
              SettleAction(p, a, m) => \E s : Reply("settle", p, a, s)
        BY <4>1 DEF SettleAction, SettleIncomplete, SettleReplayed,
                    SettleRefused, SettleOutOfRange, Unreadable
      <4> QED BY <4>2 DEF Reply
    <3>3. \A p \in Passports, a \in Actions, m \in Amounts :
            ~Unreadable("admit", p, a) /\ ~AdmitOverBudget(p, a, m)
      BY DEF Unreadable, AdmitOverBudget, Reply
    <3>4. \A p \in Passports : Standing(p) # "ADMITTED"
      BY DEF Standing, Guarded, IInv, TypeOK, SessionStatuses
    <3>5. \A p \in Passports, a \in Actions, m \in Amounts : ~AdmitRefused(p, a, m)
      BY <3>4 DEF AdmitRefused, Reply
    <3> QED BY <3>1, <3>2, <3>3, <3>5 DEF Next, Call, Admit
  <2>2. CASE Reserve(p, a, m)
    <3>1. PICK i \in 1..Len(log') : Pending' = {i} /\ log'[i].action = a
      BY <2>2, ReserveOpens DEF IInv
    <3>2. {log'[j].action : j \in Pending'} = {a}
      BY <3>1
    <3>3. answer'.action = a /\ answer'.passport = p /\ session' = session
            /\ Standing(p) = "ACTIVE" /\ ReadsBack
      BY <2>2 DEF Reserve, Reply
    <3> QED BY <3>2, <3>3 DEF Standing, Guarded, ReadsBack, IInv, TypeOK
  <2>3. CASE AdmitReplayed(p, a, m)
    <3>1. PICK i \in 1..Len(log) :
            /\ log[i].action = a /\ ReadsBack /\ session' = Guarded(p)
            /\ Reply("admit", p, a, ReplayAnswer(log[i], m, Standing(p)))
            /\ log' = log
      BY <2>3 DEF AdmitReplayed
    <3>2. answer'.action = a /\ answer'.passport = p
            /\ ReplayAnswer(log[i], m, Standing(p)) = "ADMITTED"
      BY <3>1 DEF Reply
    <3>3. Standing(p) \in SessionStatuses
      BY DEF Standing, Guarded, IInv, TypeOK, SessionStatuses
    <3>4. log[i] \in ActionRows
      BY TotalType DEF IInv
    <3>5. log[i].verdict # "ADMITTED" /\ log[i].status \in {"ADMITTED", "SETTLED"}
      BY <3>4 DEF ActionRows, Verdicts
    <3>6. Standing(p) = "ACTIVE" /\ log[i].status = "ADMITTED"
      BY <3>2, <3>3, <3>5 DEF ReplayAnswer, SessionStatuses
    <3>7. Pending' = {i}
      BY <3>1, <3>6 DEF IInv, OneOpen, Pending
    <3>8. session'.status = "ACTIVE" /\ session'.passport = p
      BY <3>1, <3>6 DEF Standing, Guarded, IInv, TypeOK
    <3> QED BY <3>1, <3>2, <3>7, <3>8 DEF ReadsBack
  <2> QED BY <2>1, <2>2, <2>3
<1> QED BY <1>1, Invariant, PTL DEF Spec, AdmittedIsAuthorized

-----------------------------------------------------------------------------
(* The charges, added up without regard to the order of the rows. *)

LEMMA ChargeType ==
  ASSUME NEW rows \in Seq(ActionRows), NEW d \in Dims
  PROVE  /\ Len(rows) \in Nat /\ IsFiniteSet(1..Len(rows))
         /\ \A i \in 1..Len(rows) : ChargeOf(rows[i])[d] \in Int
         /\ [i \in 1..Len(rows) |-> ChargeOf(rows[i])[d]] \in [1..Len(rows) -> Int]
<1>1. Len(rows) \in Nat /\ IsFiniteSet(1..Len(rows))
  BY FS_Interval
<1>2. ASSUME NEW i \in 1..Len(rows)
      PROVE  ChargeOf(rows[i])[d] \in Int
  <2>1. rows[i] \in ActionRows
    OBVIOUS
  <2>2. ChargeOf(rows[i]) \in Amounts \union {Zero}
    BY <2>1 DEF ActionRows, ChargeOf
  <2> QED BY <2>2, AmountAssumption DEF Zero
<1> QED BY <1>1, <1>2

\* The receipt of the last row of a ledger that reads back has what its rows
\* charge.
LEMMA TotalIsCharges ==
  ASSUME NEW rows \in Seq(ActionRows), rows # <<>>, Verifies(rows), NEW d \in Dims
  PROVE  Total(rows[Len(rows)])[d] = Charges(rows, d)
<1> DEFINE n == Len(rows)
           c == [i \in 1..n |-> ChargeOf(rows[i])[d]]
           Upto(k) == SumFunction([i \in 1..k |-> c[i]])
           N == {k \in Nat : k \in 1..n => Total(rows[k])[d] = Upto(k)}
<1>1. n \in Nat /\ n # 0 /\ c \in [1..n -> Int]
  BY ChargeType
<1>2. ASSUME NEW k \in 1..n
      PROVE  Total(rows[k])[d] = TotalBefore(rows, k)[d] + c[k]
  <2>1. Total(rows[k]) = Plus(TotalBefore(rows, k), ChargeOf(rows[k]))
    BY DEF Verifies, Total, ChargeOf
  <2> QED BY <2>1 DEF Plus
<1> HIDE DEF c
<1>3. 0 \in N
  OBVIOUS
<1>4. ASSUME NEW k \in N
      PROVE  k + 1 \in N
  <2> SUFFICES ASSUME k + 1 \in 1..n
               PROVE  Total(rows[k + 1])[d] = Upto(k + 1)
    OBVIOUS
  <2>1. Upto(k + 1) = Upto(k) + c[k + 1]
    <3>1. k \in Nat /\ k < n
      BY <1>1
    <3> QED BY <1>1, <3>1, SumOfNext
  <2>2. CASE k = 0
    <3>1. [i \in 1..k |-> c[i]] \in [{} -> Int]
      BY <2>2
    <3>2. Upto(k) = 0
      BY <3>1, SumOfNothing
    <3>3. TotalBefore(rows, k + 1)[d] = 0
      BY <2>2 DEF TotalBefore, Zero
    <3> QED BY <1>1, <1>2, <2>1, <3>2, <3>3
  <2>3. CASE k # 0
    <3>1. k \in 1..n /\ Total(rows[k])[d] = Upto(k)
      BY <1>1, <2>3
    <3>2. TotalBefore(rows, k + 1) = Total(rows[k])
      BY <1>1, <2>3 DEF TotalBefore
    <3> QED BY <1>1, <1>2, <2>1, <3>1, <3>2
  <2> QED BY <2>2, <2>3
<1>5. n \in N
  BY <1>1, <1>3, <1>4, AllNaturals
<1>6. [i \in 1..n |-> c[i]] = c
  BY <1>1
<1>7. Total(rows[n])[d] = SumFunction(c)
  BY <1>1, <1>5, <1>6
<1> QED BY <1>7 DEF c, Charges

\* What the code reads off the last receipt is what the rows charge.
LEMMA UsageIsCharges ==
  ASSUME TypeOK, ReadsBack, NEW d \in Dims
  PROVE  Usage[d] = Charges(log, d)
<1>1. CASE log = <<>>
  <2>1. [i \in 1..Len(log) |-> ChargeOf(log[i])[d]] \in [{} -> Int]
    BY <1>1
  <2> QED BY <1>1, <2>1, SumOfNothing DEF Usage, Charges, Zero
<1>2. CASE log # <<>>
  BY <1>2, TotalIsCharges DEF TypeOK, ReadsBack, Usage
<1> QED BY <1>1, <1>2

\* A reservation charges its estimate, wherever its row lands.
LEMMA ReserveCharges ==
  ASSUME TypeOK, NEW p \in Passports, NEW a \in Actions, NEW e \in Amounts,
         Reserve(p, a, e), NEW d \in Dims
  PROVE  Charges(log', d) = Charges(log, d) + e[d]
<1>1. PICK i \in 1..(Len(log) + 1) :
        /\ log' \in Seq(ActionRows) /\ Len(log') = Len(log) + 1
        /\ log'[i] = NewRow(a, e)
        /\ \A j \in 1..Len(log) : j < i => log'[j] = log[j]
        /\ \A j \in (i + 1)..(Len(log) + 1) : log'[j] = log[j - 1]
  BY ReserveInserts
<1> DEFINE n == Len(log)
           f == [j \in 1..n |-> ChargeOf(log[j])[d]]
           g == [j \in 1..(n + 1) |-> ChargeOf(log'[j])[d]]
           S == (1..(n + 1)) \ {i}
           b == [j \in S |-> IF j < i THEN j ELSE j - 1]
           h == [j \in S |-> g[j]]
<1>2. n \in Nat /\ f \in [1..n -> Int] /\ g \in [1..(n + 1) -> Int]
  BY <1>1, ChargeType DEF TypeOK
<1>3. IsFiniteSet(1..n) /\ IsFiniteSet(1..(n + 1)) /\ IsFiniteSet(S)
  <2>1. n \in Nat
    BY <1>2
  <2>2. IsFiniteSet(1..n) /\ IsFiniteSet(1..(n + 1))
    BY <2>1, FS_Interval
  <2> QED BY <2>2, FS_RemoveElement
<1>4. b \in Bijection(S, 1..n)
  <2>1. b \in [S -> 1..n]
    BY <1>2
  <2>2. \A j, k \in S : b[j] = b[k] => j = k
    BY <1>2
  <2>3. ASSUME NEW k \in 1..n PROVE \E j \in S : b[j] = k
    <3>1. CASE k < i
      BY <1>2, <3>1
    <3>2. CASE k >= i
      <4>1. k + 1 \in S /\ b[k + 1] = k
        BY <1>2, <3>2
      <4> QED BY <4>1
    <3> QED BY <1>2, <3>1, <3>2
  <2> HIDE DEF b, S
  <2> QED BY <2>1, <2>2, <2>3 DEF Bijection, Injection, Surjection, IsInjective
<1>5. ASSUME NEW j \in S
      PROVE  h[j] = f[b[j]] /\ h[j] \in Int
  <2>1. h[j] = ChargeOf(log'[j])[d] /\ h[j] \in Int
    BY <1>2
  <2>2. b[j] \in 1..n /\ log'[j] = log[b[j]]
    BY <1>1, <1>2
  <2> QED BY <2>1, <2>2
<1>6. g[i] = e[d]
  <2>1. ChargeOf(log'[i]) = e
    BY <1>1 DEF NewRow, ChargeOf
  <2> QED BY <2>1
<1>7. h \in [S -> Int]
  BY <1>5
<1>8. Charges(log', d) = SumFunction(g) /\ Charges(log, d) = SumFunction(f)
  BY <1>1 DEF Charges
<1> HIDE DEF b, f, g
<1>9. SumFunction(g) = SumFunction(h) + g[i]
  <2> DEFINE T == 1..(n + 1)
             x == i
  <2>1. IsFiniteSet(T) /\ g \in [T -> Int] /\ x \in T
    BY <1>2, <1>3
  <2> HIDE DEF T, x
  <2>2. SumFunction(g) = SumFunction([j \in T \ {x} |-> g[j]]) + g[x]
    BY <2>1, SumWithout
  <2> QED BY <2>2 DEF T, x
<1>10. \A j \in S : h[j] = f[b[j]]
  BY <1>5
<1>11. f \in [1..n -> Int]
  BY <1>2
<1> HIDE DEF S, h
<1>12. SumFunction(h) = SumFunction(f)
  BY <1>3, <1>4, <1>7, <1>10, <1>11, SumRenamed
<1> QED BY <1>6, <1>8, <1>9, <1>12

\* A settlement charges the measurement in the place of the estimate.
LEMMA SettleCharges ==
  ASSUME TypeOK, NEW p \in Passports, NEW a \in Actions, NEW m \in Amounts,
         Settle(p, a, m)
  PROVE  \E total \in Totals :
           /\ session' = StatusAfter(total)
           /\ \A d \in Dims : Charges(log', d) = total[d]
<1>1. PICK i \in Pending, row \in ActionRows :
        /\ log' = [log EXCEPT ![i] = row]
        /\ row.status = "SETTLED" /\ row.actual = m
        /\ Resettled(log[i], m) \in Totals
        /\ session' = StatusAfter(Resettled(log[i], m))
  BY SettleWrites
<1>2. /\ log \in Seq(ActionRows) /\ Len(log) \in Nat /\ i \in 1..Len(log)
      /\ log[i] \in ActionRows /\ ReadsBack /\ log[i].status = "ADMITTED"
  BY DEF TypeOK, Pending, Settle
<1>3. /\ Len(log') = Len(log) /\ log'[i] = row /\ log' \in Seq(ActionRows)
      /\ \A j \in (1..Len(log)) \ {i} : log'[j] = log[j]
  BY <1>1, <1>2
<1>4. ASSUME NEW d \in Dims
      PROVE  Charges(log', d) = Resettled(log[i], m)[d]
  <2> DEFINE S == 1..Len(log)
             f == [j \in S |-> ChargeOf(log[j])[d]]
             g == [j \in S |-> ChargeOf(log'[j])[d]]
  <2>1. IsFiniteSet(S) /\ f \in [S -> Int] /\ g \in [S -> Int] /\ i \in S
    BY <1>2, <1>3, ChargeType
  <2>2. f[i] = log[i].estimate[d] /\ g[i] = m[d]
    BY <1>1, <1>2, <1>3 DEF ChargeOf
  <2>3. \A j \in S \ {i} : g[j] = f[j]
    BY <1>3
  <2>4. Charges(log, d) = SumFunction(f) /\ Charges(log', d) = SumFunction(g)
    BY <1>3 DEF Charges
  <2>5. Usage[d] = Charges(log, d)
    BY <1>2, UsageIsCharges
  <2>6. Resettled(log[i], m)[d] = Usage[d] - f[i] + g[i]
    BY <2>2 DEF Resettled, Plus, Minus
  <2> HIDE DEF S, f, g
  <2>7. SumFunction(g) = SumFunction(f) - f[i] + g[i]
    BY <2>1, <2>3, SumExcept
  <2> QED BY <2>4, <2>5, <2>6, <2>7
<1> QED BY <1>1, <1>4

\* The charges of an ACTIVE session are within its limits, however the clock
\* orders its rows (admit_budget_action, settle_budget_action).
THEOREM ChargesFit == Spec => []ChargesFitWhileActive
<1>1. Init => ChargesFitWhileActive
  BY DEF Init, ChargesFitWhileActive
<1>2. TypeOK /\ TypeOK' /\ ChargesFitWhileActive /\ [Next]_vars => ChargesFitWhileActive'
  <2> SUFFICES ASSUME TypeOK, TypeOK', ChargesFitWhileActive, [Next]_vars,
                      session'.status = "ACTIVE", NEW d \in Dims
               PROVE  Charges(log', d) <= SessionLimits'[d]
    BY DEF ChargesFitWhileActive
  <2>0. SessionLimits'[d] \in Nat /\ SessionLimits[d] \in Nat
    <3>1. \A p \in Passports : Limits[p][d] \in Nat
      BY LimitAssumption, AmountAssumption
    <3>2. session.passport \in Passports /\ session'.passport \in Passports
      BY DEF TypeOK
    <3> QED BY <3>1, <3>2 DEF SessionLimits
  <2>1. ASSUME log' = log, SessionStep
        PROVE  Charges(log', d) <= SessionLimits'[d]
    <3>1. CASE log = <<>>
      <4>1. log' = <<>>
        BY <2>1, <3>1
      <4>2. [i \in 1..Len(log') |-> ChargeOf(log'[i])[d]] \in [{} -> Int]
        BY <4>1
      <4>3. Charges(log', d) = 0
        BY <4>2, SumOfNothing DEF Charges
      <4> QED BY <2>0, <4>3
    <3>2. CASE log # <<>>
      <4>1. session.status = "ACTIVE" /\ SessionLimits' = SessionLimits
        BY <2>1, <3>2 DEF SessionStep, SessionLimits, TypeOK
      <4> QED BY <2>1, <4>1 DEF ChargesFitWhileActive
    <3> QED BY <3>1, <3>2
  <2>2. CASE UNCHANGED vars
    BY <2>1, <2>2, KeptStep DEF vars
  <2>3. ASSUME NEW p \in Passports, Start(p) \/ Status(p)
        PROVE  Charges(log', d) <= SessionLimits'[d]
    BY <2>1, <2>3, CallsWithoutAction
  <2>4. ASSUME NEW p \in Passports, NEW a \in Actions, NEW m \in Amounts,
               Admit(p, a, m) \/ SettleAction(p, a, m),
               ~Reserve(p, a, m), ~Settle(p, a, m)
        PROVE  Charges(log', d) <= SessionLimits'[d]
    <3>1. log' = log /\ SessionStep
      BY <2>4, OtherSteps DEF Admit, SettleAction
    <3> QED BY <2>1, <3>1
  <2>5. ASSUME NEW p \in Passports, NEW a \in Actions, NEW m \in Amounts,
               Reserve(p, a, m)
        PROVE  Charges(log', d) <= SessionLimits'[d]
    <3>1. /\ ReadsBack /\ SessionLimits' = SessionLimits
          /\ ~Exceeded(Plus(Usage, m))
      BY <2>5 DEF Reserve, SessionLimits
    <3>2. Charges(log', d) = Plus(Usage, m)[d]
      BY <2>5, <3>1, ReserveCharges, UsageIsCharges DEF Plus
    <3>3. Plus(Usage, m)[d] \in Int /\ ~(Plus(Usage, m)[d] > SessionLimits[d])
      BY <3>1, TotalType, PlusType DEF Exceeded, Totals
    <3> QED BY <2>0, <3>1, <3>2, <3>3
  <2>6. ASSUME NEW p \in Passports, NEW a \in Actions, NEW m \in Amounts,
               Settle(p, a, m)
        PROVE  Charges(log', d) <= SessionLimits'[d]
    <3>1. PICK total \in Totals :
            session' = StatusAfter(total) /\ Charges(log', d) = total[d]
      BY <2>6, SettleCharges
    <3>2. ~Exceeded(total) /\ SessionLimits' = SessionLimits
      BY <3>1 DEF StatusAfter, SessionLimits, TypeOK
    <3>3. total[d] \in Int /\ ~(total[d] > SessionLimits[d])
      BY <3>2 DEF Exceeded, Totals
    <3> QED BY <2>0, <3>1, <3>2, <3>3
  <2> QED BY <2>2, <2>3, <2>4, <2>5, <2>6 DEF Next, Call, Admit, SettleAction
<1> QED BY <1>1, <1>2, TypeCorrect, PTL DEF Spec

-----------------------------------------------------------------------------
(* The ledger implements LoopBudget. *)

\* A call that writes no row opens the session, gives it up, finds an estimate
\* that does not fit, or is no step of the budget at all.
LEMMA SessionRefines ==
  ASSUME TypeOK, log' = log,
         \/ session' = session
         \/ \E p \in Passports : session' = Guarded(p)
         \/ /\ session.status = "absent"
            /\ \E p \in Passports : session' = [status |-> "ACTIVE", passport |-> p]
         \/ /\ session.status = "ACTIVE" /\ Pending = {}
            /\ session' = [session EXCEPT !.status = "BUDGET_EXCEEDED"]
  PROVE  [Budget!Next]_(Budget!budgetVars)
<1>1. /\ Usage' = Usage /\ OpenReservations' = OpenReservations
      /\ SettledActions' = SettledActions
  BY DEF Usage, OpenReservations, SettledActions, Pending, Total
<1>2. CASE session' = session
  BY <1>1, <1>2 DEF Budget!budgetVars, SessionLimits
<1>3. CASE \E p \in Passports : session' = Guarded(p)
  <2>1. CASE session' = session
    BY <2>1, <1>2
  <2>2. CASE session' # session
    <3>1. /\ session.status # "absent" /\ session'.status = "INCOMPLETE"
          /\ session'.passport = session.passport
      BY <1>3, <2>2 DEF Guarded, TypeOK
    <3> QED BY <1>1, <3>1 DEF Budget!Next, Budget!Void, SessionLimits
  <2> QED BY <2>1, <2>2
<1>4. CASE /\ session.status = "absent"
           /\ \E p \in Passports : session' = [status |-> "ACTIVE", passport |-> p]
  <2>1. session'.status = "ACTIVE" /\ SessionLimits' \in {Limits[p] : p \in Passports}
    BY <1>4 DEF SessionLimits
  <2> QED BY <1>1, <1>4, <2>1 DEF Budget!Next, Budget!Open
<1>5. CASE /\ session.status = "ACTIVE" /\ Pending = {}
           /\ session' = [session EXCEPT !.status = "BUDGET_EXCEEDED"]
  <2>1. session'.status = "BUDGET_EXCEEDED" /\ session'.passport = session.passport
    BY <1>5 DEF TypeOK
  <2>2. OpenReservations = {}
    BY <1>5 DEF OpenReservations
  <2> QED BY <1>1, <1>5, <2>1, <2>2 DEF Budget!Next, Budget!Exhaust, SessionLimits
<1> QED BY <1>2, <1>3, <1>4, <1>5

\* The calls that write no row are such calls.
LEMMA OthersRefine ==
  ASSUME TypeOK, NEW p \in Passports, NEW a \in Actions, NEW m \in Amounts,
         \/ AdmitReplayed(p, a, m) \/ AdmitRefused(p, a, m)
         \/ AdmitOverBudget(p, a, m) \/ Unreadable("admit", p, a)
         \/ SettleIncomplete(p, a) \/ SettleReplayed(p, a, m)
         \/ SettleRefused(p, a) \/ SettleOutOfRange(p, a, m)
         \/ Unreadable("settle", p, a)
  PROVE  [Budget!Next]_(Budget!budgetVars)
<1>1. CASE \/ AdmitReplayed(p, a, m) \/ AdmitRefused(p, a, m)
           \/ SettleIncomplete(p, a)
  BY <1>1, SessionRefines DEF AdmitReplayed, AdmitRefused, SettleIncomplete
<1>2. CASE AdmitOverBudget(p, a, m)
  <2>1. session.status = "ACTIVE"
    <3>1. Standing(p) = "ACTIVE"
      BY <1>2 DEF AdmitOverBudget
    <3> QED BY <3>1 DEF Standing, Guarded, TypeOK
  <2> QED BY <1>2, <2>1, SessionRefines DEF AdmitOverBudget
<1>3. CASE \/ Unreadable("admit", p, a) \/ Unreadable("settle", p, a)
           \/ SettleReplayed(p, a, m) \/ SettleRefused(p, a)
           \/ SettleOutOfRange(p, a, m)
  BY <1>3, SessionRefines DEF Unreadable, SettleReplayed, SettleRefused,
                              SettleOutOfRange
<1> QED BY <1>1, <1>2, <1>3

LEMMA ReserveRefines ==
  ASSUME Sound, RowsStay,
         NEW p \in Passports, NEW a \in Actions, NEW e \in Amounts,
         Reserve(p, a, e)
  PROVE  Budget!Reserve(a, e)
<1> DEFINE row == NewRow(a, e)
           n == Len(log)
<1>1. /\ session' = session /\ log' = Append(log, row) /\ Pending = {}
      /\ ~Exceeded(Plus(Usage, e))
      /\ \A i \in 1..n : log[i].action # a
      /\ n \in Nat /\ log \in Seq(ActionRows) /\ Usage \in Totals
  BY TotalType, AppendedInOrder DEF Reserve, Unknown, Sound, TypeOK
<1>2. /\ row.status = "ADMITTED" /\ row.action = a /\ row.estimate = e
      /\ row.admission = Plus(Usage, e)
  BY DEF NewRow
<1> HIDE DEF row
<1>3. /\ Len(log') = n + 1 /\ log'[n + 1] = row /\ log' # <<>>
      /\ \A i \in 1..n : log'[i] = log[i]
  BY <1>1
<1>4. session.status = "ACTIVE"
  <2>1. Standing(p) = "ACTIVE"
    BY DEF Reserve
  <2> QED BY <2>1 DEF Standing, Guarded, Sound, TypeOK
<1>5. Usage' = Plus(Usage, e)
  BY <1>1, <1>2, <1>3 DEF Usage, Total
<1>6. Pending' = {n + 1}
  BY <1>1, <1>2, <1>3 DEF Pending
<1>7. OpenReservations = {} /\ OpenReservations' = {[action |-> a, estimate |-> e]}
  BY <1>1, <1>2, <1>3, <1>6 DEF OpenReservations
<1>8. SettledActions' = SettledActions /\ a \notin SettledActions
  BY <1>1, <1>2, <1>3 DEF SettledActions
<1>9. Within(Plus(Usage, e), SessionLimits)
  <2>1. Plus(Usage, e) \in Totals
    BY <1>1, PlusType
  <2>2. \A d \in Dims : SessionLimits[d] \in 0..MaxUnits
    BY LimitAssumption DEF Sound, TypeOK, SessionLimits
  <2>3. \A d \in Dims : ~(Plus(Usage, e)[d] > SessionLimits[d])
    BY <1>1 DEF Exceeded
  <2> QED BY <2>1, <2>2, <2>3, AmountAssumption DEF Within, Totals
<1>10. Budget!Plus(Usage, e) = Plus(Usage, e)
  BY DEF Budget!Plus, Plus
<1>11. Budget!Within(Budget!Plus(Usage, e), SessionLimits)
  BY <1>9, <1>10 DEF Budget!Within, Within
<1> QED BY <1>1, <1>4, <1>5, <1>7, <1>8, <1>10, <1>11
        DEF Budget!Reserve, SessionLimits

LEMMA SettleRefines ==
  ASSUME Sound, NEW p \in Passports, NEW a \in Actions, NEW m \in Amounts,
         Settle(p, a, m)
  PROVE  \E r \in OpenReservations : Budget!Settle(r, m)
<1> DEFINE n == Len(log)
           r == [action |-> a, estimate |-> log[n].estimate]
<1>1. PICK total \in Totals :
        /\ n \in 1..n
        /\ log[n] \in ActionRows
        /\ log[n].action = a /\ log[n].status = "ADMITTED"
        /\ total = Plus(Minus(Usage, log[n].estimate), m)
        /\ log' = [log EXCEPT ![n] = SettledRow(log[n], m, total)]
        /\ session' = StatusAfter(total)
        /\ session.status = "ACTIVE"
  BY SettleStep
<1> DEFINE row == SettledRow(log[n], m, total)
<1>2. /\ row.status = "SETTLED" /\ row.settlement = total /\ row.action = a
  BY <1>1 DEF SettledRow, ActionRows
<1>3. log' = [log EXCEPT ![n] = row] /\ n \in Nat /\ log \in Seq(ActionRows)
  BY <1>1 DEF Sound, TypeOK
<1> HIDE DEF row
<1>4. /\ Len(log') = n /\ log'[n] = row /\ log' # <<>>
      /\ \A i \in 1..n : i # n => log'[i] = log[i]
  BY <1>1, <1>3
<1>5. Pending = {n}
  BY <1>1 DEF Pending, Sound, OpenIsLast
<1>6. Pending' = {}
  BY <1>2, <1>4, <1>5 DEF Pending
<1>7. OpenReservations = {r} /\ OpenReservations' = {}
  BY <1>1, <1>5, <1>6 DEF OpenReservations
<1>8. Usage' = total
  BY <1>2, <1>4 DEF Usage, Total
<1>9. SettledActions' = SettledActions \cup {a}
  <2> DEFINE Done == {j \in 1..n : log[j].status = "SETTLED"}
             DoneNext == {j \in 1..n : log'[j].status = "SETTLED"}
  <2>1. DoneNext = Done \cup {n}
    BY <1>1, <1>2, <1>4
  <2>2. n \notin Done /\ \A i \in Done : log'[i].action = log[i].action
    BY <1>1, <1>4
  <2>3. SettledActions = {log[i].action : i \in Done}
    BY DEF SettledActions
  <2>4. SettledActions' = {log'[i].action : i \in DoneNext}
    BY <1>4 DEF SettledActions
  <2> HIDE DEF Done, DoneNext
  <2> QED BY <2>1, <2>2, <2>3, <2>4, <1>2, <1>4
<1>10. /\ session'.passport = session.passport
       /\ session'.status = IF Exceeded(total) THEN "BUDGET_EXCEEDED" ELSE "ACTIVE"
  BY <1>1 DEF StatusAfter, Sound, TypeOK
<1>11. Within(total, SessionLimits) <=> ~Exceeded(total)
  <2>1. \A d \in Dims : SessionLimits[d] \in 0..MaxUnits
    BY LimitAssumption DEF Sound, TypeOK, SessionLimits
  <2> QED BY <2>1, AmountAssumption DEF Within, Exceeded, Totals
<1>12. Budget!Plus(Budget!Minus(Usage, r.estimate), m) = total
  BY <1>1 DEF Budget!Plus, Budget!Minus, Plus, Minus
<1>13. Budget!Within(total, SessionLimits) <=> Within(total, SessionLimits)
  BY DEF Budget!Within, Within
<1>14. SessionLimits' = SessionLimits
  BY <1>10 DEF SessionLimits
<1>15. r \in OpenReservations /\ r.action = a
  BY <1>7
<1> HIDE DEF r
<1>16. Budget!Settle(r, m)
  <2>1. session'.status = IF Budget!Within(Usage', SessionLimits)
                          THEN "ACTIVE" ELSE "BUDGET_EXCEEDED"
    BY <1>8, <1>10, <1>11, <1>13
  <2> QED BY <2>1, <1>1, <1>7, <1>8, <1>9, <1>12, <1>14, <1>15
          DEF Budget!Settle
<1> QED BY <1>15, <1>16

\* Every behaviour of the ledger is one of LoopBudget, until the clock puts a row
\* before another one.
THEOREM Implements == Spec => BudgetSpec
<1>1. Init => Budget!Init
  <2> SUFFICES ASSUME Init PROVE Budget!Init
    OBVIOUS
  <2>1. SessionLimits \in {Limits[p] : p \in Passports} /\ session.status = "absent"
    BY DEF Init, SessionLimits
  <2>2. Pending = {} /\ OpenReservations = {} /\ SettledActions = {}
    BY DEF Init, Pending, OpenReservations, SettledActions
  <2>3. Usage = Budget!Zero
    BY DEF Init, Usage, Zero, Budget!Zero
  <2> QED BY <2>1, <2>2, <2>3 DEF Budget!Init
<1>2. IInv /\ [Next]_vars => [ordered' => [Budget!Next]_(Budget!budgetVars)]_vars
  <2> SUFFICES ASSUME IInv, Next, ordered'
               PROVE  [Budget!Next]_(Budget!budgetVars)
    OBVIOUS
  <2>1. Sound /\ RowsStay
    BY DEF IInv, Next
  <2>2. PICK p \in Passports : Call(p)
    BY DEF Next
  <2>3. CASE Start(p) \/ Status(p)
    BY <2>1, <2>3, SessionRefines DEF Start, Status, Unreadable, Sound
  <2>4. ASSUME NEW a \in Actions, NEW m \in Amounts,
               Admit(p, a, m) \/ SettleAction(p, a, m)
        PROVE  [Budget!Next]_(Budget!budgetVars)
    <3>1. CASE Reserve(p, a, m)
      BY <2>1, <3>1, ReserveRefines DEF Budget!Next
    <3>2. CASE Settle(p, a, m)
      BY <2>1, <3>2, SettleRefines DEF Budget!Next
    <3>3. CASE ~Reserve(p, a, m) /\ ~Settle(p, a, m)
      BY <2>1, <2>4, <3>3, OthersRefine DEF Admit, SettleAction, Sound
    <3> QED BY <3>1, <3>2, <3>3
  <2> QED BY <2>2, <2>3, <2>4 DEF Call
<1> QED BY <1>1, <1>2, Invariant, PTL DEF Spec, BudgetSpec
=============================================================================
