------------------------- MODULE ControlPlaneProofs -------------------------
(***************************************************************************)
(* Theorems about ControlPlane, for any callers, people, tenants, evidence *)
(* and approvals.  What the tables say is only ever added to: evidence     *)
(* that is there stays, an approval that is decided stays decided, a use   *)
(* stays.  So what a caller read before it took the write lock either      *)
(* still holds or is checked again under it.                               *)
(***************************************************************************)
EXTENDS ControlPlane, TLAPS

-----------------------------------------------------------------------------
(* The invariant of the calls under way. *)

\* What a call has read, and what it is about to write, by where it is.
CallOK(m) ==
  /\ m.pc = "inserting" \/ m.answer = "stored" =>
       m.by \in People /\ m.item \in Items /\ m.content \in Contents
  /\ m.pc \in {"deciding", "consuming"} \/ m.answer = "verified" =>
       m.by \in People /\ m.id \in Approvals
  /\ m.pc = "deciding" =>
       /\ m.decision \in {"approved", "rejected"}
       /\ approvals[m.id] # NoRow /\ approvals[m.id].requester # m.by
  /\ m.pc = "consuming" \/ m.answer = "verified" => m.action \in Actions
  /\ m.pc = "consuming" => IndependentlyApproved(m.seen)

CallsOK == \A c \in Callers : CallOK(call[c])

\* An approval that nobody has used has no event of a use.
Unrecorded ==
  \A a \in Approvals :
    uses[a] = None => EventsOf(a, "approval.workflow.consume") = {}

Accounted == TrailAccountsForTables /\ Unrecorded

LEMMA RowFacts ==
  /\ NoRow \in Rows
  /\ \A row \in Rows : row # NoRow =>
       /\ row \in [tenant: Tenants, item: Items, requester: People,
                   status: Statuses, approver: People \union {None}]
       /\ row.status # "none" /\ row.item \in Items /\ row.tenant \in Tenants
       /\ row.requester \in People /\ row.status \in Statuses
  /\ NoRow.status = "none" /\ NoRow.approver = None
BY DEF Rows, NoRow, Statuses

-----------------------------------------------------------------------------
(* What a step does to the tables. *)

Stores(p, i, k) ==
  /\ evidence[i] = None
  /\ evidence' = [evidence EXCEPT ![i] = k]
  /\ Audit(TenantOf[k], "evidence.write", p, i, k)
  /\ UNCHANGED <<approvals, uses>>

Request(p, i, a) ==
  [tenant |-> TenantOf[evidence[i]], item |-> i, requester |-> p,
   status |-> "pending", approver |-> None]

Asks(p, i, a) ==
  /\ approvals[a] = NoRow /\ evidence[i] # None
  /\ approvals' = [approvals EXCEPT ![a] = Request(p, i, a)]
  /\ Audit(TenantOf[evidence[i]], "approval.request", p, a, i)
  /\ UNCHANGED <<evidence, uses>>

Decides(p, a, d) ==
  /\ approvals[a] # NoRow /\ approvals[a].requester # p
  /\ approvals' = IF StillPending(a)
                  THEN [approvals EXCEPT ![a].status = d, ![a].approver = p]
                  ELSE approvals
  /\ Audit(approvals[a].tenant, "approval.decide", p, a, d)
  /\ UNCHANGED <<evidence, uses>>

Uses(p, a, x) ==
  /\ uses[a] = None /\ IndependentlyApproved(approvals[a])
  /\ Bears[evidence[approvals[a].item]] = x
  /\ uses' = [uses EXCEPT ![a] = x]
  /\ Audit(approvals[a].tenant, "approval.workflow.consume", p, a, x)
  /\ UNCHANGED <<evidence, approvals>>

TableStep ==
  \/ UNCHANGED tables
  \/ \E p \in People :
       \/ \E i \in Items, k \in Contents : Stores(p, i, k)
       \/ \E i \in Items, a \in Approvals : Asks(p, i, a)
       \/ \E a \in Approvals, d \in {"approved", "rejected"} : Decides(p, a, d)
       \/ \E a \in Approvals, x \in Actions : Uses(p, a, x)

LEMMA TableSteps ==
  ASSUME TypeOK, CallsOK, [Next]_vars
  PROVE  TableStep
<1>1. ASSUME NEW c \in Callers, CallStep(c) PROVE TableStep
  <2>1. CASE PutRead(c) \/ DecideRead(c) \/ VerifyRead(c) \/ Fails(c)
    BY <2>1 DEF PutRead, DecideRead, VerifyRead, Fails, TableStep
  <2>2. CASE PutInsert(c)
    <3>1. /\ call[c].by \in People /\ call[c].item \in Items
          /\ call[c].content \in Contents
      BY <2>2 DEF PutInsert, CallsOK, CallOK
    <3>2. Stores(call[c].by, call[c].item, call[c].content) \/ UNCHANGED tables
      BY <2>2 DEF PutInsert, Stores, Insertable, tables
    <3> QED BY <3>1, <3>2 DEF TableStep
  <2>3. CASE RequestApproval(c)
    BY <2>3 DEF RequestApproval, Asks, Request, tables, TableStep
  <2>4. CASE DecideWrite(c)
    <3>1. /\ call[c].by \in People /\ call[c].id \in Approvals
          /\ call[c].decision \in {"approved", "rejected"}
      BY <2>4 DEF DecideWrite, CallsOK, CallOK
    <3>2. Decides(call[c].by, call[c].id, call[c].decision)
      BY <2>4 DEF DecideWrite, Decides, CallsOK, CallOK
    <3> QED BY <3>1, <3>2 DEF TableStep
  <2>5. CASE Consume(c)
    <3>1. /\ call[c].by \in People /\ call[c].id \in Approvals
          /\ call[c].action \in Actions
      BY <2>5 DEF Consume, CallsOK, CallOK
    <3>2. Uses(call[c].by, call[c].id, call[c].action) \/ UNCHANGED tables
      BY <2>5 DEF Consume, Uses, CallsOK, CallOK, Unused, EvidenceBears, tables
    <3> QED BY <3>1, <3>2 DEF TableStep
  <2> QED BY <1>1, <2>1, <2>2, <2>3, <2>4, <2>5 DEF CallStep
<1>2. CASE Grant \/ Expire \/ UNCHANGED vars
  BY <1>2 DEF Grant, Expire, vars, tables, TableStep
<1> QED BY <1>1, <1>2 DEF Next

\* Nothing in the tables is taken back.
Kept ==
  /\ \A i \in Items : evidence[i] # None => evidence'[i] = evidence[i]
  /\ \A a \in Approvals :
       /\ approvals[a] # NoRow =>
            /\ approvals'[a] # NoRow
            /\ approvals'[a].item = approvals[a].item
            /\ approvals'[a].requester = approvals[a].requester
            /\ approvals[a].status # "pending" => approvals'[a] = approvals[a]
       /\ uses[a] # None => uses'[a] = uses[a]

LEMMA TablesKept ==
  ASSUME TypeOK, TableStep
  PROVE  Kept
<1>1. CASE UNCHANGED tables
  BY <1>1 DEF tables, Kept
<1>2. ASSUME NEW p \in People, NEW i \in Items, NEW k \in Contents, Stores(p, i, k)
      PROVE  Kept
  BY <1>2 DEF Stores, Kept, TypeOK
<1>3. ASSUME NEW p \in People, NEW i \in Items, NEW a \in Approvals, Asks(p, i, a)
      PROVE  Kept
  BY <1>3 DEF Asks, Kept, TypeOK
<1>4. ASSUME NEW p \in People, NEW a \in Approvals,
             NEW d \in {"approved", "rejected"}, Decides(p, a, d)
      PROVE  Kept
  <2>1. /\ evidence' = evidence /\ uses' = uses
        /\ \A b \in Approvals : b # a \/ ~StillPending(a) => approvals'[b] = approvals[b]
    BY <1>4 DEF Decides, TypeOK
  <2>2. CASE StillPending(a)
    <3> DEFINE row == approvals[a]
               new == [row EXCEPT !.status = d, !.approver = p]
    <3>1. row \in [tenant: Tenants, item: Items, requester: People,
                   status: Statuses, approver: People \union {None}]
      BY <1>4, RowFacts DEF Decides, TypeOK
    <3>2. new.item = row.item /\ new.requester = row.requester /\ new.status = d
      BY <3>1
    <3>3. approvals'[a] = new
      BY <1>4, <2>2 DEF Decides, TypeOK
    <3>4. new # NoRow
      BY <3>2 DEF NoRow
    <3> QED BY <2>1, <2>2, <3>2, <3>3, <3>4 DEF Kept, StillPending
  <2>3. CASE ~StillPending(a)
    BY <2>1, <2>3 DEF Kept
  <2> QED BY <2>2, <2>3
<1>5. ASSUME NEW p \in People, NEW a \in Approvals, NEW x \in Actions, Uses(p, a, x)
      PROVE  Kept
  BY <1>5 DEF Uses, Kept, TypeOK
<1> QED BY <1>1, <1>2, <1>3, <1>4, <1>5 DEF TableStep

-----------------------------------------------------------------------------
(* The audit trail. *)

\* What LastOf chooses.
IsLast(n, t) ==
  /\ n # 0 => audit[n].tenant = t
  /\ \A i \in n+1..Len(audit) : audit[i].tenant # t

\* There is something to choose.  (That a finite set has a maximum takes induction;
\* as an invariant it does not.)
HasLast == \A t \in Tenants : \E n \in 0..Len(audit) : IsLast(n, t)

LEMMA LastIsLast ==
  ASSUME HasLast, NEW t \in Tenants
  PROVE  LastOf(t) \in 0..Len(audit) /\ IsLast(LastOf(t), t)
BY DEF HasLast, LastOf, IsLast

\* The event that a step writes.
Event(t, what, p, id, note) ==
  [tenant |-> t, action |-> what, actor |-> p, id |-> id, note |-> note,
   previous |-> LastOf(t)]

LEMMA Appending ==
  ASSUME audit \in Seq(Events), HasLast, AuditVerifies,
         NEW t \in Tenants, NEW what, NEW p \in People, NEW id, NEW note,
         Audit(t, what, p, id, note),
         Event(t, what, p, id, note) \in Events
  PROVE  /\ audit' \in Seq(Events) /\ Len(audit') = Len(audit) + 1
         /\ \A n \in DOMAIN audit : n \in DOMAIN audit' /\ audit'[n] = audit[n]
         /\ DOMAIN audit' = DOMAIN audit \union {Len(audit) + 1}
         /\ audit'[Len(audit) + 1] = Event(t, what, p, id, note)
         /\ HasLast' /\ AuditVerifies'
<1> DEFINE e == Event(t, what, p, id, note)
           L == Len(audit)
<1>1. audit' = Append(audit, e)
  BY DEF Audit, Event
<1>a. e.tenant = t /\ e.previous = LastOf(t)
  BY DEF Event
<1> HIDE DEF e
<1>2. /\ audit' \in Seq(Events) /\ Len(audit') = L + 1 /\ L \in Nat
      /\ DOMAIN audit = 1..L /\ DOMAIN audit' = 1..L+1
      /\ \A n \in 1..L : audit'[n] = audit[n]
      /\ audit'[L + 1] = e
  BY <1>1 DEF e
<1>3. /\ \A n \in DOMAIN audit : n \in DOMAIN audit' /\ audit'[n] = audit[n]
      /\ DOMAIN audit' = DOMAIN audit \union {L + 1}
  BY <1>2
<1>4. HasLast'
  <2> SUFFICES ASSUME NEW u \in Tenants
               PROVE  \E n \in 0..Len(audit') : IsLast(n, u)'
    BY DEF HasLast
  <2>1. CASE u = t
    <3>1. PICK n \in 0..L+1 : n = L + 1
      BY <1>2
    <3>2. IsLast(n, u)'
      BY <1>2, <1>a, <2>1, <3>1 DEF IsLast
    <3> QED BY <1>2, <3>2
  <2>2. CASE u # t
    <3>1. PICK n \in 0..L : IsLast(n, u)
      BY DEF HasLast
    <3>2. IsLast(n, u)'
      BY <1>2, <1>a, <2>2, <3>1 DEF IsLast
    <3> QED BY <1>2, <3>2
  <2> QED BY <2>1, <2>2
<1>5. AuditVerifies'
  <2> SUFFICES ASSUME NEW n \in 1..L+1
               PROVE  LET m == audit'[n].previous
                      IN /\ m \in 0..n-1
                         /\ m # 0 => audit'[m].tenant = audit'[n].tenant
                         /\ \A i \in m+1..n-1 : audit'[i].tenant # audit'[n].tenant
    BY <1>2 DEF AuditVerifies
  <2>1. CASE n \in 1..L
    <3> DEFINE m == audit[n].previous
    <3>1. /\ m \in 0..n-1
          /\ m # 0 => audit[m].tenant = audit[n].tenant
          /\ \A i \in m+1..n-1 : audit[i].tenant # audit[n].tenant
      BY <1>2, <2>1 DEF AuditVerifies
    <3>2. audit'[n] = audit[n]
      BY <1>2, <2>1
    <3> HIDE DEF m
    <3>3. /\ m # 0 => audit'[m] = audit[m]
          /\ \A i \in m+1..n-1 : audit'[i] = audit[i]
      BY <1>2, <2>1, <3>1
    <3> QED BY <3>1, <3>2, <3>3 DEF m
  <2>2. CASE n = L + 1
    <3>1. LastOf(t) \in 0..L /\ IsLast(LastOf(t), t)
      BY LastIsLast
    <3> QED BY <1>2, <1>a, <2>2, <3>1 DEF IsLast
  <2> QED BY <1>2, <2>1, <2>2
<1> QED BY <1>2, <1>3, <1>4, <1>5 DEF e

-----------------------------------------------------------------------------
(* The tables stay well typed, and the trail accounts for them. *)

TablesOK ==
  /\ evidence \in [Items -> Contents \union {None}]
  /\ approvals \in [Approvals -> Rows]
  /\ uses \in [Approvals -> Actions \union {None}]
  /\ audit \in Seq(Events)
  /\ \A a \in Approvals : approvals[a] # NoRow =>
       /\ evidence[approvals[a].item] # None
       /\ approvals[a].tenant = TenantOf[evidence[approvals[a].item]]
       /\ approvals[a].approver = None <=> approvals[a].status = "pending"

Trail == HasLast /\ AuditVerifies

\* The first of the two parts of Accounted, and the second, for one approval.
DecisionOnTrail(a) ==
  approvals[a].status \in {"approved", "rejected"} =>
    \E n \in EventsOf(a, "approval.decide") :
      /\ audit[n].actor = approvals[a].approver
      /\ audit[n].note = approvals[a].status

UseOnTrail(a) ==
  IF uses[a] = None THEN EventsOf(a, "approval.workflow.consume") = {}
  ELSE \E n \in EventsOf(a, "approval.workflow.consume") :
         /\ audit[n].note = uses[a]
         /\ EventsOf(a, "approval.workflow.consume") = {n}

LEMMA AccountedByApproval ==
  Accounted <=> \A a \in Approvals : DecisionOnTrail(a) /\ UseOnTrail(a)
BY Zenon DEF Accounted, TrailAccountsForTables, Unrecorded, DecisionOnTrail, UseOnTrail

LEMMA AccountedNext ==
  (\A a \in Approvals : DecisionOnTrail(a)' /\ UseOnTrail(a)') => Accounted'
BY Zenon DEF Accounted, TrailAccountsForTables, Unrecorded, DecisionOnTrail, UseOnTrail

\* An event of another kind, or about another approval, leaves EventsOf alone.
LEMMA OtherEvents ==
  ASSUME audit \in Seq(Events), HasLast, AuditVerifies,
         NEW t \in Tenants, NEW what, NEW p \in People, NEW id, NEW note,
         Audit(t, what, p, id, note), Event(t, what, p, id, note) \in Events,
         NEW b, NEW kind, kind # what \/ b # id
  PROVE  EventsOf(b, kind)' = EventsOf(b, kind)
<1> DEFINE e == Event(t, what, p, id, note)
<1>1. e.action = what /\ e.id = id
  BY DEF Event
<1> HIDE DEF e
<1>2. /\ DOMAIN audit' = DOMAIN audit \union {Len(audit) + 1}
      /\ \A n \in DOMAIN audit : audit'[n] = audit[n]
      /\ audit'[Len(audit) + 1] = e
  BY Appending DEF e
<1>3. Len(audit) + 1 \notin DOMAIN audit
  OBVIOUS
<1> QED BY <1>1, <1>2, <1>3 DEF EventsOf

\* What was on the trail is still there.
LEMMA StillOnTrail ==
  ASSUME audit \in Seq(Events), HasLast, AuditVerifies,
         NEW t \in Tenants, NEW what, NEW p \in People, NEW id, NEW note,
         Audit(t, what, p, id, note), Event(t, what, p, id, note) \in Events,
         NEW b \in Approvals, approvals'[b] = approvals[b], DecisionOnTrail(b)
  PROVE  DecisionOnTrail(b)'
<1>1. \A n \in DOMAIN audit : n \in DOMAIN audit' /\ audit'[n] = audit[n]
  BY Appending
<1>2. \A n \in EventsOf(b, "approval.decide") :
        n \in EventsOf(b, "approval.decide")' /\ audit'[n] = audit[n]
  BY <1>1 DEF EventsOf
<1> QED BY <1>2 DEF DecisionOnTrail

LEMMA UseStillOnTrail ==
  ASSUME audit \in Seq(Events), HasLast, AuditVerifies,
         NEW t \in Tenants, NEW what, NEW p \in People, NEW id, NEW note,
         Audit(t, what, p, id, note), Event(t, what, p, id, note) \in Events,
         NEW b \in Approvals, uses'[b] = uses[b], UseOnTrail(b),
         what # "approval.workflow.consume" \/ b # id
  PROVE  UseOnTrail(b)'
<1>1. \A n \in DOMAIN audit : audit'[n] = audit[n]
  BY Appending
<1>2. EventsOf(b, "approval.workflow.consume")' = EventsOf(b, "approval.workflow.consume")
  BY OtherEvents
<1>3. \A n \in EventsOf(b, "approval.workflow.consume") : n \in DOMAIN audit
  BY DEF EventsOf
<1> QED BY <1>1, <1>2, <1>3 DEF UseOnTrail

LEMMA StoresKeeps ==
  ASSUME TablesOK, Trail, Accounted, NEW p \in People, NEW i \in Items,
         NEW k \in Contents, Stores(p, i, k)
  PROVE  TablesOK' /\ Trail' /\ Accounted'
<1>1. Event(TenantOf[k], "evidence.write", p, i, k) \in Events /\ TenantOf[k] \in Tenants
  <2>1. TenantOf[k] \in Tenants
    BY PayloadAssumption
  <2>2. LastOf(TenantOf[k]) \in Nat
    BY <2>1, LastIsLast DEF Trail, TablesOK
  <2> QED BY <2>1, <2>2 DEF Event, Events
<1>2. Audit(TenantOf[k], "evidence.write", p, i, k)
  BY DEF Stores
<1>3. audit' \in Seq(Events) /\ Trail'
  BY <1>1, <1>2, Appending DEF Trail, TablesOK
<1>4. /\ evidence' \in [Items -> Contents \union {None}]
      /\ \A j \in Items : evidence[j] # None => evidence'[j] = evidence[j]
  BY DEF Stores, TablesOK
<1>5. \A a \in Approvals : approvals[a] # NoRow => approvals[a].item \in Items
  BY RowFacts DEF TablesOK
<1>6. TablesOK'
  BY <1>3, <1>4, <1>5 DEF TablesOK, Stores
<1>7. ASSUME NEW a \in Approvals PROVE DecisionOnTrail(a)' /\ UseOnTrail(a)'
  <2>1. approvals'[a] = approvals[a] /\ uses'[a] = uses[a]
    BY DEF Stores
  <2>2. DecisionOnTrail(a) /\ UseOnTrail(a)
    BY AccountedByApproval
  <2> QED BY <1>1, <1>2, <2>1, <2>2, StillOnTrail, UseStillOnTrail DEF Trail, TablesOK
<1>8. Accounted'
  BY <1>7, AccountedNext
<1> QED BY <1>3, <1>6, <1>8

LEMMA AsksKeeps ==
  ASSUME TablesOK, Trail, Accounted, NEW p \in People, NEW i \in Items,
         NEW a \in Approvals, Asks(p, i, a)
  PROVE  TablesOK' /\ Trail' /\ Accounted'
<1> DEFINE t == TenantOf[evidence[i]]
           row == Request(p, i, a)
<1>1. t \in Tenants /\ evidence[i] # None
  BY PayloadAssumption DEF TablesOK, Asks
<1>2. Event(t, "approval.request", p, a, i) \in Events
  <2>1. LastOf(t) \in Nat
    BY <1>1, LastIsLast DEF Trail, TablesOK
  <2> QED BY <1>1, <2>1 DEF Event, Events
<1>3. Audit(t, "approval.request", p, a, i)
  BY DEF Asks
<1>4. audit' \in Seq(Events) /\ Trail'
  BY <1>1, <1>2, <1>3, Appending DEF Trail, TablesOK
<1>5. /\ row \in Rows /\ row.item = i /\ row.tenant = t
      /\ row.status = "pending" /\ row.approver = None
  BY <1>1 DEF Request, Rows, Statuses
<1>6. /\ approvals' \in [Approvals -> Rows] /\ approvals'[a] = row
      /\ \A b \in Approvals : b # a => approvals'[b] = approvals[b]
  BY <1>5 DEF Asks, TablesOK
<1> HIDE DEF row
<1>7. TablesOK'
  BY <1>1, <1>4, <1>5, <1>6 DEF TablesOK, Asks
<1>8. ASSUME NEW b \in Approvals PROVE DecisionOnTrail(b)' /\ UseOnTrail(b)'
  <2>1. DecisionOnTrail(b) /\ UseOnTrail(b) /\ uses'[b] = uses[b]
    BY AccountedByApproval DEF Asks
  <2>2. UseOnTrail(b)'
    BY <1>1, <1>2, <1>3, <2>1, UseStillOnTrail DEF Trail, TablesOK
  <2>3. DecisionOnTrail(b)'
    <3>1. CASE b = a
      BY <1>5, <1>6, <3>1 DEF DecisionOnTrail
    <3>2. CASE b # a
      BY <1>1, <1>2, <1>3, <1>6, <2>1, <3>2, StillOnTrail DEF Trail, TablesOK
    <3> QED BY <3>1, <3>2
  <2> QED BY <2>2, <2>3
<1>9. Accounted'
  BY <1>8, AccountedNext
<1> QED BY <1>4, <1>7, <1>9

LEMMA DecidesKeeps ==
  ASSUME TablesOK, Trail, Accounted, NEW p \in People, NEW a \in Approvals,
         NEW d \in {"approved", "rejected"}, Decides(p, a, d)
  PROVE  TablesOK' /\ Trail' /\ Accounted'
<1> DEFINE row == approvals[a]
           t == row.tenant
           new == [row EXCEPT !.status = d, !.approver = p]
<1>1. /\ row # NoRow /\ t \in Tenants
      /\ row \in [tenant: Tenants, item: Items, requester: People,
                  status: Statuses, approver: People \union {None}]
  BY RowFacts DEF Decides, TablesOK
<1>2. Event(t, "approval.decide", p, a, d) \in Events
  <2>1. LastOf(t) \in Nat
    BY <1>1, LastIsLast DEF Trail, TablesOK
  <2> QED BY <1>1, <2>1 DEF Event, Events
<1>3. Audit(t, "approval.decide", p, a, d)
  BY DEF Decides
<1>4. audit' \in Seq(Events) /\ Trail'
  BY <1>1, <1>2, <1>3, Appending DEF Trail, TablesOK
<1>5. /\ new \in Rows /\ new.item = row.item /\ new.tenant = t
      /\ new.status = d /\ new.approver = p /\ p # None
  BY <1>1, NoneAssumption DEF Rows, Statuses
<1>6. /\ approvals' \in [Approvals -> Rows]
      /\ approvals'[a] = IF StillPending(a) THEN new ELSE row
      /\ \A b \in Approvals : b # a => approvals'[b] = approvals[b]
  BY <1>5 DEF Decides, TablesOK
<1>e. /\ audit'[Len(audit) + 1] = Event(t, "approval.decide", p, a, d)
      /\ Len(audit) + 1 \in DOMAIN audit'
  BY <1>1, <1>2, <1>3, Appending DEF Trail, TablesOK
<1> HIDE DEF new
<1>7. TablesOK'
  BY <1>1, <1>4, <1>5, <1>6 DEF TablesOK, Decides
<1>8. ASSUME NEW b \in Approvals PROVE DecisionOnTrail(b)' /\ UseOnTrail(b)'
  <2>1. DecisionOnTrail(b) /\ UseOnTrail(b) /\ uses'[b] = uses[b]
    BY AccountedByApproval DEF Decides
  <2>2. UseOnTrail(b)'
    BY <1>1, <1>2, <1>3, <2>1, UseStillOnTrail DEF Trail, TablesOK
  <2>3. DecisionOnTrail(b)'
    <3>1. CASE b = a /\ StillPending(a)
      <4>1. approvals'[b].approver = p /\ approvals'[b].status = d
        BY <1>5, <1>6, <3>1
      <4>2. Len(audit) + 1 \in EventsOf(b, "approval.decide")'
        BY <1>e, <3>1 DEF EventsOf, Event
      <4>3. audit'[Len(audit) + 1].actor = p /\ audit'[Len(audit) + 1].note = d
        BY <1>e DEF Event
      <4> QED BY <4>1, <4>2, <4>3 DEF DecisionOnTrail
    <3>2. CASE b # a \/ ~StillPending(a)
      BY <1>1, <1>2, <1>3, <1>6, <2>1, <3>2, StillOnTrail DEF Trail, TablesOK
    <3> QED BY <3>1, <3>2
  <2> QED BY <2>2, <2>3
<1>9. Accounted'
  BY <1>8, AccountedNext
<1> QED BY <1>4, <1>7, <1>9

LEMMA UsesKeeps ==
  ASSUME TablesOK, Trail, Accounted, NEW p \in People, NEW a \in Approvals,
         NEW x \in Actions, Uses(p, a, x)
  PROVE  TablesOK' /\ Trail' /\ Accounted'
<1> DEFINE t == approvals[a].tenant
<1>1. t \in Tenants
  BY RowFacts DEF Uses, IndependentlyApproved, TablesOK
<1>2. Event(t, "approval.workflow.consume", p, a, x) \in Events
  <2>1. LastOf(t) \in Nat
    BY <1>1, LastIsLast DEF Trail, TablesOK
  <2> QED BY <1>1, <2>1 DEF Event, Events
<1>3. Audit(t, "approval.workflow.consume", p, a, x)
  BY DEF Uses
<1>4. audit' \in Seq(Events) /\ Trail'
  BY <1>1, <1>2, <1>3, Appending DEF Trail, TablesOK
<1>5. /\ uses' \in [Approvals -> Actions \union {None}] /\ uses'[a] = x /\ x # None
      /\ \A b \in Approvals : b # a => uses'[b] = uses[b]
  BY NoneAssumption DEF Uses, TablesOK
<1>6. TablesOK'
  BY <1>4, <1>5 DEF TablesOK, Uses
<1> HIDE DEF t
<1>7. /\ audit'[Len(audit) + 1] = Event(t, "approval.workflow.consume", p, a, x)
      /\ DOMAIN audit' = DOMAIN audit \union {Len(audit) + 1}
      /\ \A n \in DOMAIN audit : audit'[n] = audit[n]
  <2>1. audit \in Seq(Events) /\ HasLast /\ AuditVerifies
    BY DEF Trail, TablesOK
  <2> QED BY <1>1, <1>2, <1>3, <2>1, Appending, Zenon
<1> DEFINE L == Len(audit)
<1> HIDE DEF L
<1>8. ASSUME NEW b \in Approvals PROVE DecisionOnTrail(b)' /\ UseOnTrail(b)'
  <2>1. DecisionOnTrail(b) /\ UseOnTrail(b) /\ approvals'[b] = approvals[b]
    BY AccountedByApproval DEF Uses
  <2>2. DecisionOnTrail(b)'
    BY <1>1, <1>2, <1>3, <2>1, StillOnTrail DEF Trail, TablesOK
  <2>3. CASE b = a
    <3>1. EventsOf(a, "approval.workflow.consume") = {}
      BY <2>1, <2>3 DEF UseOnTrail, Uses
    <3>2. EventsOf(a, "approval.workflow.consume")' = {L + 1}
      BY <1>7, <3>1 DEF EventsOf, Event, L
    <3>3. audit'[L + 1].note = x
      BY <1>7 DEF Event, L
    <3>4. \E n \in EventsOf(a, "approval.workflow.consume")' :
            /\ audit'[n].note = uses'[a]
            /\ EventsOf(a, "approval.workflow.consume")' = {n}
      BY <1>5, <3>2, <3>3
    <3>5. UseOnTrail(a)'
      BY <1>5, <3>4 DEF UseOnTrail
    <3> QED BY <2>2, <2>3, <3>5
  <2>4. CASE b # a
    BY <1>1, <1>2, <1>3, <1>5, <2>1, <2>2, <2>4, UseStillOnTrail DEF Trail, TablesOK
  <2> QED BY <2>3, <2>4
<1>9. Accounted'
  BY <1>8, AccountedNext
<1> QED BY <1>4, <1>6, <1>9

LEMMA TablesKeep ==
  ASSUME TablesOK, Trail, Accounted, TableStep
  PROVE  TablesOK' /\ Trail' /\ Accounted'
<1>1. CASE UNCHANGED tables
  <2>1. TablesOK'
    BY <1>1 DEF tables, TablesOK
  <2>2. Trail'
    BY <1>1 DEF tables, Trail, HasLast, IsLast, AuditVerifies
  <2>3. Accounted'
    BY <1>1 DEF tables, Accounted, TrailAccountsForTables, Unrecorded, EventsOf
  <2> QED BY <2>1, <2>2, <2>3
<1> QED BY <1>1, StoresKeeps, AsksKeeps, DecidesKeeps, UsesKeeps DEF TableStep

-----------------------------------------------------------------------------
(* The calls. *)

\* What AnsweredIsKept and VerifiedWasApproved say of one call.
Stored(m) == m.answer = "stored" => evidence[m.item] = m.content
Verified(m) ==
  m.answer = "verified" =>
    LET row == approvals[m.id]
    IN /\ row.status = "approved" /\ row.approver # row.requester
       /\ Bears[evidence[row.item]] = m.action
       /\ uses[m.id] = m.action

\* All that is known of a call.
Fine(m) == m \in CallType /\ CallOK(m) /\ Stored(m) /\ Verified(m)

CallsFine == call \in [Callers -> CallType] /\ \A c \in Callers : Fine(call[c])

\* What is known of a call stays true while others go on.
LEMMA StaysFine ==
  ASSUME TablesOK, TablesOK', Kept, NEW m, Fine(m)
  PROVE  Fine(m)'
<1>1. CallOK(m)'
  BY DEF Fine, CallOK, Kept
<1>2. Stored(m)'
  BY NoneAssumption DEF Fine, CallOK, Stored, Kept
<1>3. Verified(m)'
  <2> SUFFICES ASSUME m.answer = "verified" PROVE Verified(m)'
    BY DEF Verified
  <2> DEFINE row == approvals[m.id]
  <2>1. /\ m.id \in Approvals /\ m.action \in Actions /\ m.action # None
        /\ row.status = "approved" /\ row.approver # row.requester
        /\ Bears[evidence[row.item]] = m.action /\ uses[m.id] = m.action
    BY NoneAssumption DEF Fine, CallOK, Verified
  <2>2. row # NoRow /\ row.item \in Items /\ evidence[row.item] # None
    BY <2>1, RowFacts DEF TablesOK
  <2>3. approvals'[m.id] = row /\ uses'[m.id] = uses[m.id]
        /\ evidence'[row.item] = evidence[row.item]
    BY <2>1, <2>2 DEF Kept
  <2> QED BY <2>1, <2>3 DEF Verified
<1> QED BY <1>1, <1>2, <1>3 DEF Fine

LEMMA RefusedIsFine ==
  Fine([NoCall EXCEPT !.answer = "refused"]) /\ Fine(NoCall)
BY RowFacts DEF Fine, NoCall, CallType, CallOK, Stored, Verified

\* A step of one call.
LEMMA CallsStayFine ==
  ASSUME TablesOK, TablesOK', Kept, CallsFine, NEW c \in Callers, NEW m,
         Fine(m)', Goto(c, m)
  PROVE  CallsFine'
<1>1. /\ call' \in [Callers -> CallType]
      /\ call'[c] = m /\ \A d \in Callers : d # c => call'[d] = call[d]
  BY DEF Goto, CallsFine, Fine
<1>2. ASSUME NEW d \in Callers PROVE Fine(call[d])'
  <2>1. CASE d = c
    BY <1>1, <2>1 DEF Fine, CallOK, Stored, Verified
  <2>2. CASE d # c
    <3>1. PICK k : k = call[d]
      OBVIOUS
    <3>2. Fine(k)'
      BY <3>1, StaysFine DEF CallsFine
    <3>3. call'[d] = k
      BY <1>1, <2>2, <3>1
    <3> QED BY <3>2, <3>3 DEF Fine, CallOK, Stored, Verified
  <2> QED BY <2>1, <2>2
<1> QED BY <1>1, <1>2 DEF CallsFine

\* Whatever a caller does.
LEMMA StepFine ==
  ASSUME TablesOK, TablesOK', Kept, CallsFine, NEW c \in Callers, CallStep(c)
  PROVE  CallsFine'
<1> DEFINE refused == [NoCall EXCEPT !.answer = "refused"]
<1>r. ASSUME Refused(c) PROVE CallsFine'
  <2>1. Fine(refused)'
    BY RefusedIsFine, StaysFine
  <2> QED BY <1>r, <2>1, CallsStayFine DEF Refused
<1>c. Fine(call[c]) /\ call[c] \in CallType
  BY DEF CallsFine, Fine
<1>1. CASE PutRead(c)
  <2>1. CASE Refused(c)
    BY <2>1, <1>r
  <2>2. CASE ~Refused(c)
    <3>1. PICK p \in People, i \in Items, k \in Contents :
            /\ evidence[i] \in {None, k}
            /\ Goto(c, [NoCall EXCEPT
                 !.pc = IF evidence[i] = k THEN "idle" ELSE "inserting",
                 !.answer = IF evidence[i] = k THEN "stored" ELSE "none",
                 !.by = p, !.item = i, !.content = k])
      BY <1>1, <2>2 DEF PutRead
    <3> DEFINE m == [NoCall EXCEPT
                 !.pc = IF evidence[i] = k THEN "idle" ELSE "inserting",
                 !.answer = IF evidence[i] = k THEN "stored" ELSE "none",
                 !.by = p, !.item = i, !.content = k]
    <3>2. /\ m \in CallType /\ m.by = p /\ m.item = i /\ m.content = k
          /\ m.pc = IF evidence[i] = k THEN "idle" ELSE "inserting"
          /\ m.answer = IF evidence[i] = k THEN "stored" ELSE "none"
      BY RowFacts DEF NoCall, CallType
    <3>3. Goto(c, m)
      BY <3>1
    <3> HIDE DEF m
    <3>4. Fine(m)
      BY <3>2 DEF Fine, CallOK, Stored, Verified
    <3> QED BY <3>3, <3>4, StaysFine, CallsStayFine
  <2> QED BY <2>1, <2>2
<1>2. CASE PutInsert(c)
  <2>1. CASE Refused(c)
    BY <2>1, <1>r
  <2>2. CASE ~Refused(c)
    <3> DEFINE m == [call[c] EXCEPT !.pc = "idle", !.answer = "stored"]
    <3>1. /\ call[c].by \in People /\ call[c].item \in Items
          /\ call[c].content \in Contents
      BY <1>2, <1>c DEF PutInsert, Fine, CallOK
    <3>2. evidence'[call[c].item] = call[c].content /\ Goto(c, m)
      BY <1>2, <2>2, <3>1 DEF PutInsert, Return, TablesOK
    <3>3. /\ m \in CallType /\ m.by = call[c].by /\ m.item = call[c].item
          /\ m.content = call[c].content /\ m.pc = "idle" /\ m.answer = "stored"
      BY <1>c DEF CallType
    <3> HIDE DEF m
    <3>4. PICK k : k = m
      OBVIOUS
    <3>5. Fine(k)'
      BY <3>1, <3>2, <3>3, <3>4 DEF Fine, CallOK, Stored, Verified
    <3> QED BY <3>2, <3>4, <3>5, CallsStayFine
  <2> QED BY <2>1, <2>2
<1>3. CASE RequestApproval(c)
  <2>1. CASE Refused(c)
    BY <2>1, <1>r
  <2>2. CASE ~Refused(c)
    <3>1. PICK p \in People, a \in Approvals :
            Goto(c, [NoCall EXCEPT !.by = p, !.id = a, !.answer = "requested"])
      BY <1>3, <2>2 DEF RequestApproval
    <3>2. Fine([NoCall EXCEPT !.by = p, !.id = a, !.answer = "requested"])
      BY RowFacts DEF Fine, NoCall, CallType, CallOK, Stored, Verified
    <3> QED BY <3>1, <3>2, StaysFine, CallsStayFine
  <2> QED BY <2>1, <2>2
<1>4. CASE DecideRead(c)
  <2>1. CASE Refused(c)
    BY <2>1, <1>r
  <2>2. CASE ~Refused(c)
    <3>1. PICK p \in People, a \in Approvals, d \in {"approved", "rejected"} :
            /\ approvals[a].status = "pending" /\ approvals[a].requester # p
            /\ Goto(c, [NoCall EXCEPT !.pc = "deciding", !.by = p, !.id = a,
                                      !.decision = d])
      BY <1>4, <2>2 DEF DecideRead
    <3>2. approvals[a] # NoRow
      BY <3>1, RowFacts
    <3>3. Fine([NoCall EXCEPT !.pc = "deciding", !.by = p, !.id = a,
                              !.decision = d])
      BY <3>1, <3>2, RowFacts DEF Fine, NoCall, CallType, CallOK, Stored, Verified
    <3> QED BY <3>1, <3>3, StaysFine, CallsStayFine
  <2> QED BY <2>1, <2>2
<1>5. CASE DecideWrite(c)
  <2> DEFINE m == [call[c] EXCEPT !.pc = "idle", !.answer = "decided"]
  <2>1. Goto(c, m)
    BY <1>5 DEF DecideWrite, Return
  <2>2. m \in CallType /\ m.pc = "idle" /\ m.answer = "decided"
    BY <1>c DEF CallType
  <2> HIDE DEF m
  <2>3. Fine(m)
    BY <2>2 DEF Fine, CallOK, Stored, Verified
  <2> QED BY <2>1, <2>3, StaysFine, CallsStayFine
<1>6. CASE VerifyRead(c)
  <2>1. CASE Refused(c)
    BY <2>1, <1>r
  <2>2. CASE ~Refused(c)
    <3>1. PICK p \in People, a \in Approvals, x \in Actions :
            /\ IndependentlyApproved(approvals[a])
            /\ Goto(c, [NoCall EXCEPT !.pc = "consuming", !.by = p, !.id = a,
                                      !.action = x, !.seen = approvals[a]])
      BY <1>6, <2>2 DEF VerifyRead
    <3> DEFINE m == [NoCall EXCEPT !.pc = "consuming", !.by = p, !.id = a,
                                   !.action = x, !.seen = approvals[a]]
    <3>2. /\ m \in CallType /\ m.pc = "consuming" /\ m.by = p /\ m.id = a
          /\ m.action = x /\ m.seen = approvals[a] /\ m.answer = "none"
      BY DEF NoCall, CallType, TablesOK
    <3>3. Goto(c, m)
      BY <3>1
    <3> HIDE DEF m
    <3>4. Fine(m)
      BY <3>1, <3>2 DEF Fine, CallOK, Stored, Verified
    <3> QED BY <3>3, <3>4, StaysFine, CallsStayFine
  <2> QED BY <2>1, <2>2
<1>7. CASE Consume(c)
  <2>1. CASE Refused(c)
    BY <2>1, <1>r
  <2>2. CASE ~Refused(c)
    <3> DEFINE m == [call[c] EXCEPT !.pc = "idle", !.answer = "verified"]
               a == call[c].id
               x == call[c].action
    <3>1. a \in Approvals /\ x \in Actions /\ call[c].by \in People
          /\ IndependentlyApproved(call[c].seen)
      BY <1>7, <1>c DEF Consume, Fine, CallOK
    <3>2. /\ approvals[a] = call[c].seen /\ Bears[evidence[approvals[a].item]] = x
          /\ uses'[a] = x /\ approvals' = approvals /\ evidence' = evidence
          /\ Goto(c, m)
      BY <1>7, <2>2, <3>1 DEF Consume, EvidenceBears, Unused, Return, TablesOK
    <3>3. /\ m \in CallType /\ m.by = call[c].by /\ m.id = a /\ m.action = x
          /\ m.pc = "idle" /\ m.answer = "verified"
      BY <1>c DEF CallType
    <3> HIDE DEF m
    <3>4. PICK k : k = m
      OBVIOUS
    <3>5. CallOK(k)' /\ Stored(k)'
      BY <3>1, <3>3, <3>4 DEF CallOK, Stored
    <3>6. Verified(k)'
      BY <3>1, <3>2, <3>3, <3>4 DEF Verified, IndependentlyApproved
    <3> QED BY <3>2, <3>3, <3>4, <3>5, <3>6, CallsStayFine DEF Fine
  <2> QED BY <2>1, <2>2
<1>8. CASE Fails(c)
  BY <1>8, <1>r DEF Fails
<1> QED BY <1>1, <1>2, <1>3, <1>4, <1>5, <1>6, <1>7, <1>8 DEF CallStep

-----------------------------------------------------------------------------
(* A step of the tables is a step of ApprovalLife, or none. *)

\* What an approval is asked for.
ActionOf(a) == IF approvals[a] = NoRow THEN None ELSE Bears[evidence[approvals[a].item]]

LEMMA LifeUnchanged ==
  ASSUME uses' = uses,
         \A a \in Approvals :
           /\ approvals'[a].status = approvals[a].status
           /\ ActionOf(a)' = ActionOf(a)
           /\ approvals'[a].requester = approvals[a].requester
           /\ approvals'[a].approver = approvals[a].approver
  PROVE  UNCHANGED Life!lifeVars
BY DEF Life!lifeVars, ActionOf

LEMMA SameAction ==
  ASSUME TablesOK, Kept, NEW a \in Approvals, approvals[a] # NoRow
  PROVE  ActionOf(a)' = ActionOf(a)
<1>1. approvals[a].item \in Items /\ evidence[approvals[a].item] # None
  BY RowFacts DEF TablesOK
<1> QED BY <1>1 DEF ActionOf, Kept

LEMMA AsksIsAsk ==
  ASSUME TablesOK, Kept, NEW p \in People, NEW i \in Items, NEW a \in Approvals,
         Asks(p, i, a)
  PROVE  Life!Next
<1> DEFINE x == Bears[evidence[i]]
           row == Request(p, i, a)
<1>1. x \in Actions \union {None}
  BY PayloadAssumption DEF Asks, TablesOK
<1>2. /\ row # NoRow /\ row.status = "pending" /\ row.item = i
      /\ row.requester = p /\ row.approver = None
  BY DEF Request, NoRow
<1>3. /\ approvals[a] = NoRow /\ approvals'[a] = row
      /\ evidence' = evidence /\ uses' = uses
      /\ \A b \in Approvals : b # a => approvals'[b] = approvals[b]
  BY DEF Asks, TablesOK
<1>4. NoRow.status = "none" /\ NoRow.approver = None
  BY RowFacts
<1> HIDE DEF row
<1>5. [b \in Approvals |-> approvals[b].status][a] = "none"
  BY <1>3, <1>4
<1>6. /\ [b \in Approvals |-> approvals'[b].status]
           = [[b \in Approvals |-> approvals[b].status] EXCEPT ![a] = "pending"]
      /\ [b \in Approvals |-> approvals'[b].requester]
           = [[b \in Approvals |-> approvals[b].requester] EXCEPT ![a] = p]
      /\ [b \in Approvals |-> approvals'[b].approver]
           = [b \in Approvals |-> approvals[b].approver]
  BY <1>2, <1>3, <1>4
<1>7. [b \in Approvals |-> ActionOf(b)]'
        = [[b \in Approvals |-> ActionOf(b)] EXCEPT ![a] = x]
  BY <1>2, <1>3 DEF ActionOf
<1> HIDE DEF x
<1>8. PICK y \in Actions \union {None} : y = x
  BY <1>1
<1>9. Life!Ask(a, p, y)
  BY <1>3, <1>5, <1>6, <1>7, <1>8 DEF Life!Ask, ActionOf
<1> QED BY <1>9 DEF Life!Next

LEMMA DecidesIsSettle ==
  ASSUME TablesOK, Kept, NEW p \in People, NEW a \in Approvals,
         NEW d \in {"approved", "rejected"}, Decides(p, a, d)
  PROVE  Life!Next \/ UNCHANGED Life!lifeVars
<1> DEFINE row == approvals[a]
           new == [row EXCEPT !.status = d, !.approver = p]
<1>0. evidence' = evidence /\ uses' = uses
  BY DEF Decides
<1>1. CASE ~StillPending(a)
  <2>1. approvals' = approvals
    BY <1>1 DEF Decides
  <2> QED BY <1>0, <2>1, LifeUnchanged DEF ActionOf
<1>2. CASE StillPending(a)
  <2>1. /\ row # NoRow /\ row.requester # p /\ row.status = "pending"
        /\ row \in [tenant: Tenants, item: Items, requester: People,
                    status: Statuses, approver: People \union {None}]
    BY <1>2, RowFacts DEF Decides, StillPending, TablesOK
  <2>2. new.status = d /\ new.approver = p /\ new.requester = row.requester
    BY <2>1
  <2>3. /\ approvals'[a] = new
        /\ \A b \in Approvals : b # a => approvals'[b] = approvals[b]
    BY <1>2 DEF Decides, TablesOK
  <2> HIDE DEF new
  <2>4. \A b \in Approvals : ActionOf(b)' = ActionOf(b)
    <3> SUFFICES ASSUME NEW b \in Approvals PROVE ActionOf(b)' = ActionOf(b)
      OBVIOUS
    <3>1. CASE b = a
      BY <2>1, <3>1, SameAction
    <3>2. CASE b # a
      BY <1>0, <2>3, <3>2 DEF ActionOf
    <3> QED BY <3>1, <3>2
  <2>5. /\ [b \in Approvals |-> approvals[b].status][a] = "pending"
        /\ [b \in Approvals |-> approvals[b].requester][a] # p
    BY <2>1
  <2>6. /\ [b \in Approvals |-> approvals'[b].status]
             = [[b \in Approvals |-> approvals[b].status] EXCEPT ![a] = d]
        /\ [b \in Approvals |-> approvals'[b].approver]
             = [[b \in Approvals |-> approvals[b].approver] EXCEPT ![a] = p]
        /\ [b \in Approvals |-> approvals'[b].requester]
             = [b \in Approvals |-> approvals[b].requester]
    BY <2>2, <2>3
  <2>7. Life!Settle(a, p, d)
    BY <1>0, <2>4, <2>5, <2>6 DEF Life!Settle, ActionOf
  <2> QED BY <2>7 DEF Life!Next
<1> QED BY <1>1, <1>2

LEMMA UsesIsUse ==
  ASSUME TablesOK, NEW p \in People, NEW a \in Approvals, NEW x \in Actions,
         Uses(p, a, x)
  PROVE  Life!Next
<1>1. /\ evidence' = evidence /\ approvals' = approvals
      /\ uses[a] = None /\ uses' = [uses EXCEPT ![a] = x] /\ x # None
      /\ approvals[a].status = "approved" /\ approvals[a] # NoRow
  BY NoneAssumption, RowFacts DEF Uses, IndependentlyApproved
<1>2. ActionOf(a) = x
  BY <1>1 DEF Uses, ActionOf
<1>3. Life!Use(a)
  BY <1>1, <1>2 DEF Life!Use, ActionOf
<1> QED BY <1>3 DEF Life!Next

LEMMA LifeStep ==
  ASSUME TablesOK, Kept, TableStep
  PROVE  Life!Next \/ UNCHANGED Life!lifeVars
<1>1. CASE UNCHANGED tables
  BY <1>1, LifeUnchanged DEF tables, ActionOf
<1>2. ASSUME NEW p \in People, NEW i \in Items, NEW k \in Contents, Stores(p, i, k)
      PROVE  UNCHANGED Life!lifeVars
  <2>1. approvals' = approvals /\ uses' = uses
    BY <1>2 DEF Stores
  <2>2. \A a \in Approvals : ActionOf(a)' = ActionOf(a)
    BY <2>1, SameAction DEF ActionOf
  <2> QED BY <2>1, <2>2, LifeUnchanged
<1> QED BY <1>1, <1>2, AsksIsAsk, DecidesIsSettle, UsesIsUse DEF TableStep

-----------------------------------------------------------------------------
(* The theorems. *)

\* The inductive invariant: the tables are well typed, an approval rests on evidence
\* that is there; every trail verifies and has a newest event; the trail accounts for
\* the tables; and what a call has read, or has been told, is so.
IInv ==
  /\ TablesOK /\ Trail /\ Accounted /\ CallsFine
  /\ grants \in [People -> Grants]
  /\ expired \subseteq Contents

LEMMA IInvImplies ==
  IInv => /\ TypeOK /\ CallsOK /\ AnsweredIsKept /\ VerifiedWasApproved
          /\ AuditVerifies /\ TrailAccountsForTables
<1> SUFFICES ASSUME IInv
             PROVE  /\ TypeOK /\ CallsOK /\ AnsweredIsKept /\ VerifiedWasApproved
                    /\ AuditVerifies /\ TrailAccountsForTables
  OBVIOUS
<1>1. TypeOK
  BY DEF IInv, TypeOK, TablesOK, CallsFine
<1>2. CallsOK
  BY DEF IInv, CallsFine, Fine, CallsOK
<1>3. AnsweredIsKept
  BY DEF IInv, CallsFine, Fine, Stored, AnsweredIsKept
<1>4. VerifiedWasApproved
  BY DEF IInv, CallsFine, Fine, Verified, VerifiedWasApproved
<1>5. AuditVerifies /\ TrailAccountsForTables
  BY DEF IInv, Trail, Accounted
<1> QED BY <1>1, <1>2, <1>3, <1>4, <1>5

LEMMA InitIInv == Init => IInv
<1> SUFFICES ASSUME Init PROVE IInv
  OBVIOUS
<1>1. audit = <<>> /\ Len(audit) = 0 /\ DOMAIN audit = {} /\ audit \in Seq(Events)
  BY DEF Init
<1>2. TablesOK
  BY <1>1, RowFacts DEF Init, TablesOK
<1>3. HasLast
  <2> SUFFICES ASSUME NEW t \in Tenants PROVE \E n \in 0..Len(audit) : IsLast(n, t)
    BY DEF HasLast
  <2>1. IsLast(0, t)
    BY <1>1 DEF IsLast
  <2> QED BY <1>1, <2>1
<1>4. AuditVerifies
  BY <1>1 DEF AuditVerifies
<1>5. Accounted
  <2>1. \A a \in Approvals : approvals[a].status = "none" /\ uses[a] = None
    BY RowFacts DEF Init
  <2>2. \A a, what : EventsOf(a, what) = {}
    BY <1>1 DEF EventsOf
  <2> QED BY <2>1, <2>2 DEF Accounted, TrailAccountsForTables, Unrecorded
<1>6. CallsFine
  BY RefusedIsFine DEF Init, CallsFine, Fine
<1> QED BY <1>2, <1>3, <1>4, <1>5, <1>6 DEF Init, IInv, Trail

LEMMA NextKeepsTables ==
  ASSUME IInv, [Next]_vars
  PROVE  TableStep /\ Kept /\ TablesOK' /\ Trail' /\ Accounted'
<1>1. TypeOK /\ CallsOK
  BY IInvImplies
<1>2. TableStep
  BY <1>1, TableSteps
<1>3. Kept
  BY <1>1, <1>2, TablesKept
<1>4. TablesOK' /\ Trail' /\ Accounted'
  BY <1>2, TablesKeep DEF IInv
<1> QED BY <1>2, <1>3, <1>4

LEMMA NextIInv ==
  ASSUME IInv, [Next]_vars
  PROVE  IInv'
<1>1. TablesOK' /\ Trail' /\ Accounted' /\ Kept
  BY NextKeepsTables
<1>2. ASSUME NEW c \in Callers, CallStep(c) PROVE IInv'
  <2>1. CallsFine'
    BY <1>1, <1>2, StepFine DEF IInv
  <2>2. UNCHANGED world
    BY <1>2 DEF CallStep, PutRead, PutInsert, RequestApproval, DecideRead, DecideWrite,
         VerifyRead, Consume, Fails
  <2> QED BY <1>1, <2>1, <2>2 DEF IInv, world
<1>3. ASSUME UNCHANGED call PROVE CallsFine'
  <2> SUFFICES ASSUME NEW c \in Callers PROVE Fine(call[c])'
    BY <1>3 DEF IInv, CallsFine
  <2>1. PICK m : m = call[c]
    OBVIOUS
  <2>2. Fine(m)'
    BY <1>1, <2>1, StaysFine DEF IInv, CallsFine
  <2> QED BY <1>3, <2>1, <2>2 DEF Fine, CallOK, Stored, Verified
<1>4. CASE Grant
  BY <1>1, <1>3, <1>4 DEF IInv, Grant
<1>5. CASE Expire
  BY <1>1, <1>3, <1>5 DEF IInv, Expire
<1>6. CASE UNCHANGED vars
  BY <1>1, <1>3, <1>6 DEF IInv, vars
<1> QED BY <1>2, <1>4, <1>5, <1>6 DEF Next

\* The invariant holds in every reachable state, whatever callers interleave.
THEOREM Invariance == Spec => []IInv
BY InitIInv, NextIInv, PTL DEF Spec

\* The variables have their types, and an approval rests on evidence of its tenant
\* that is there, whatever callers put, request and decide (EvidenceStore).
THEOREM TypeCorrect == Spec => []TypeOK
BY Invariance, IInvImplies, PTL

\* Whatever callers interleave, the trail of every tenant verifies (_audit links an
\* event to the newest one of its tenant under the write lock).
THEOREM TrailsVerify == Spec => []AuditVerifies
BY Invariance, IInvImplies, PTL

\* What put said it stored is stored and is never replaced (EvidenceStore.put).
THEOREM StoredIsKept == Spec => []AnsweredIsKept
BY Invariance, IInvImplies, PTL

\* A workflow is told yes only for the action that the approved evidence bears, and
\* that use is on record (workflow_approval_verifier).
THEOREM VerifiedApproved == Spec => []VerifiedWasApproved
BY Invariance, IInvImplies, PTL

\* The decision that stands is on the trail with who took it; a use is there exactly
\* once (decide_approval, _consume_workflow_approval).
THEOREM TrailAccounts == Spec => []TrailAccountsForTables
BY Invariance, IInvImplies, PTL

\* The store implements ApprovalLife: an approval is decided once, by another than
\* its requester, and used for one action.
THEOREM Implements == Spec => LifeSpec
<1>1. Init => Life!Init
  BY RowFacts DEF Init, Life!Init, NoRow
<1>2. IInv /\ [Next]_vars => [Life!Next]_Life!lifeVars
  BY NextKeepsTables, LifeStep DEF IInv
<1> QED BY <1>1, <1>2, Invariance, PTL DEF Spec, LifeSpec, Life!Spec

=============================================================================
