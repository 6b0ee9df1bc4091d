---------------------------- MODULE ControlPlane ----------------------------
(***************************************************************************)
(* The evidence and approval store (factoryline/control_plane.py): tenant  *)
(* evidence that is written once, approval requests bound to it, their     *)
(* decisions, their consumption by a workflow, and the hash-linked audit   *)
(* trail of each tenant.                                                   *)
(*                                                                         *)
(* Callers are threads and processes on one SQLite file.  A SELECT outside *)
(* of a transaction is a step of its own; the first INSERT or UPDATE, or   *)
(* BEGIN IMMEDIATE, takes the write lock, and what follows up to the       *)
(* commit is one step.  Any call may fail with nothing written.  A caller  *)
(* is the principal the host resolves for it when it calls; roles are      *)
(* granted and taken away at any time.                                     *)
(***************************************************************************)
EXTENDS Sequences, Integers

CONSTANTS
  Callers,     \* threads and processes, one call at a time each
  People,      \* subjects
  Tenants,
  Items,       \* evidence ids
  Contents,    \* evidence payloads
  TenantOf,    \* the tenant_id of a payload
  Bears,       \* the phase_evidence of a workflow approval payload, or None
  Approvals,   \* approval ids, which uuid4 never repeats
  Actions,     \* what a workflow wants to be authorised
  Grants,      \* principals, records [tenant, roles]
  None

Roles == {"viewer", "operator", "approver", "admin", "platform_admin"}

ASSUME PayloadAssumption ==
  /\ TenantOf \in [Contents -> Tenants]
  /\ Bears \in [Contents -> Actions \union {None}]
ASSUME NoneAssumption ==
  None \notin Contents \union People \union Actions \union Tenants \union Items
ASSUME GrantAssumption ==
  Grants \subseteq [tenant: Tenants \union {"*"}, roles: SUBSET Roles]

VARIABLES
  evidence,    \* the payload stored under each id
  approvals,   \* the approvals table
  uses,        \* workflow_approval_uses: the action each approval was used for
  audit,       \* audit_events
  grants,      \* who holds which roles now
  expired,     \* payloads whose expires_at has passed
  call         \* the callers

vars == <<evidence, approvals, uses, audit, grants, expired, call>>
tables == <<evidence, approvals, uses, audit>>
world == <<grants, expired>>

-----------------------------------------------------------------------------
(* Authority. *)

RoleActions(role) ==
  CASE role = "viewer"   -> {"evidence.read"}
    [] role = "operator" -> {"evidence.read", "evidence.write", "approval.request"}
    [] role = "approver" -> {"evidence.read", "approval.decide"}
    [] OTHER -> {"evidence.read", "evidence.write", "approval.request",
                 "approval.decide"}

\* authorize
May(p, what, t) ==
  /\ \E role \in grants[p].roles : what \in RoleActions(role)
  /\ \/ grants[p].tenant = t
     \/ "platform_admin" \in grants[p].roles /\ grants[p].tenant = "*"

-----------------------------------------------------------------------------
(* The audit trail. *)

\* Mutation: the newest event of any tenant is taken for the predecessor.
LastOfAny(t) == Len(audit)

\* The newest event of tenant t, 0 for none.
LastOf(t) ==
  CHOOSE n \in 0..Len(audit) :
    /\ n # 0 => audit[n].tenant = t
    /\ \A i \in n+1..Len(audit) : audit[i].tenant # t

\* _audit, under the write lock of its transaction
Audit(t, what, p, id, note) ==
  audit' = Append(audit, [tenant |-> t, action |-> what, actor |-> p, id |-> id,
                          note |-> note, previous |-> LastOf(t)])

-----------------------------------------------------------------------------
(* Calls. *)

NoRow == [tenant |-> None, item |-> None, requester |-> None,
          status |-> "none", approver |-> None]

NoCall == [pc |-> "idle", by |-> None, item |-> None, content |-> None,
           id |-> None, decision |-> "none", action |-> None, seen |-> NoRow,
           answer |-> "none"]

Free(c) == call[c].pc = "idle"
Goto(c, new) == call' = [call EXCEPT ![c] = new]

\* A call returns, or raises, and is forgotten but for what it was told.
Return(c, answer) == Goto(c, [call[c] EXCEPT !.pc = "idle", !.answer = answer])
Refused(c) == Goto(c, [NoCall EXCEPT !.answer = "refused"])

\* "database is locked", or the process dies: the transaction leaves no trace.
Fails(c) ==
  /\ call[c].pc # "idle"
  /\ Refused(c)
  /\ UNCHANGED <<tables, world>>

\* Mutation: INSERT OR REPLACE.
Replaceable(i) == TRUE

\* Evidence is inserted under an id that is not taken.
Insertable(i) == evidence[i] = None

\* put, up to the INSERT
PutRead(c) ==
  /\ Free(c)
  /\ \E p \in People, i \in Items, k \in Contents :
       IF \/ ~May(p, "evidence.write", TenantOf[k])
          \/ evidence[i] \notin {None, k}
       THEN Refused(c)
       ELSE Goto(c, [NoCall EXCEPT
              !.pc = IF evidence[i] = k THEN "idle" ELSE "inserting",
              !.answer = IF evidence[i] = k THEN "stored" ELSE "none",
              !.by = p, !.item = i, !.content = k])
  /\ UNCHANGED <<tables, world>>

\* The INSERT fails when another caller has taken the id since.
PutInsert(c) ==
  /\ call[c].pc = "inserting"
  /\ LET i == call[c].item
         k == call[c].content
     IN IF Insertable(i)
        THEN /\ evidence' = [evidence EXCEPT ![i] = k]
             /\ Audit(TenantOf[k], "evidence.write", call[c].by, i, k)
             /\ Return(c, "stored")
        ELSE Refused(c) /\ UNCHANGED <<evidence, audit>>
  /\ UNCHANGED <<approvals, uses, world>>

\* request_approval: evidence that is there stays there.
RequestApproval(c) ==
  /\ Free(c)
  /\ \E p \in People, i \in Items, a \in Approvals :
       LET t == TenantOf[evidence[i]]
       IN /\ approvals[a] = NoRow
          /\ IF evidence[i] = None \/ ~May(p, "approval.request", t)
             THEN Refused(c) /\ UNCHANGED <<approvals, audit>>
             ELSE /\ approvals' = [approvals EXCEPT ![a] =
                       [tenant |-> t, item |-> i, requester |-> p,
                        status |-> "pending", approver |-> None]]
                  /\ Audit(t, "approval.request", p, a, i)
                  /\ Goto(c, [NoCall EXCEPT !.by = p, !.id = a,
                                            !.answer = "requested"])
  /\ UNCHANGED <<evidence, uses, world>>

\* decide_approval, up to the UPDATE
DecideRead(c) ==
  /\ Free(c)
  /\ \E p \in People, a \in Approvals, d \in {"approved", "rejected"} :
       IF \/ ~May(p, "approval.decide", approvals[a].tenant)
          \/ approvals[a].status # "pending"
          \/ approvals[a].requester = p
       THEN Refused(c)
       ELSE Goto(c, [NoCall EXCEPT !.pc = "deciding", !.by = p, !.id = a,
                                   !.decision = d])
  /\ UNCHANGED <<tables, world>>

\* Mutation: UPDATE without AND status = 'pending'.
Present(a) == approvals[a] # NoRow

\* UPDATE ... AND status = 'pending' finds the row, or does nothing.
StillPending(a) == approvals[a].status = "pending"

\* The event is written whether or not the UPDATE found the row.
DecideWrite(c) ==
  /\ call[c].pc = "deciding"
  /\ LET a == call[c].id
     IN /\ approvals' = IF StillPending(a)
                        THEN [approvals EXCEPT ![a].status = call[c].decision,
                                               ![a].approver = call[c].by]
                        ELSE approvals
        /\ Audit(approvals[a].tenant, "approval.decide", call[c].by, a,
                 call[c].decision)
        /\ Return(c, "decided")
  /\ UNCHANGED <<evidence, uses, world>>

\* The first check of _workflow_approver
IndependentlyApproved(row) ==
  row.status = "approved" /\ row.approver # row.requester

\* The verifier of workflow_approval_verifier up to BEGIN IMMEDIATE: the approval
\* is read, and its approver's roles are resolved as they are now.
VerifyRead(c) ==
  /\ Free(c)
  /\ \E p \in People, a \in Approvals, x \in Actions, own \in BOOLEAN :
       LET row == approvals[a]
       IN IF \/ ~May(p, "evidence.read", row.tenant)
             \/ own /\ row.requester # p
             \/ ~IndependentlyApproved(row)
             \/ ~May(row.approver, "approval.decide", row.tenant)
          THEN Refused(c)
          ELSE Goto(c, [NoCall EXCEPT !.pc = "consuming", !.by = p, !.id = a,
                                      !.action = x, !.seen = row])
  /\ UNCHANGED <<tables, world>>

\* Mutation: the evidence is not compared with the action.
AnyEvidence(k, x) == k \notin expired

\* _workflow_approval_evidence
EvidenceBears(k, x) == Bears[k] = x /\ k \notin expired

\* Mutation: an exact retry is recorded as another use.
NeverUsed(a) == TRUE

\* There is no row for the approval in workflow_approval_uses.
Unused(a) == uses[a] = None

\* _consume_workflow_approval
Consume(c) ==
  /\ call[c].pc = "consuming"
  /\ LET a == call[c].id
         x == call[c].action
     IN IF \/ approvals[a] # call[c].seen
           \/ ~EvidenceBears(evidence[call[c].seen.item], x)
           \/ ~Unused(a) /\ uses[a] # x
        THEN Refused(c) /\ UNCHANGED <<uses, audit>>
        ELSE /\ Return(c, "verified")
             /\ IF Unused(a)
                THEN /\ uses' = [uses EXCEPT ![a] = x]
                     /\ Audit(approvals[a].tenant, "approval.workflow.consume",
                              call[c].by, a, x)
                ELSE UNCHANGED <<uses, audit>>
  /\ UNCHANGED <<evidence, approvals, world>>

-----------------------------------------------------------------------------
(* The surroundings. *)

Grant ==
  /\ \E p \in People, g \in Grants : grants' = [grants EXCEPT ![p] = g]
  /\ UNCHANGED <<tables, expired, call>>

Expire ==
  /\ \E k \in Contents : expired' = expired \union {k}
  /\ UNCHANGED <<tables, grants, call>>

-----------------------------------------------------------------------------
Init ==
  /\ evidence = [i \in Items |-> None]
  /\ approvals = [a \in Approvals |-> NoRow]
  /\ uses = [a \in Approvals |-> None]
  /\ audit = <<>>
  /\ grants \in [People -> Grants]
  /\ expired = {}
  /\ call = [c \in Callers |-> NoCall]

CallStep(c) ==
  \/ PutRead(c) \/ PutInsert(c) \/ RequestApproval(c) \/ DecideRead(c)
  \/ DecideWrite(c) \/ VerifyRead(c) \/ Consume(c) \/ Fails(c)

Next == (\E c \in Callers : CallStep(c)) \/ Grant \/ Expire

Spec == Init /\ [][Next]_vars

-----------------------------------------------------------------------------
(* Properties. *)

Statuses == {"pending", "approved", "rejected"}
Rows ==
  {NoRow} \union
  [tenant: Tenants, item: Items, requester: People, status: Statuses,
   approver: People \union {None}]

CallType ==
  [pc: {"idle", "inserting", "deciding", "consuming"}, by: People \union {None},
   item: Items \union {None}, content: Contents \union {None},
   id: Approvals \union {None},
   decision: {"none", "approved", "rejected"}, action: Actions \union {None},
   seen: Rows,
   answer: {"none", "refused", "stored", "requested", "decided", "verified"}]

Events ==
  [tenant: Tenants,
   action: {"evidence.write", "approval.request", "approval.decide",
            "approval.workflow.consume"},
   actor: People, id: Items \union Approvals,
   note: Contents \union Items \union {"approved", "rejected"} \union Actions,
   previous: Nat]

\* The types of the variables; an approval rests on evidence that is there and of
\* its tenant, and has an approver exactly when it is decided.
TypeOK ==
  /\ evidence \in [Items -> Contents \union {None}]
  /\ approvals \in [Approvals -> Rows]
  /\ uses \in [Approvals -> Actions \union {None}]
  /\ audit \in Seq(Events)
  /\ grants \in [People -> Grants]
  /\ expired \subseteq Contents
  /\ call \in [Callers -> CallType]
  /\ \A a \in Approvals : approvals[a] # NoRow =>
       /\ evidence[approvals[a].item] # None
       /\ approvals[a].tenant = TenantOf[evidence[approvals[a].item]]
       /\ approvals[a].approver = None <=> approvals[a].status = "pending"

\* The trail of every tenant verifies at any time, whoever writes to it and to the
\* trails of others meanwhile (verify_audit).
AuditVerifies ==
  \A n \in DOMAIN audit :
    LET m == audit[n].previous
    IN /\ m \in 0..n-1
       /\ m # 0 => audit[m].tenant = audit[n].tenant
       /\ \A i \in m+1..n-1 : audit[i].tenant # audit[n].tenant

\* Evidence that a caller was told is stored is what the store holds under that id,
\* however many callers write that id at once ("Persist immutable tenant evidence",
\* put).
AnsweredIsKept ==
  \A c \in Callers : call[c].answer = "stored" => evidence[call[c].item] = call[c].content

\* An action is verified only by an approval whose evidence bears that action, that
\* somebody other than its requester approved, and that is recorded as used for it
\* (workflow_approval_verifier).
VerifiedWasApproved ==
  \A c \in Callers : call[c].answer = "verified" =>
    LET row == approvals[call[c].id]
    IN /\ row.status = "approved" /\ row.approver # row.requester
       /\ Bears[evidence[row.item]] = call[c].action
       /\ uses[call[c].id] = call[c].action

\* Events of one kind about one approval
EventsOf(a, what) == {n \in DOMAIN audit : audit[n].action = what /\ audit[n].id = a}

\* The trail accounts for the tables: the decision that stands is in it, with who
\* took it, and an approval that was used has exactly one event that says for what,
\* however often it was verified.
TrailAccountsForTables ==
  \A a \in Approvals :
    /\ approvals[a].status \in {"approved", "rejected"} =>
         \E n \in EventsOf(a, "approval.decide") :
           /\ audit[n].actor = approvals[a].approver
           /\ audit[n].note = approvals[a].status
    /\ uses[a] # None =>
         \E n \in EventsOf(a, "approval.workflow.consume") :
           /\ audit[n].note = uses[a]
           /\ EventsOf(a, "approval.workflow.consume") = {n}

\* An approval is "one authorized, non-self terminal decision in the audit chain"
\* (control_plane.py:396).
OneDecisionIsRecorded ==
  \A a \in Approvals :
    \A m, n \in EventsOf(a, "approval.decide") : m = n

\* ApprovalLife: requested for one action, decided once and by another, used for
\* that action only.
Life == INSTANCE ApprovalLife WITH
  status <- [a \in Approvals |-> approvals[a].status],
  action <- [a \in Approvals |-> IF approvals[a] = NoRow THEN None
                                 ELSE Bears[evidence[approvals[a].item]]],
  requester <- [a \in Approvals |-> approvals[a].requester],
  approver <- [a \in Approvals |-> approvals[a].approver],
  used <- uses
LifeSpec == Life!Spec

=============================================================================
