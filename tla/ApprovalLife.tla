---------------------------- MODULE ApprovalLife ----------------------------
(***************************************************************************)
(* What an approval promises, with the database, its transactions and the  *)
(* audit trail left out: it is requested for one action, decided once and  *)
(* by somebody other than its requester, and then authorises that action   *)
(* and no other.  ControlPlane.tla implements it.                          *)
(***************************************************************************)
CONSTANTS Approvals,   \* approval requests, by id
          People,      \* subjects
          Actions,     \* what an approval may authorise
          None         \* no action, nobody

VARIABLES status,      \* "none", "pending", "approved", "rejected"
          action,      \* what an approval is asked for
          requester,   \* who asked
          approver,    \* who decided
          used         \* the action it has authorised

lifeVars == <<status, action, requester, approver, used>>

Init ==
  /\ status = [a \in Approvals |-> "none"]
  /\ action = [a \in Approvals |-> None]
  /\ requester = [a \in Approvals |-> None]
  /\ approver = [a \in Approvals |-> None]
  /\ used = [a \in Approvals |-> None]

\* Evidence that is no workflow approval is asked for, too: for no action.
Ask(a, p, x) ==
  /\ status[a] = "none"
  /\ status' = [status EXCEPT ![a] = "pending"]
  /\ action' = [action EXCEPT ![a] = x]
  /\ requester' = [requester EXCEPT ![a] = p]
  /\ UNCHANGED <<approver, used>>

Settle(a, p, d) ==
  /\ status[a] = "pending" /\ requester[a] # p
  /\ status' = [status EXCEPT ![a] = d]
  /\ approver' = [approver EXCEPT ![a] = p]
  /\ UNCHANGED <<action, requester, used>>

Use(a) ==
  /\ status[a] = "approved" /\ used[a] = None /\ action[a] # None
  /\ used' = [used EXCEPT ![a] = action[a]]
  /\ UNCHANGED <<status, action, requester, approver>>

Next ==
  \E a \in Approvals :
    \/ \E p \in People, x \in Actions \union {None} : Ask(a, p, x)
    \/ \E p \in People, d \in {"approved", "rejected"} : Settle(a, p, d)
    \/ Use(a)

Spec == Init /\ [][Next]_lifeVars
=============================================================================
