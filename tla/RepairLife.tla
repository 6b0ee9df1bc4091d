----------------------------- MODULE RepairLife -----------------------------
(***************************************************************************)
(* What the hosted control plane promises of registered repairs: each is   *)
(* dispatched once and settled once, each approval is executed once by     *)
(* whoever comes first, and a repair is completed only by an execution of  *)
(* its own that was verified.                                              *)
(***************************************************************************)
CONSTANTS Repairs, Approvals, None

VARIABLES
  status,    \* of the repairs
  use,       \* of the approvals: was one begun, has it ended verified?
  by         \* the repair that used an approval; None if it was nobody's

vars == <<status, use, by>>

Init ==
  /\ status = [r \in Repairs |-> "none"]
  /\ use = [a \in Approvals |-> "unused"]
  /\ by = [a \in Approvals |-> None]

Moves(r, from, to) == status[r] = from /\ status' = [status EXCEPT ![r] = to]

Register(r) == Moves(r, "none", "registered") /\ UNCHANGED <<use, by>>
Dispatch(r) == Moves(r, "registered", "executing") /\ UNCHANGED <<use, by>>

Begin(a) ==
  /\ use[a] = "unused"
  /\ use' = [use EXCEPT ![a] = "begun"]
  /\ \E r \in {x \in Repairs : status[x] = "executing"} \cup {None} :
       by' = [by EXCEPT ![a] = r]
  /\ UNCHANGED status

Verify(a) ==
  /\ use[a] = "begun"
  /\ use' = [use EXCEPT ![a] = "verified"]
  /\ UNCHANGED <<status, by>>

Complete(r) ==
  /\ \E a \in Approvals : by[a] = r /\ use[a] = "verified"
  /\ Moves(r, "executing", "completed")
  /\ UNCHANGED <<use, by>>
Fail(r) == Moves(r, "executing", "failed") /\ UNCHANGED <<use, by>>

Next ==
  \/ \E r \in Repairs : Register(r) \/ Dispatch(r) \/ Complete(r) \/ Fail(r)
  \/ \E a \in Approvals : Begin(a) \/ Verify(a)

Spec == Init /\ [][Next]_vars
=============================================================================
