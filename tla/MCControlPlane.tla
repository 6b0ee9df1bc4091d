--------------------------- MODULE MCControlPlane ---------------------------
(* Small instances of ControlPlane for TLC. *)
EXTENDS ControlPlane, FiniteSets, TLC

CONSTANTS t1, t2, k1, k2, x1, x2, MaxEvents

MCTenantOf == (k1 :> t1) @@ (k2 :> t2)
MCBears == (k1 :> x1) @@ (k2 :> x2)

\* One principal for every role that matters here, in a tenant or above them.
Operator == [tenant |-> t1, roles |-> {"operator"}]
Approver == [tenant |-> t1, roles |-> {"approver"}]
Platform == [tenant |-> "*", roles |-> {"platform_admin"}]
EveryRole == {Operator, Approver, Platform}

Symmetry ==
  Permutations(Callers) \union Permutations(People) \union Permutations(Items)

\* The trails are as long as MaxEvents together, and two events shorter when a
\* second payload was stored.
Stored == {i \in Items : evidence[i] # None}
Short == Len(audit) + 2 * (Cardinality(Stored) - 1) <= MaxEvents
=============================================================================
