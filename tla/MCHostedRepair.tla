--------------------------- MODULE MCHostedRepair ---------------------------
(* A small instance of HostedRepair for TLC. *)
EXTENDS HostedRepair, TLC
Symmetry == Permutations(Workers) \cup Permutations(Repairs) \cup Permutations(Approvals)
=============================================================================
