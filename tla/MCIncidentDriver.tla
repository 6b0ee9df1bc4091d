-------------------------- MODULE MCIncidentDriver --------------------------
(* A small instance of IncidentDriver for TLC. *)
EXTENDS IncidentDriver, TLC

CONSTANTS MaxEpoch,   \* bound: epochs explored
          MaxEvents   \* bound: events explored

Source(rev, state) == [rev |-> rev, state |-> state]
\* An older and a newer revision, and another content of the newer one.
MCSources == {Source(1, "open"), Source(2, "open"), Source(2, "closed")}
MCWorkPhases == <<"triage", "planning">>
MCIncidentPhases == <<"detect", "investigate">>

Bounded ==
  /\ item # None => item.epoch <= MaxEpoch
  /\ Cardinality(ingress) <= MaxEvents

Symmetry == Permutations(Workers) \cup Permutations(Owners) \cup Permutations(Events)
=============================================================================
