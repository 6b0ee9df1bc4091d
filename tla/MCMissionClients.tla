--------------------------- MODULE MCMissionClients ---------------------------
(* A small instance of MissionClients for TLC. *)
EXTENDS MissionClients

CONSTANTS c1, w    \* a candidate and a worker

MCAdvances == {}
MCBudget == [d \in Dims |-> 1]
MCSamples ==
  {[class |-> "measured", known |-> Dims, total |-> [d \in Dims |-> 1]]}
Intent(e, a, r) ==
  [event |-> e, actor |-> a, receipt |-> r, criterion |-> NoCriterion]
\* Among them: an event that closes its own source state, one that ends the
\* mission, and one that is allowed again and again.
MCIntents ==
  {Intent("approve", Owner, Plain), Intent("pause", Owner, Plain),
   Intent("context_refreshed", w, Plain), Intent("reject", Owner, Plain)}
    \cup {Intent("usage_recorded", w, s) : s \in MCSamples}
    \cup {Intent("candidate_ready", w, c1)}
KeySymmetry == Permutations(Keys) \cup Permutations(Callers)
=============================================================================
