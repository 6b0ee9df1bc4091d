--------------------------- MODULE MCMissionGraph ---------------------------
(* Small instances of MissionGraph for TLC. *)
EXTENDS MissionGraph

CONSTANTS c1, c2,      \* candidates
          MaxEvents,   \* bound: the length of the event chain explored
          MaxRefresh,  \* bound: events of it that change no column but version
          UsageWeight  \* bound: as how many events one of usage counts

\* Each of the two candidates carries evidence the other does not have.
MCAdvances == {<<c1, c2>>, <<c2, c1>>}
MCBudget == [d \in Dims |-> 2]
OneUnit(class) == [class |-> class, known |-> Dims, total |-> [d \in Dims |-> 1]]
NothingKnown(class) ==
  [class |-> class, known |-> {}, total |-> [d \in Dims |-> 0]]
MCSamples == {OneUnit("measured"), OneUnit("modeled"), NothingKnown("unknown")}
NoSamples == {}
MCKeys == 1..MaxEvents

\* Keys are interchangeable: only histories that use them in the order 1, 2, ...
\* are explored, a repeated key being one that was used before.
KeysInOrder ==
  \A i \in 1..Len(events) :
    \A k \in 1..(events[i].key - 1) : \E j \in 1..(i - 1) : events[j].key = k

CountOf(kinds) == Cardinality({i \in 1..Len(events) : events[i].event \in kinds})
ChainBound ==
  /\ Len(events) + (UsageWeight - 1) * CountOf({"usage_recorded"}) <= MaxEvents
  /\ KeysInOrder
  /\ CountOf({"context_refreshed", "plan_revised"}) <= MaxRefresh
=============================================================================
