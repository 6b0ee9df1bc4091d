--------------------------- MODULE MissionDelivery ---------------------------
(***************************************************************************)
(* Callers of apply_mission_event that do not always see its answer.  A    *)
(* caller repeats the same call, with the same idempotency key, until it   *)
(* is answered: its process may die after the commit or before it, and     *)
(* nothing tells the two apart.  Two callers may hold the same key.  An    *)
(* answer that reports drift is about the store; the caller tries again.   *)
(***************************************************************************)
EXTENDS MissionGraph

CONSTANTS Callers,
          Intents    \* what callers want: [event, actor, receipt, criterion]

ASSUME IntentAssumption ==
  Intents \subseteq [event : EventNames, actor : Actors, receipt : Receipts,
                     criterion : Criteria \cup {NoCriterion}]

VARIABLE calls       \* per caller: key, intent and how far the call got

deliveryVars == <<vars, calls>>

NoCall == [status |-> "none"]

Waiting(p) == calls[p].status = "waiting"

Call(p, k, intent) ==
  /\ thread.state # "absent"
  /\ calls[p] = NoCall
  /\ calls' = [calls EXCEPT ![p] =
                 [status |-> "waiting", key |-> k, intent |-> intent]]
  /\ UNCHANGED vars

\* The intent_sha of the stored event is that of the call.
SameIntent(e, intent) ==
  /\ e.event = intent.event /\ e.actor = intent.actor
  /\ e.receipt = intent.receipt /\ e.criterion = intent.criterion

Recorded(call) ==
  {i \in 1..Len(events) :
     events[i].key = call.key /\ SameIntent(events[i], call.intent)}

\* apply_mission_event commits the call's event.
Accepts(call) ==
  /\ \/ OwnerStep(call.intent.actor, call.key)
     \/ WorkStep(call.intent.actor, call.key)
  /\ SameIntent(events'[Len(events')], call.intent)

\* The answer reaches the caller or is lost with the process that produced it.
Answer(p, status) == calls' \in {calls, [calls EXCEPT ![p].status = status]}

Apply(p) ==
  /\ Waiting(p)
  /\ Accepts(calls[p])
  /\ Answer(p, "accepted")

\* Mutation: a call is looked up only if the table allows its event now.
IsAllowedDuplicate(call) ==
  /\ Recorded(call) # {}
  /\ \E target \in States : Leads(call.intent.event, target)

\* The call is answered from the stored event of its key; that is looked up
\* right after the chain, before any rule about the present state.
IsDuplicate(call) == Recorded(call) # {}

Duplicate(p) ==
  /\ Waiting(p)
  /\ ChainVerifies(thread, events)
  /\ IsDuplicate(calls[p])
  /\ Answer(p, "accepted")
  /\ UNCHANGED vars

\* Any other error, the idempotency conflict included.
Refuse(p) ==
  /\ Waiting(p)
  /\ ChainVerifies(thread, events)
  /\ ~IsDuplicate(calls[p])
  /\ ~ENABLED Accepts(calls[p])
  /\ Answer(p, "refused")
  /\ UNCHANGED vars

DeliveryInit == Init /\ calls = [p \in Callers |-> NoCall]

DeliveryNext ==
  \/ InitMissionGraph /\ UNCHANGED calls
  \/ Drift /\ UNCHANGED calls
  \/ \E p \in Callers : \/ \E k \in Keys, intent \in Intents : Call(p, k, intent)
                        \/ Apply(p)
                        \/ Duplicate(p)
                        \/ Refuse(p)

DeliverySpec == DeliveryInit /\ [][DeliveryNext]_deliveryVars

-----------------------------------------------------------------------------
\* A caller is told of a refusal only when its event is not in the chain,
\* however often the call was repeated and whatever happened to the mission in
\* between: unless somebody else makes the same call, the event it is told it
\* did not record never took effect and never will.
SameCall(p, q) == calls[q] # NoCall /\ calls[q].key = calls[p].key
                    /\ calls[q].intent = calls[p].intent
RefusedHasNoEffect ==
  \A p \in Callers :
    /\ calls[p].status = "refused"
    /\ \A q \in Callers \ {p} : ~SameCall(p, q)
    => Recorded(calls[p]) = {}

\* A caller is told of an acceptance only when the chain holds its intent under
\* its key, and nothing else under that key.
AcceptedIsRecordedOnce ==
  \A p \in Callers : calls[p].status = "accepted" =>
    \E i \in Recorded(calls[p]) :
      \A j \in 1..Len(events) : events[j].key = calls[p].key => j = i

\* What callers are told is so, whatever answers were lost and calls repeated
\* (apply_mission_event).
AnswersAreTrue == RefusedHasNoEffect /\ AcceptedIsRecordedOnce
=============================================================================
