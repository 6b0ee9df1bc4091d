--------------------------- MODULE MissionClients ---------------------------
(***************************************************************************)
(* One store of factoryline/mission_graph.py with all of its clients: the  *)
(* callers of MissionDelivery, who write, and the reader of MissionVerify, *)
(* who takes no lock, at the same time.                                    *)
(***************************************************************************)
EXTENDS MissionDelivery, MissionVerify

clientVars == <<vars, calls, reader>>

ClientsInit == DeliveryInit /\ reader = Idle

ClientsNext ==
  \/ DeliveryNext /\ UNCHANGED reader
  \/ ReadRow /\ UNCHANGED calls
  \/ ReadEvents /\ UNCHANGED calls

ClientsSpec == ClientsInit /\ [][ClientsNext]_clientVars
=============================================================================
