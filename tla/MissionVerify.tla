---------------------------- MODULE MissionVerify ----------------------------
(***************************************************************************)
(* A reader of the mission graph next to its writers: mission_graph_status *)
(* and verify_mission_graph of factoryline/mission_graph.py.  They open no *)
(* transaction, so the SELECT of the thread row and the SELECT of its      *)
(* events each see the store as it is at that moment, and an event may be  *)
(* committed between the two.  The receipt files are hashed while the      *)
(* events are walked; that is one step here.                               *)
(***************************************************************************)
EXTENDS MissionGraph

VARIABLE reader   \* the reader's position, the row it read and its verdict

readerVars == <<vars, reader>>

Idle == [pc |-> "idle", row |-> thread, valid |-> FALSE]

ReadRow ==
  /\ thread.state # "absent"
  /\ reader.pc # "row"
  /\ reader' = [pc |-> "row", row |-> thread, valid |-> FALSE]
  /\ UNCHANGED vars

ReadEvents ==
  /\ reader.pc = "row"
  /\ reader' = [reader EXCEPT !.pc = "done",
                              !.valid = ChainVerifies(reader.row, events)]
  /\ UNCHANGED vars

ReaderInit == Init /\ reader = Idle

ReaderNext ==
  \/ Next /\ UNCHANGED reader
  \/ ReadRow
  \/ ReadEvents

ReaderSpec == ReaderInit /\ [][ReaderNext]_readerVars

-----------------------------------------------------------------------------
Answers == reader.pc = "row" /\ reader'.pc = "done"

\* A status that is returned at all is the thread's row at the time the events
\* were read: a reader overtaken by a writer is never told of the older state.  And
\* when no writer came in between, it is refused only if the bytes are not the bound
\* ones (mission_graph_status, verify_mission_graph).
StatusIsAccurate ==
  [][Answers => (reader'.valid <=> reader.row = thread /\ bytesIntact)]_readerVars

\* The verdict is about drift: a store whose files all have the bound bytes is
\* never reported as drifted.
DriftIsReportedOnlyOnDrift ==
  [][Answers /\ bytesIntact => reader'.valid]_readerVars
=============================================================================
