---------------------------- MODULE LiveActivity ----------------------------
(***************************************************************************)
(* .factory/live-activity.json (factoryline/live_activity.py), through     *)
(* which a Studio asks a running assembly to stop.  The run writes the     *)
(* whole file from its memory; a stop request reads the file, adds a field *)
(* and replaces it; the run looks for that field while it waits for a      *)
(* child (_monitor, assembly_process.py).  Every read and every            *)
(* replacement of the file is a step of its own.                           *)
(*                                                                         *)
(* The lock of an assembly is one per feature, the file one per workspace: *)
(* Runs may be active at once.  The gates and the order of the stages are  *)
(* in AssemblyLine; here a run is a number of stages, each a child that    *)
(* ends by itself, floods its output, or stays until its time limit.       *)
(***************************************************************************)
EXTENDS Integers, FiniteSets

CONSTANTS
  Runs,       \* assemblies in the workspace
  Requests,   \* stop requests
  MaxStages,  \* children a run starts at most
  MaxPolls,   \* polls of _monitor before the time limit of a child
  Nobody      \* no run

ASSUME StagesAssumption == MaxStages \in Nat \ {0} /\ MaxPolls \in Nat \ {0}
ASSUME NobodyAssumption == Nobody \notin Runs

VARIABLES
  live,     \* the file: whose run, its status, is a stop requested?
  runner,   \* the runs
  request   \* the stop requests

vars == <<live, runner, request>>

NoFile == [run |-> Nobody, status |-> "none", cancel |-> FALSE]

\* LiveActivity._write: the run's own memory, in which no request ever is
Own(r, status) == [run |-> r, status |-> status, cancel |-> FALSE]

\* Mutation: a request for any run is taken for one's own.
CancelSeen(r) == live.cancel

\* Mutation: the run looks for a request in its own memory of the file.
CancelInMemory(r) == Own(r, "active").cancel

\* cancel_requested
CancelRequested(r) == live.run = r /\ live.cancel

-----------------------------------------------------------------------------
(* A run. *)

Goto(r, pc) == runner' = [runner EXCEPT ![r].pc = pc]

\* LiveActivity.start
Start(r) ==
  /\ runner[r].pc = "idle"
  /\ live' = Own(r, "active")
  /\ Goto(r, "between")
  /\ UNCHANGED request

\* stage_started, which does not look at the file before it replaces it
StageStarted(r) ==
  /\ runner[r].pc = "between" /\ runner[r].stages < MaxStages
  /\ live' = Own(r, "active")
  /\ Goto(r, "starting")
  /\ UNCHANGED request

\* _launch
Launch(r) ==
  /\ runner[r].pc = "starting"
  /\ runner' = [runner EXCEPT ![r].pc = "asleep", ![r].stages = @ + 1,
                  ![r].child = TRUE, ![r].polls = 0, ![r].outcome = "none",
                  ![r].told = FALSE]
  /\ UNCHANGED <<live, request>>

\* The child is stopped if it has to be; stage_finished follows.
ChildEnds(r, outcome) ==
  runner' = [runner EXCEPT ![r].pc = "finishing", ![r].child = FALSE,
                           ![r].outcome = outcome]

\* _monitor up to the answer of heartbeat
Wake(r) ==
  /\ runner[r].pc = "asleep"
  /\ \/ ChildEnds(r, "flooded")
     \/ CancelRequested(r) /\ ChildEnds(r, "stopped")
     \/ ~CancelRequested(r) /\ Goto(r, "refreshing")
  /\ UNCHANGED <<live, request>>

Refresh(r) ==
  /\ runner[r].pc = "refreshing"
  /\ live' = Own(r, "active")
  /\ Goto(r, "awake")
  /\ UNCHANGED request

\* Mutation: the time limit is looked at once the child has ended.
NeverLate(r) == FALSE

\* time.monotonic() >= deadline
Late(r) == runner[r].polls >= MaxPolls

\* The rest of _monitor's loop
Look(r) ==
  /\ runner[r].pc = "awake"
  /\ \/ Late(r) /\ ChildEnds(r, "timed out")
     \/ /\ ~Late(r)
        /\ \E ok \in BOOLEAN : ChildEnds(r, IF ok THEN "ok" ELSE "failed")
     \/ /\ ~Late(r)
        /\ runner' = [runner EXCEPT ![r].pc = "asleep",
                        ![r].polls = IF @ < MaxPolls THEN @ + 1 ELSE @]
  /\ UNCHANGED <<live, request>>

\* stage_finished: its heartbeat refreshes the file unless a stop is requested,
\* and what it answers is thrown away.  Only a stage that passed is followed by
\* another one.
AfterStage(r) == IF runner[r].outcome = "ok" THEN "between" ELSE "halting"

StageFinished(r) ==
  /\ runner[r].pc = "finishing"
  /\ Goto(r, IF CancelRequested(r) THEN AfterStage(r) ELSE "finished")
  /\ UNCHANGED <<live, request>>

FinishedRefresh(r) ==
  /\ runner[r].pc = "finished"
  /\ live' = Own(r, "active")
  /\ Goto(r, AfterStage(r))
  /\ UNCHANGED request

\* LiveActivity.finish: after the last stage, at a pause, or halted
Finish(r) ==
  /\ runner[r].pc \in {"between", "halting"}
  /\ live' = Own(r, "ended")
  /\ Goto(r, "done")
  /\ UNCHANGED request

RunStep(r) ==
  \/ StageStarted(r) \/ Launch(r) \/ Wake(r) \/ Refresh(r) \/ Look(r)
  \/ StageFinished(r) \/ FinishedRefresh(r) \/ Finish(r)

-----------------------------------------------------------------------------
(* request_stop *)

\* "No active Factory assembly can be stopped."
Stoppable == live.status = "active"

ReadActivity(q) ==
  /\ request[q].pc = "idle"
  /\ request' = [request EXCEPT ![q] =
       IF Stoppable THEN [pc |-> "read", got |-> live]
       ELSE [pc |-> "refused", got |-> NoFile]]
  /\ UNCHANGED <<live, runner>>

\* told: the request has reached a run that is waiting for its child.
ReplaceActivity(q) ==
  /\ request[q].pc = "read"
  /\ live' = [request[q].got EXCEPT !.cancel = TRUE]
  /\ request' = [request EXCEPT ![q].pc = "answered"]
  /\ runner' = [r \in Runs |->
       IF r = request[q].got.run /\ runner[r].pc = "asleep"
       THEN [runner[r] EXCEPT !.told = TRUE] ELSE runner[r]]

-----------------------------------------------------------------------------
Init ==
  /\ live = NoFile
  /\ runner = [r \in Runs |->
       [pc |-> "idle", stages |-> 0, polls |-> 0, child |-> FALSE,
        outcome |-> "none", told |-> FALSE]]
  /\ request = [q \in Requests |-> [pc |-> "idle", got |-> NoFile]]

Next ==
  \/ \E r \in Runs : Start(r) \/ RunStep(r)
  \/ \E q \in Requests : ReadActivity(q) \/ ReplaceActivity(q)

Spec == Init /\ [][Next]_vars

\* A run goes on by itself; whether anybody asks it to stop is up to people.
FairSpec == Spec /\ \A r \in Runs : WF_vars(RunStep(r))

-----------------------------------------------------------------------------
(* Properties. *)

FileType == [run: Runs \union {Nobody}, status: {"none", "active", "ended"},
             cancel: BOOLEAN]
RunnerType == [pc: {"idle", "between", "starting", "asleep", "refreshing", "awake",
                    "finishing", "finished", "halting", "done"},
               stages: 0..MaxStages, polls: 0..MaxPolls, child: BOOLEAN,
               outcome: {"none", "ok", "failed", "flooded", "stopped", "timed out"},
               told: BOOLEAN]

\* The types of the variables; a run waits for at most one child at a time, and a
\* request replaces only a file that was active when it was read.
TypeOK ==
  /\ live \in FileType
  /\ runner \in [Runs -> RunnerType]
  /\ request \in [Requests -> [pc: {"idle", "read", "answered", "refused"},
                               got: FileType]]
  /\ \A r \in Runs :
       runner[r].child <=> runner[r].pc \in {"asleep", "refreshing", "awake"}
  /\ \A q \in Requests : request[q].pc \in {"read", "answered"} =>
       request[q].got.status = "active"

\* "Stop requested through the local Studio" ends a stage only of a run that a
\* request was answered for: neither another run's request nor the file another
\* run left behind stops it (cancel_requested compares the run_id).
StoppedOnlyOnRequest ==
  \A r \in Runs : runner[r].outcome = "stopped" =>
    \E q \in Requests : request[q].pc = "answered" /\ request[q].got.run = r

\* As long as no other run was started in the workspace, a request whose file lands
\* while a run waits for a child ends the stage: it can no longer pass, or run to
\* its time limit (request_stop against _monitor).
HeardWhileWaiting ==
  \A r \in Runs :
    /\ runner[r].told /\ ~runner[r].child
    /\ \A other \in Runs \ {r} : runner[other].pc = "idle"
    => runner[r].outcome \in {"stopped", "flooded"}

\* A run never waits for a child for ever, whatever is written to the file.
StagesEnd ==
  \A r \in Runs : runner[r].child ~> ~runner[r].child

\* "A false result tells the Assembly loop to stop before launching another child
\* stage" (live_activity.py:99): after a request for a run was answered, the run
\* starts no further child.
StopIsHonoured ==
  [][\A r \in Runs : ~runner[r].child /\ runner'[r].child =>
       ~\E q \in Requests : request[q].pc = "answered" /\ request[q].got.run = r]_vars

\* finish marks "the current local projection terminal" (live_activity.py:171): a
\* run that has ended is not shown as active.
EndedStaysEnded ==
  \A r \in Runs : runner[r].pc = "done" /\ live.run = r => live.status = "ended"

=============================================================================
