------------------------- MODULE LiveActivityProofs -------------------------
(***************************************************************************)
(* Proofs about LiveActivity, for any runs, requests, stages and polls.    *)
(* Whose request is in the file is known only through the request that     *)
(* wrote it (Answered); that a request is heard needs that a run which is  *)
(* alone finds in the file nothing but what is its own (Owned).            *)
(***************************************************************************)
EXTENDS LiveActivity, TLAPS

Alone(r) == \A other \in Runs \ {r} : runner[other].pc = "idle"

\* A request for the run was answered.
Asked(r) == \E q \in Requests : request[q].pc = "answered" /\ request[q].got.run = r

\* An active file names its run, and one that asks for a stop was written by a
\* request for that run.
Answered ==
  /\ live.status = "active" => live.run \in Runs
  /\ \A q \in Requests : request[q].pc \in {"read", "answered"} => request[q].got.run \in Runs
  /\ live.cancel => Asked(live.run)

Counted == \A r \in Runs : runner[r].pc = "starting" => runner[r].stages < MaxStages

\* What a run that is alone can find in the file, and in the requests that have read it.
Owned(r) ==
  /\ live.run \in {r, Nobody}
  /\ \A q \in Requests : request[q].pc = "read" => request[q].got.run = r

\* What was told to a run is either still in the file, for it to wake up to, or was heard.
Heard(r) ==
  runner[r].told =>
    IF runner[r].child
    THEN runner[r].pc = "asleep" /\ live.run = r /\ live.cancel
    ELSE runner[r].outcome \in {"stopped", "flooded"}

\* A stage that was stopped or flooded is not followed by another one.
Halted(r) ==
  runner[r].outcome \in {"stopped", "flooded"} =>
    runner[r].pc \in {"finishing", "finished", "halting", "done"}

IInv ==
  /\ TypeOK
  /\ Answered /\ Counted
  /\ StoppedOnlyOnRequest
  /\ \A r \in Runs : Halted(r) /\ (Alone(r) => Owned(r) /\ Heard(r))

-----------------------------------------------------------------------------
LEMMA InitInv == Init => IInv
<1> SUFFICES ASSUME Init
             PROVE  IInv
  OBVIOUS
<1> USE DEF Init, NoFile
<1>1. TypeOK
  BY StagesAssumption DEF TypeOK, FileType, RunnerType
<1>2. Answered /\ Counted /\ StoppedOnlyOnRequest
  BY DEF Answered, Asked, Counted, StoppedOnlyOnRequest
<1>3. \A r \in Runs : Halted(r) /\ Owned(r) /\ Heard(r)
  BY DEF Halted, Owned, Heard
<1>4. QED
  BY <1>1, <1>2, <1>3 DEF IInv

PCs == {"idle", "between", "starting", "asleep", "refreshing", "awake", "finishing",
        "finished", "halting", "done"}

\* The runs keep their types, and only one of them has moved.
Moved(r) ==
  /\ runner' \in [Runs -> RunnerType]
  /\ \A x \in Runs \ {r} : runner'[x] = runner[x]

Outcomes == {"none", "ok", "failed", "flooded", "stopped", "timed out"}

\* A run goes on, and is otherwise as before.
LEMMA Went ==
  ASSUME TypeOK, NEW r \in Runs, NEW pc \in PCs, Goto(r, pc)
  PROVE  /\ Moved(r)
         /\ runner'[r].pc = pc
         /\ runner'[r].stages = runner[r].stages
         /\ runner'[r].child = runner[r].child
         /\ runner'[r].outcome = runner[r].outcome
         /\ runner'[r].told = runner[r].told
<1> DEFINE next == [runner[r] EXCEPT !.pc = pc]
<1>1. runner \in [Runs -> RunnerType] /\ runner[r] \in RunnerType
  BY DEF TypeOK
<1>2. next \in RunnerType
  BY <1>1 DEF RunnerType, PCs
<1>3. runner' = [runner EXCEPT ![r] = next]
  BY <1>1 DEF RunnerType, Goto
<1>4. Moved(r) /\ runner'[r] = next
  BY <1>1, <1>2, <1>3 DEF Moved
<1>5. QED
  BY <1>1, <1>4 DEF RunnerType

\* A child has ended.
LEMMA Ended ==
  ASSUME TypeOK, NEW r \in Runs, NEW o \in Outcomes, ChildEnds(r, o)
  PROVE  /\ Moved(r)
         /\ runner'[r].pc = "finishing"
         /\ ~runner'[r].child
         /\ runner'[r].outcome = o
         /\ runner'[r].stages = runner[r].stages
         /\ runner'[r].told = runner[r].told
<1> DEFINE next == [runner[r] EXCEPT !.pc = "finishing", !.child = FALSE, !.outcome = o]
<1>1. runner \in [Runs -> RunnerType] /\ runner[r] \in RunnerType
  BY DEF TypeOK
<1>2. next \in RunnerType
  BY <1>1 DEF RunnerType, Outcomes
<1>3. runner' = [runner EXCEPT ![r] = next]
  BY <1>1 DEF RunnerType, ChildEnds
<1>4. Moved(r) /\ runner'[r] = next
  BY <1>1, <1>2, <1>3 DEF Moved
<1>5. QED
  BY <1>1, <1>4 DEF RunnerType

\* A child was started.
LEMMA Launched ==
  ASSUME TypeOK, NEW r \in Runs, Counted, Launch(r)
  PROVE  /\ Moved(r)
         /\ runner'[r].pc = "asleep"
         /\ runner'[r].child
         /\ runner'[r].outcome = "none"
         /\ ~runner'[r].told
<1> DEFINE next == [runner[r] EXCEPT !.pc = "asleep", !.stages = runner[r].stages + 1, !.child = TRUE, !.polls = 0, !.outcome = "none", !.told = FALSE]
<1>1. runner \in [Runs -> RunnerType] /\ runner[r] \in RunnerType
  BY DEF TypeOK
<1>2. next \in RunnerType
  <2>1. runner[r].stages + 1 \in 0..MaxStages
    <3>1. runner[r].stages \in 0..MaxStages
      BY <1>1 DEF RunnerType
    <3>2. runner[r].stages < MaxStages
      BY DEF Counted, Launch
    <3>3. QED
      BY <3>1, <3>2, StagesAssumption
  <2>2. 0 \in 0..MaxPolls
    BY StagesAssumption
  <2>3. QED
    BY <1>1, <2>1, <2>2 DEF RunnerType
<1>3. runner' = [runner EXCEPT ![r] = next]
  BY <1>1 DEF RunnerType, Launch
<1>4. Moved(r) /\ runner'[r] = next
  BY <1>1, <1>2, <1>3 DEF Moved
<1>5. QED
  BY <1>1, <1>4 DEF RunnerType

\* The child is still there, and the time limit one poll nearer.
LEMMA Slept ==
  ASSUME TypeOK, NEW r \in Runs,
         runner' = [runner EXCEPT ![r].pc = "asleep",
                        ![r].polls = IF @ < MaxPolls THEN @ + 1 ELSE @]
  PROVE  /\ Moved(r)
         /\ runner'[r].pc = "asleep"
         /\ runner'[r].stages = runner[r].stages
         /\ runner'[r].child = runner[r].child
         /\ runner'[r].outcome = runner[r].outcome
         /\ runner'[r].told = runner[r].told
<1> DEFINE polled == IF runner[r].polls < MaxPolls THEN runner[r].polls + 1 ELSE runner[r].polls
           next == [runner[r] EXCEPT !.pc = "asleep", !.polls = polled]
<1>1. runner \in [Runs -> RunnerType] /\ runner[r] \in RunnerType
  BY DEF TypeOK
<1>2. next \in RunnerType
  <2>1. polled \in 0..MaxPolls
    <3>1. runner[r].polls \in 0..MaxPolls
      BY <1>1 DEF RunnerType
    <3>2. QED
      BY <3>1, StagesAssumption
  <2> HIDE DEF polled
  <2>2. QED
    BY <1>1, <2>1 DEF RunnerType
<1>3. runner' = [runner EXCEPT ![r] = next]
  BY <1>1 DEF RunnerType
<1>4. Moved(r) /\ runner'[r] = next
  BY <1>1, <1>2, <1>3 DEF Moved
<1>5. QED
  BY <1>1, <1>4 DEF RunnerType
\* A step of one run leaves the others, and writes nothing to the file but its own.
OwnStep(r) ==
  /\ Moved(r)
  /\ runner'[r].pc # "idle"
  /\ live' \in {live, Own(r, "active"), Own(r, "ended")}
  /\ request' = request

\* What a run's step makes of itself.
Kept(r) ==
  /\ runner'[r].child <=> runner'[r].pc \in {"asleep", "refreshing", "awake"}
  /\ runner'[r].pc = "starting" => runner'[r].stages < MaxStages
  /\ runner'[r].outcome = "stopped" => runner[r].outcome = "stopped" \/ CancelRequested(r)
  /\ Halted(r)'

\* What was told to a run is heard once the child has ended, and until then still to
\* be found in the file.
Told(r) == Owned(r) /\ Heard(r) => Heard(r)'

Steps(r) == Start(r) \/ RunStep(r)

LEMMA StepsKeep ==
  ASSUME IInv, NEW r \in Runs, Steps(r)
  PROVE  OwnStep(r) /\ Kept(r) /\ Told(r)
<1> USE DEF OwnStep, Kept, Told
<1>1. /\ TypeOK /\ Counted /\ Halted(r)
      /\ runner[r].child <=> runner[r].pc \in {"asleep", "refreshing", "awake"}
  BY DEF IInv, TypeOK
<1>2. CASE Start(r)
  <2>1. Goto(r, "between") /\ "between" \in PCs
    BY <1>2 DEF Start, PCs
  <2>2. QED
    BY <1>1, <1>2, <2>1, Went DEF Start, Counted, Halted, Heard, Own
<1>3. CASE StageStarted(r)
  <2>1. Goto(r, "starting") /\ "starting" \in PCs
    BY <1>3 DEF StageStarted, PCs
  <2>2. QED
    BY <1>1, <1>3, <2>1, Went DEF StageStarted, Counted, Halted, Heard, Own
<1>4. CASE Launch(r)
  BY <1>1, <1>4, Launched DEF Launch, Halted, Heard
<1>5. CASE Wake(r)
  <2>1. CASE ChildEnds(r, "flooded")
    <3>1. "flooded" \in Outcomes
      BY DEF Outcomes
    <3>2. QED
      BY <1>1, <1>5, <2>1, <3>1, Ended DEF Wake, Halted, Heard
  <2>2. CASE CancelRequested(r) /\ ChildEnds(r, "stopped")
    <3>1. "stopped" \in Outcomes
      BY DEF Outcomes
    <3>2. QED
      BY <1>1, <1>5, <2>2, <3>1, Ended DEF Wake, Halted, Heard
  <2>3. CASE ~CancelRequested(r) /\ Goto(r, "refreshing")
    <3>1. "refreshing" \in PCs
      BY DEF PCs
    <3>2. QED
      BY <1>1, <1>5, <2>3, <3>1, Went DEF Wake, Halted, Heard, CancelRequested
  <2>4. QED
    BY <1>5, <2>1, <2>2, <2>3 DEF Wake
<1>6. CASE Refresh(r)
  <2>1. Goto(r, "awake") /\ "awake" \in PCs
    BY <1>6 DEF Refresh, PCs
  <2>2. QED
    BY <1>1, <1>6, <2>1, Went DEF Refresh, Counted, Halted, Heard, Own
<1>7. CASE Look(r)
  <2>1. ASSUME NEW o \in {"timed out", "ok", "failed"}, ChildEnds(r, o)
        PROVE  OwnStep(r) /\ Kept(r) /\ Told(r)
    <3>1. o \in Outcomes
      BY DEF Outcomes
    <3>2. QED
      BY <1>1, <1>7, <2>1, <3>1, Ended DEF Look, Halted, Heard
  <2>2. CASE runner' = [runner EXCEPT ![r].pc = "asleep",
                          ![r].polls = IF @ < MaxPolls THEN @ + 1 ELSE @]
    BY <1>1, <1>7, <2>2, Slept DEF Look, Halted, Heard
  <2>3. QED
    BY <1>7, <2>1, <2>2 DEF Look
<1>8. CASE StageFinished(r)
  <2> DEFINE pc == IF CancelRequested(r) THEN AfterStage(r) ELSE "finished"
  <2>1. Goto(r, pc) /\ pc \in {"between", "halting", "finished"} /\ pc \in PCs
    BY <1>8 DEF StageFinished, AfterStage, PCs
  <2>2. pc = "between" => runner[r].outcome = "ok"
    BY DEF AfterStage
  <2> HIDE DEF pc
  <2>3. QED
    BY <1>1, <1>8, <2>1, <2>2, Went DEF StageFinished, Halted, Heard
<1>9. CASE FinishedRefresh(r)
  <2> DEFINE pc == AfterStage(r)
  <2>1. Goto(r, pc) /\ pc \in {"between", "halting"} /\ pc \in PCs
    BY <1>9 DEF FinishedRefresh, AfterStage, PCs
  <2>2. pc = "between" => runner[r].outcome = "ok"
    BY DEF AfterStage
  <2> HIDE DEF pc
  <2>3. QED
    BY <1>1, <1>9, <2>1, <2>2, Went DEF FinishedRefresh, Halted, Heard
<1>10. CASE Finish(r)
  <2>1. Goto(r, "done") /\ "done" \in PCs
    BY <1>10 DEF Finish, PCs
  <2>2. QED
    BY <1>1, <1>10, <2>1, Went DEF Finish, Counted, Halted, Heard, Own
<1>11. QED
  BY <1>2, <1>3, <1>4, <1>5, <1>6, <1>7, <1>8, <1>9, <1>10 DEF Steps, RunStep

LEMMA RunStepsKeep ==
  ASSUME IInv, NEW r \in Runs, Steps(r)
  PROVE  IInv'
<1>1. OwnStep(r) /\ Kept(r) /\ Told(r)
  BY StepsKeep
<1>2. TypeOK'
  <2>1. live' \in FileType
    <3>1. live \in FileType
      BY DEF IInv, TypeOK
    <3>2. Own(r, "active") \in FileType /\ Own(r, "ended") \in FileType
      BY DEF FileType, Own
    <3>3. QED
      BY <1>1, <3>1, <3>2 DEF OwnStep
  <2>2. QED
    BY <1>1, <2>1 DEF OwnStep, Moved, Kept, IInv, TypeOK
<1>3. Answered'
  BY <1>1 DEF OwnStep, IInv, Answered, Asked, Own
<1>4. Counted'
  BY <1>1 DEF OwnStep, Moved, Kept, IInv, Counted
<1>5. StoppedOnlyOnRequest'
  <2>1. CancelRequested(r) => Asked(r)
    BY DEF IInv, CancelRequested, Answered
  <2>2. ASSUME NEW x \in Runs, runner'[x].outcome = "stopped"
        PROVE  Asked(x)
    BY <1>1, <2>1, <2>2 DEF IInv, OwnStep, Moved, Kept, StoppedOnlyOnRequest, Asked
  <2>3. QED
    BY <1>1, <2>2 DEF OwnStep, StoppedOnlyOnRequest, Asked
<1>6. ASSUME NEW x \in Runs
      PROVE  Halted(x)'
  <2>1. CASE x = r
    BY <1>1, <2>1 DEF Kept
  <2>2. CASE x # r
    BY <1>1, <2>2 DEF IInv, OwnStep, Moved, Halted
  <2>3. QED
    BY <2>1, <2>2
<1>7. ASSUME NEW x \in Runs, Alone(x)'
      PROVE  Owned(x)' /\ Heard(x)'
  <2>1. x = r
    BY <1>1, <1>7 DEF OwnStep, Alone
  <2>2. Alone(r)
    BY <1>1, <1>7, <2>1 DEF OwnStep, Moved, Alone
  <2>3. Owned(r) /\ Heard(r)
    BY <2>2 DEF IInv
  <2>4. Owned(r)'
    BY <1>1, <2>3 DEF OwnStep, Owned, Own
  <2>5. QED
    BY <1>1, <2>1, <2>3, <2>4 DEF Told
<1>8. QED
  BY <1>2, <1>3, <1>4, <1>5, <1>6, <1>7 DEF IInv

LEMMA ReadingKeeps ==
  ASSUME IInv, NEW q \in Requests, ReadActivity(q)
  PROVE  IInv'
<1>1. UNCHANGED <<live, runner>>
  BY DEF ReadActivity
<1>2. \/ /\ live.status = "active"
         /\ request' = [request EXCEPT ![q] = [pc |-> "read", got |-> live]]
      \/ request' = [request EXCEPT ![q] = [pc |-> "refused", got |-> NoFile]]
  BY DEF ReadActivity, Stoppable
<1>3. request[q].pc = "idle"
  BY DEF ReadActivity
<1>4. TypeOK'
  <2>1. NoFile \in FileType
    BY DEF NoFile, FileType
  <2>2. TypeOK
    BY DEF IInv
  <2>3. request' \in [Requests -> [pc: {"idle", "read", "answered", "refused"},
                                  got: FileType]]
    BY <1>2, <2>1, <2>2 DEF TypeOK
  <2>4. \A p \in Requests : request'[p].pc \in {"read", "answered"} =>
          request'[p].got.status = "active"
    BY <1>2, <2>2 DEF TypeOK
  <2>5. QED
    BY <1>1, <2>2, <2>3, <2>4 DEF TypeOK
<1>5. Answered' /\ \A r \in Runs \union {Nobody} : Asked(r) => Asked(r)'
  <2>1. \A p \in Requests \ {q} : request'[p] = request[p]
    BY <1>2 DEF IInv, TypeOK
  <2>2. \/ request'[q].pc = "refused"
        \/ live.status = "active" /\ request'[q].got = live
    BY <1>2 DEF IInv, TypeOK
  <2>3. \A r : Asked(r) => Asked(r)'
    BY <1>3, <2>1 DEF Asked
  <2>4. \A p \in Requests : request'[p].pc \in {"read", "answered"} =>
          request'[p].got.run \in Runs
    BY <2>1, <2>2 DEF IInv, Answered
  <2>5. (live.cancel => Asked(live.run))'
    <3>1. live.cancel => \E p \in Requests : /\ request[p].pc = "answered"
                                            /\ request[p].got.run = live.run
      BY DEF IInv, Answered, Asked
    <3>2. \A p \in Requests : request[p].pc = "answered" => request'[p] = request[p]
      BY <1>3, <2>1
    <3>3. QED
      BY <1>1, <3>1, <3>2 DEF Asked
  <2>6. QED
    BY <1>1, <2>3, <2>4, <2>5 DEF IInv, Answered
<1>6. Counted' /\ StoppedOnlyOnRequest'
  BY <1>1, <1>5 DEF IInv, Counted, StoppedOnlyOnRequest, Asked
<1>7. ASSUME NEW r \in Runs
      PROVE  Halted(r)' /\ (Alone(r)' => Owned(r)' /\ Heard(r)')
  <2>1. Halted(r)' /\ (Alone(r)' => Heard(r)')
    BY <1>1 DEF IInv, Halted, Alone, Heard
  <2>2. Alone(r)' => Owned(r)'
    BY <1>1, <1>2, NobodyAssumption DEF IInv, TypeOK, Alone, Owned, Answered, NoFile
  <2>3. QED
    BY <2>1, <2>2
<1>8. QED
  BY <1>4, <1>5, <1>6, <1>7 DEF IInv

LEMMA ReplacingKeeps ==
  ASSUME IInv, NEW q \in Requests, ReplaceActivity(q)
  PROVE  IInv'
<1> DEFINE got == request[q].got
<1>1. /\ request[q].pc = "read" /\ got \in FileType
      /\ got.status = "active" /\ got.run \in Runs
  BY DEF ReplaceActivity, IInv, TypeOK, Answered
<1>2. /\ live' \in FileType /\ live'.run = got.run /\ live'.status = "active"
      /\ live'.cancel
  BY <1>1 DEF ReplaceActivity, FileType
<1>3. /\ request' \in [Requests -> [pc: {"idle", "read", "answered", "refused"},
                                   got: FileType]]
      /\ request'[q].pc = "answered" /\ request'[q].got = got
      /\ \A p \in Requests \ {q} : request'[p] = request[p]
  BY <1>1 DEF ReplaceActivity, IInv, TypeOK
<1>4. /\ runner' \in [Runs -> RunnerType]
      /\ \A r \in Runs :
           /\ runner'[r].pc = runner[r].pc /\ runner'[r].stages = runner[r].stages
           /\ runner'[r].outcome = runner[r].outcome
           /\ runner'[r].child = runner[r].child
           /\ \/ runner'[r].told = runner[r].told
              \/ r = got.run /\ runner[r].pc = "asleep"
  <2>1. ASSUME NEW r \in Runs
        PROVE  /\ runner'[r] \in RunnerType
               /\ runner'[r].pc = runner[r].pc /\ runner'[r].stages = runner[r].stages
               /\ runner'[r].outcome = runner[r].outcome
               /\ runner'[r].child = runner[r].child
               /\ \/ runner'[r].told = runner[r].told
                  \/ r = got.run /\ runner[r].pc = "asleep"
    <3>1. runner[r] \in RunnerType
      BY DEF IInv, TypeOK
    <3>2. \/ runner'[r] = runner[r]
          \/ /\ r = got.run /\ runner[r].pc = "asleep"
             /\ runner'[r] = [runner[r] EXCEPT !.told = TRUE]
      BY DEF ReplaceActivity
    <3>3. QED
      BY <3>1, <3>2 DEF RunnerType
  <2>2. runner' = [r \in Runs |-> runner'[r]]
    BY DEF ReplaceActivity
  <2>3. QED
    BY <2>1, <2>2
<1> HIDE DEF got
<1>5. TypeOK'
  <2>1. TypeOK
    BY DEF IInv
  <2>2. \A r \in Runs :
          runner'[r].child <=> runner'[r].pc \in {"asleep", "refreshing", "awake"}
    BY <1>4, <2>1 DEF TypeOK
  <2>3. \A p \in Requests : request'[p].pc \in {"read", "answered"} =>
          request'[p].got.status = "active"
    BY <1>1, <1>3, <2>1 DEF TypeOK
  <2>4. live' \in FileType /\ runner' \in [Runs -> RunnerType]
    BY <1>2, <1>4
  <2> QED BY <1>3, <2>2, <2>3, <2>4 DEF TypeOK
<1>6. Answered' /\ \A r \in Runs : Asked(r) => Asked(r)'
  BY <1>1, <1>2, <1>3 DEF IInv, Answered, Asked
<1>7. Counted' /\ StoppedOnlyOnRequest'
  BY <1>4, <1>6 DEF IInv, Counted, StoppedOnlyOnRequest, Asked
<1>8. ASSUME NEW r \in Runs
      PROVE  Halted(r)' /\ (Alone(r)' => Owned(r)' /\ Heard(r)')
  <2>1. Halted(r)'
    BY <1>4 DEF IInv, Halted
  <2>2. ASSUME Alone(r)'
        PROVE  Owned(r)' /\ Heard(r)'
    <3>1. Alone(r)
      BY <1>4, <2>2 DEF Alone
    <3>2. Owned(r) /\ Heard(r)
      BY <3>1 DEF IInv
    <3>3. got.run = r
      BY <1>1, <3>2 DEF Owned, got
    <3>4. Owned(r)'
      BY <1>2, <1>3, <3>2, <3>3 DEF Owned
    <3>5. Heard(r)'
      <4>1. runner[r].child <=> runner[r].pc \in {"asleep", "refreshing", "awake"}
        BY DEF IInv, TypeOK
      <4>2. QED
        BY <1>2, <1>4, <3>2, <3>3, <4>1 DEF Heard
    <3>6. QED
      BY <3>4, <3>5
  <2>3. QED
    BY <2>1, <2>2
<1>9. QED
  BY <1>5, <1>6, <1>7, <1>8 DEF IInv

LEMMA StutteringKeeps ==
  ASSUME IInv, UNCHANGED vars
  PROVE  IInv'
<1> USE DEF vars
<1>1. TypeOK' /\ Counted'
  BY DEF IInv, TypeOK, Counted
<1>2. Answered' /\ StoppedOnlyOnRequest'
  BY DEF IInv, Answered, Asked, StoppedOnlyOnRequest
<1>3. \A r \in Runs : Halted(r)' /\ (Alone(r)' => Owned(r)' /\ Heard(r)')
  BY DEF IInv, Halted, Alone, Owned, Heard
<1>4. QED
  BY <1>1, <1>2, <1>3 DEF IInv

-----------------------------------------------------------------------------
\* The invariant of the proofs (live_activity.py, _monitor of assembly_process.py).
THEOREM Inductive == Spec => []IInv
<1>1. IInv /\ [Next]_vars => IInv'
  <2>1. ASSUME IInv, Next
        PROVE  IInv'
    BY <2>1, RunStepsKeep, ReadingKeeps, ReplacingKeeps DEF Next, Steps
  <2>2. QED
    BY <2>1, StutteringKeeps
<1>2. QED
  BY <1>1, InitInv, PTL DEF Spec

\* The file, the runs and the requests keep their types; a run waits for at most
\* one child.
THEOREM TypeCorrect == Spec => []TypeOK
<1>1. IInv => TypeOK
  BY DEF IInv
<1>2. QED
  BY Inductive, <1>1, PTL

\* Whatever the runs and requests of a workspace write over each other in the one
\* file, a run is stopped only if a request for it was answered (cancel_requested).
THEOREM OnlyOnRequest == Spec => []StoppedOnlyOnRequest
<1>1. IInv => StoppedOnlyOnRequest
  BY DEF IInv
<1>2. QED
  BY Inductive, <1>1, PTL

\* A run that is alone hears a stop request that lands while it waits for a child,
\* however many requests there are (request_stop against _monitor).
THEOREM RequestsAreHeard == Spec => []HeardWhileWaiting
<1>1. IInv => HeardWhileWaiting
  BY DEF IInv, HeardWhileWaiting, Heard, Alone
<1>2. QED
  BY Inductive, <1>1, PTL
=============================================================================
