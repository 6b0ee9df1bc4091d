------------------------ MODULE IncidentDriverProofs ------------------------
(***************************************************************************)
(* Proofs about IncidentDriver, for any sources, phases, owners, policies  *)
(* and workers.  Facts is what is true of an item and of the driver's      *)
(* actions whoever calls; Held is what a worker may rely on between two    *)
(* steps of a call: its copy is old, but the run it saw is still the same  *)
(* run wherever its epoch is found, and an action it saw ended has ended.  *)
(***************************************************************************)
EXTENDS IncidentDriver, TLAPS

RunFacts(it) ==
  /\ it.run # None =>
       /\ it.run.ended = "no" /\ it.run.epoch <= it.epoch
       /\ it.run.handle \in {None, HandleOf(it.run)}
       /\ it.run.binding # None => it.run.binding.source = it.run.source
       /\ it.run.source.rev <= it.source.rev
       /\ it.run.invalidated <=> it.run.source # it.source
       /\ it.run.invalidated <=> it.phase = "retirement_required"
       /\ ~it.run.invalidated => it.run.epoch = it.epoch
       /\ it.last # None => it.last.epoch < it.run.epoch
  /\ it.run = None => it.phase # "retirement_required"

LastFacts(it, act) ==
  it.last # None =>
    /\ it.last.epoch < it.epoch
    /\ it.last.handle \in {None, HandleOf(it.last)}
    /\ it.last.binding # None => it.last.binding.source = it.last.source
    /\ it.last.binding # None /\ it.last.ended = "terminal" =>
         act[it.last.binding] = "terminal"

EvidenceFacts(it) ==
  /\ it.phase \in (Work \ {WorkPhases[1]}) \cup {"ready_for_merge"} =>
       /\ it.evidence # None
       /\ it.evidence.source = it.source
       /\ After(it.evidence.phase) = it.phase
  /\ it.evidence # None =>
       /\ it.evidence.run < it.epoch
       /\ it.run # None => it.evidence.run < it.run.epoch
       /\ it.last # None => it.evidence.run < it.last.epoch

\* The run of checkpoint c is before the present ones, or it is the last run and
\* the phase of c that run's phase.
Recorded(it, c) ==
  /\ c.run < it.epoch
  /\ it.run # None => c.run < it.run.epoch
  /\ it.last # None =>
       \/ c.run < it.last.epoch
       \/ /\ c.run = it.last.epoch /\ it.last.binding # None
          /\ c.phase = it.last.binding.phase

Earned(it, act, i) ==
  LET c == it.checkpoints[i]
  IN /\ i <= Len(IncidentPhases)
     /\ c.phase = IncidentPhases[i] /\ c.binding.phase = c.phase
     /\ c.source = it.source /\ c.binding.source = c.source
     /\ act[c.binding] = "terminal"
     /\ \A j \in 1..(i - 1) : it.checkpoints[j].run < c.run

CheckpointFacts(it, act) ==
  \A i \in DOMAIN it.checkpoints :
    Earned(it, act, i) /\ Recorded(it, it.checkpoints[i])

Facts(it, act) ==
  RunFacts(it) /\ LastFacts(it, act) /\ EvidenceFacts(it) /\ CheckpointFacts(it, act)

Actions == [Bindings -> {"never", "live", "terminal"}]

\* A worker's copy is of the item's past, and the run in it is the item's run if
\* it has the same epoch.
Copied(k, it) ==
  /\ k.snap # None /\ it # None /\ k.snap.epoch <= it.epoch
  /\ k.snap.run # None =>
       /\ k.snap.run.epoch <= k.snap.epoch
       /\ it.run # None /\ it.run.epoch = k.snap.run.epoch =>
            it.run.binding = k.snap.run.binding

Looking == {"lookup", "looked", "reconcile", "claim"}

Held(k, it, act) ==
  /\ k.pc # "idle" => Copied(k, it)
  /\ k.pc \in Looking \cup {"claimed", "launch", "bind"} =>
       k.owner \in Owners /\ k.binding \in Bindings
  /\ k.pc \in Looking =>
       /\ k.binding.source = k.snap.source
       /\ k.snap.run # None => k.snap.run.binding = k.binding
       /\ k.pc # "lookup" /\ k.state = "terminal" => act[k.binding] = "terminal"
  /\ k.pc \in {"reconcile", "claimed", "launch", "bind", "working", "observe", "commit"} =>
       k.snap.run # None
  /\ k.pc = "working" => k.owner \in Owners
  /\ k.pc = "observe" => k.snap.run.handle \in {None, HandleOf(k.snap.run)}
  /\ k.pc = "commit" =>
       /\ k.handle \in {None, HandleOf(k.snap.run)}
       /\ k.state = "terminal" /\ k.snap.run.binding # None =>
            act[k.snap.run.binding] = "terminal"
  /\ k.pc = "checkpoint" => PhaseAllowed(k.snap) /\ Concluded(k.snap, k.owner)
  /\ k.pc = "advance" => AdmitsEvidence(k.snap)

\* What any step may make of an item.
Later(it, new) ==
  it # None =>
  /\ new # None /\ it.epoch <= new.epoch
  /\ new.run # None =>
       \/ it.epoch < new.run.epoch
       \/ it.run # None /\ new.run.epoch = it.run.epoch
            /\ new.run.binding = it.run.binding

Ended(act, new) == \A b \in Bindings : act[b] = "terminal" => new[b] = "terminal"

IInv ==
  /\ TypeOK
  /\ item # None => Facts(item, action)
  /\ \A w \in Workers : Held(worker[w], item, action)

-----------------------------------------------------------------------------
(* What the operations make of an item. *)

LEMMA NoneFacts ==
  /\ \A o \in Owners : o # None
  /\ \A s \in Sources : s # None
  /\ \A b \in Bindings : b # None
  /\ \A h \in Handles : h # None
  /\ \A r \in Runs : r # None
  /\ \A h \in Holders : h # None
  /\ \A e \in Evidence : e # None
  /\ \A it \in Items : it # None
BY NoneAssumption

LEMMA PhaseFacts ==
  /\ \A s \in Sources : /\ s.rev \in Nat /\ s.state \in SourceStates
                        /\ PhaseOf[s.state] \in Phases
                        /\ PhaseOf[s.state] \notin Work \cup {"ready_for_merge",
                                                              "retirement_required"}
  /\ WorkPhases[1] \in Work /\ Work \subseteq Phases
  /\ "intake" \notin Work /\ "ready_for_merge" \notin Work
  /\ "retirement_required" \notin Work /\ "retirement_required" \in Phases
<1>1. 1 \in DOMAIN WorkPhases
  BY PhaseAssumption
<1>2. WorkPhases[1] \in Work /\ Work \subseteq Phases
  BY <1>1 DEF Work, Phases
<1>3. QED
  BY <1>2, SourceAssumption, PhaseAssumption DEF SourceStates, PhaseOf, Phases

LEMMA AfterFacts ==
  ASSUME NEW phase \in Work
  PROVE  After(phase) \in (Work \ {WorkPhases[1]}) \cup {"ready_for_merge"}
<1>1. PICK k \in DOMAIN WorkPhases : WorkPhases[k] = phase
  BY DEF Work
<1> DEFINE i == CHOOSE j \in DOMAIN WorkPhases : WorkPhases[j] = phase
<1>2. i \in DOMAIN WorkPhases /\ WorkPhases[i] = phase
  BY <1>1
<1> HIDE DEF i
<1>3. CASE i = Len(WorkPhases)
  BY <1>2, <1>3 DEF After, i
<1>4. CASE i # Len(WorkPhases)
  <2>1. i + 1 \in DOMAIN WorkPhases /\ i + 1 # 1 /\ 1 \in DOMAIN WorkPhases
    BY <1>2, <1>4, PhaseAssumption
  <2>2. WorkPhases[i + 1] # WorkPhases[1] /\ WorkPhases[i + 1] \in Work
    BY <2>1, PhaseAssumption DEF Work
  <2>3. After(phase) = WorkPhases[i + 1]
    BY <1>4 DEF After, i
  <2>4. QED
    BY <2>2, <2>3
<1>5. QED
  BY <1>3, <1>4

LEMMA NewItemFacts ==
  ASSUME NEW src \in Sources, NEW act
  PROVE  NewItem(src) \in Items /\ Facts(NewItem(src), act)
<1> USE PhaseFacts, NoneFacts
<1>1. NewItem(src) \in Items
  BY DEF NewItem, Fresh, Items
<1>2. NewItem(src).checkpoints = <<>>
  BY DEF NewItem, Fresh
<1>3. CheckpointFacts(NewItem(src), act)
  BY <1>2 DEF CheckpointFacts
<1>4. QED
  BY <1>1, <1>3 DEF Facts, RunFacts, LastFacts, EvidenceFacts, NewItem, Fresh

LEMMA SupersededFacts ==
  ASSUME item \in Items, NEW act, Facts(item, act),
         NEW src \in Sources, Newer(src)
  PROVE  Superseded(src) \in Items /\ Facts(Superseded(src), act)
<1> DEFINE new == Superseded(src)
<1>0. item.epoch \in Nat /\ item.source \in Sources
  BY DEF Items
<1>1. CASE item.run = None
  <2>1. new = Fresh(src, item.epoch + 1, PhaseOf[src.state], None)
    BY <1>1 DEF Superseded
  <2>2. new \in Items /\ new.checkpoints = <<>>
    BY <1>0, <2>1, PhaseFacts DEF Fresh, Items
  <2>3. CheckpointFacts(new, act)
    BY <2>2 DEF CheckpointFacts
  <2>4. QED
    BY <2>1, <2>2, <2>3, PhaseFacts
      DEF Facts, RunFacts, LastFacts, EvidenceFacts, Fresh
<1>2. CASE item.run # None
  <2> DEFINE r == Invalidated
  <2>1. item.run \in Runs
    BY <1>2 DEF Items
  <2>2. /\ r \in Runs /\ HandleOf(r) = HandleOf(item.run) /\ r.invalidated
        /\ r.handle = item.run.handle /\ r.ended = item.run.ended
        /\ r.epoch = item.run.epoch /\ r.source = item.run.source
        /\ r.binding = item.run.binding
    BY <2>1 DEF Runs, HandleOf, Invalidated
  <2> HIDE DEF r
  <2>3. new = Fresh(src, item.epoch + 1, "retirement_required", r)
    BY <1>2 DEF Superseded, r
  <2>4. new \in Items /\ new.checkpoints = <<>>
    BY <1>0, <2>2, <2>3, PhaseFacts DEF Fresh, Items
  <2>5. CheckpointFacts(new, act)
    BY <2>4 DEF CheckpointFacts
  <2>6. r.source # src /\ r.source.rev <= src.rev
    <3>1. item.run.source.rev <= item.source.rev /\ item.run.source \in Sources
      BY <1>2, <2>1 DEF Facts, RunFacts, Runs
    <3>2. QED
      BY <1>0, <2>2, <3>1, PhaseFacts DEF Newer
  <2>7. /\ new.run = r /\ new.source = src /\ new.epoch = item.epoch + 1
        /\ new.phase = "retirement_required" /\ new.last = None /\ new.evidence = None
    BY <2>3 DEF Fresh
  <2>8. /\ item.run.ended = "no" /\ item.run.epoch <= item.epoch
        /\ item.run.handle \in {None, HandleOf(item.run)}
        /\ item.run.binding # None => item.run.binding.source = item.run.source
    BY <1>2 DEF Facts, RunFacts
  <2>9. RunFacts(new)
    <3>1. r.epoch \in Nat /\ r.epoch <= item.epoch + 1
      BY <1>0, <2>1, <2>2, <2>8 DEF Runs
    <3>2. QED
      BY <2>2, <2>6, <2>7, <2>8, <3>1, NoneFacts DEF RunFacts
  <2>10. QED
    BY <2>4, <2>5, <2>7, <2>9, PhaseFacts DEF Facts, LastFacts, EvidenceFacts
<1>3. QED
  BY <1>1, <1>2

LEMMA ClaimFacts ==
  ASSUME item \in Items, NEW act, Facts(item, act),
         NEW o \in Owners, NEW b \in Bindings \cup {None}, Claim(o, b),
         b # None => b.source = item.source
  PROVE  /\ item' \in Items /\ Facts(item', act)
         /\ item'.run = NewRun(o, b) /\ item'.epoch = item.epoch + 1
<1> DEFINE new == item'
<1> DEFINE r == NewRun(o, b)
<1>1. /\ item.epoch \in Nat /\ item.source \in Sources /\ item.attempts \in Nat
      /\ item.phase \in Phases /\ item.last \in Runs \cup {None}
      /\ item.evidence \in Evidence \cup {None} /\ item.checkpoints \in Seq(Checkpoints)
  BY DEF Items
<1>2. /\ r \in Runs /\ r.epoch = item.epoch + 1 /\ r.source = item.source
      /\ r.handle = None /\ ~r.invalidated /\ r.binding = b /\ r.ended = "no"
  BY <1>1 DEF NewRun, Runs
<1> HIDE DEF r
<1>3. item.run = None /\ item.phase \in Work \cup {"intake"}
  BY DEF Claim, Claimable
<1>4. new = [item EXCEPT !.epoch = item.epoch + 1, !.attempts = item.attempts + 1,
                         !.run = r,
                         !.phase = IF item.phase = "intake" THEN WorkPhases[1]
                                   ELSE item.phase]
  BY DEF Claim, r
<1>5. /\ new.epoch = item.epoch + 1 /\ new.run = r /\ new.source = item.source
      /\ new.last = item.last /\ new.evidence = item.evidence
      /\ new.checkpoints = item.checkpoints
      /\ new.phase = IF item.phase = "intake" THEN WorkPhases[1] ELSE item.phase
      /\ new \in Items
  <2> DEFINE p == IF item.phase = "intake" THEN WorkPhases[1] ELSE item.phase
  <2>1. p \in Phases
    BY <1>1, PhaseFacts
  <2>2. new = [item EXCEPT !.epoch = item.epoch + 1, !.attempts = item.attempts + 1,
                           !.run = r, !.phase = p]
    BY <1>4
  <2> HIDE DEF p, new
  <2>3. new \in Items
    <3>1. item.epoch + 1 \in Nat /\ item.attempts + 1 \in Nat /\ r \in Runs \cup {None}
      BY <1>1, <1>2
    <3>2. QED
      BY <2>1, <2>2, <3>1 DEF Items
  <2>4. /\ new.epoch = item.epoch + 1 /\ new.run = r /\ new.source = item.source
        /\ new.last = item.last /\ new.evidence = item.evidence
        /\ new.checkpoints = item.checkpoints /\ new.phase = p
    BY <2>2 DEF Items
  <2>5. QED
    BY <2>3, <2>4 DEF p
<1> HIDE DEF new
<1>6. new.phase \in Work
  BY <1>3, <1>5, PhaseFacts
<1>7. item.last # None => item.last.epoch < item.epoch /\ item.last.epoch \in Nat
  BY <1>1 DEF Facts, LastFacts, Runs
<1>8. RunFacts(new)
  BY <1>1, <1>2, <1>5, <1>6, <1>7, PhaseFacts, NoneFacts DEF RunFacts
<1>9. LastFacts(new, act)
  BY <1>1, <1>5, <1>7 DEF Facts, LastFacts
<1>10. EvidenceFacts(new)
  <2>1. EvidenceFacts(item) /\ (item.evidence # None => item.evidence.run \in Nat)
    BY <1>1 DEF Facts, Evidence
  <2>2. QED
    BY <1>1, <1>2, <1>3, <1>5, <2>1, PhaseFacts, NoneFacts DEF EvidenceFacts
<1>11. CheckpointFacts(new, act)
  <2>1. \A i \in DOMAIN item.checkpoints : item.checkpoints[i] \in Checkpoints
    BY <1>1
  <2>2. SUFFICES ASSUME NEW i \in DOMAIN item.checkpoints
                 PROVE  Earned(new, act, i) /\ Recorded(new, item.checkpoints[i])
    BY <1>5 DEF CheckpointFacts
  <2>3. Earned(item, act, i) /\ Recorded(item, item.checkpoints[i])
    BY DEF Facts, CheckpointFacts
  <2>4. item.checkpoints[i].run \in Nat
    BY <2>1 DEF Checkpoints
  <2>5. Earned(new, act, i)
    BY <1>5, <2>3 DEF Earned
  <2>6. Recorded(new, item.checkpoints[i])
    BY <1>1, <1>2, <1>5, <2>3, <2>4, NoneFacts DEF Recorded
  <2>7. QED
    BY <2>5, <2>6
<1>12. QED
  BY <1>5, <1>8, <1>9, <1>10, <1>11 DEF Facts, new, r

\* The run of an item learns its handle.
LEMMA HandledFacts ==
  ASSUME item \in Items, NEW act, Facts(item, act), item.run # None,
         NEW h \in {None, HandleOf(item.run)}
  PROVE  LET new == [item EXCEPT !.run.handle = h]
         IN new \in Items /\ Facts(new, act) /\ Later(item, new)
<1> DEFINE new == [item EXCEPT !.run.handle = h]
<1> DEFINE r == [item.run EXCEPT !.handle = h]
<1>1. /\ item.run \in Runs /\ item.epoch \in Nat /\ item.source \in Sources
      /\ item.last \in Runs \cup {None} /\ item.evidence \in Evidence \cup {None}
      /\ item.checkpoints \in Seq(Checkpoints)
  BY DEF Items
<1>2. HandleOf(item.run) \in Handles
  BY <1>1 DEF HandleOf, Handles, Runs
<1>3. /\ r \in Runs /\ r.handle = h /\ HandleOf(r) = HandleOf(item.run)
      /\ r.epoch = item.run.epoch /\ r.source = item.run.source
      /\ r.invalidated = item.run.invalidated /\ r.binding = item.run.binding
      /\ r.ended = item.run.ended
  BY <1>1, <1>2 DEF HandleOf, Runs
<1>4. new = [item EXCEPT !.run = r]
  OBVIOUS
<1> HIDE DEF r, new
<1>5. /\ new \in Items /\ new.run = r /\ new.epoch = item.epoch /\ new.source = item.source
      /\ new.phase = item.phase /\ new.last = item.last /\ new.evidence = item.evidence
      /\ new.checkpoints = item.checkpoints
  BY <1>3, <1>4 DEF Items
<1>6. RunFacts(new)
  BY <1>1, <1>3, <1>5, NoneFacts DEF Facts, RunFacts
<1>7. LastFacts(new, act) /\ EvidenceFacts(new)
  BY <1>1, <1>3, <1>5, NoneFacts DEF Facts, LastFacts, EvidenceFacts
<1>8. CheckpointFacts(new, act)
  BY <1>1, <1>3, <1>5, NoneFacts DEF Facts, CheckpointFacts, Earned, Recorded
<1>9. Later(item, new)
  BY <1>1, <1>3, <1>5, NoneFacts DEF Later
<1>10. QED
  BY <1>5, <1>6, <1>7, <1>8, <1>9 DEF Facts, new

LEMMA RetiredFacts ==
  ASSUME item \in Items, NEW act, Facts(item, act), item.run # None,
         NEW h \in {None, HandleOf(item.run)}, NEW state \in {"terminal", "missing"},
         state = "terminal" /\ item.run.binding # None =>
           act[item.run.binding] = "terminal"
  PROVE  Retired(state, h) \in Items /\ Facts(Retired(state, h), act)
         /\ Later(item, Retired(state, h))
<1> DEFINE new == Retired(state, h)
<1> DEFINE g == IF item.run.handle = None THEN h ELSE item.run.handle
<1> DEFINE r == [item.run EXCEPT !.handle = g, !.ended = state]
<1> DEFINE p == IF item.phase = "retirement_required" THEN PhaseOf[item.source.state]
                ELSE item.phase
<1>1. /\ item.run \in Runs /\ item.epoch \in Nat /\ item.source \in Sources
      /\ item.evidence \in Evidence \cup {None} /\ item.phase \in Phases
      /\ item.checkpoints \in Seq(Checkpoints)
  BY DEF Items
<1>2. HandleOf(item.run) \in Handles
  BY <1>1 DEF HandleOf, Handles, Runs
<1>3. g \in {None, HandleOf(item.run)} /\ g \in Handles \cup {None}
  BY <1>2 DEF Facts, RunFacts
<1>4. new = [item EXCEPT !.last = r, !.run = None, !.epoch = item.epoch + 1, !.phase = p]
  BY DEF Retired
<1>5. p \in Phases /\ p # "retirement_required"
  BY <1>1, PhaseFacts
<1>6. p = item.phase \/ p \notin Work \cup {"ready_for_merge"}
  BY <1>1, PhaseFacts
<1> HIDE DEF g, p, new
<1>7. /\ r \in Runs /\ r.handle = g /\ HandleOf(r) = HandleOf(item.run)
      /\ r.epoch = item.run.epoch /\ r.source = item.run.source
      /\ r.binding = item.run.binding /\ r.ended = state
  BY <1>1, <1>3 DEF HandleOf, Runs
<1> HIDE DEF r
<1>8. new \in Items
  <2>1. item.epoch + 1 \in Nat /\ r \in Runs \cup {None}
    BY <1>1, <1>7
  <2>2. QED
    BY <1>4, <1>5, <2>1 DEF Items
<1>9. /\ new.run = None /\ new.epoch = item.epoch + 1 /\ new.source = item.source
      /\ new.phase = p /\ new.last = r /\ new.evidence = item.evidence
      /\ new.checkpoints = item.checkpoints
  BY <1>4 DEF Items
<1>10. item.run.epoch <= item.epoch /\ item.run.epoch \in Nat
  BY <1>1 DEF Facts, RunFacts, Runs
<1>11. RunFacts(new)
  BY <1>5, <1>9 DEF RunFacts
<1>12. LastFacts(new, act)
  <2>1. item.run.binding # None => item.run.binding.source = item.run.source
    BY DEF Facts, RunFacts
  <2>2. QED
    BY <1>1, <1>3, <1>7, <1>9, <1>10, <2>1 DEF LastFacts
<1>13. EvidenceFacts(new)
  <2>1. item.evidence # None => item.evidence.run \in Nat
    BY <1>1 DEF Evidence
  <2>2. EvidenceFacts(item)
    BY DEF Facts
  <2>3. new.phase \in (Work \ {WorkPhases[1]}) \cup {"ready_for_merge"} =>
          /\ new.evidence # None
          /\ new.evidence.source = new.source
          /\ After(new.evidence.phase) = new.phase
    BY <1>6, <1>9, <2>2 DEF EvidenceFacts
  <2>4. new.evidence # None =>
          /\ new.evidence.run < new.epoch
          /\ new.last # None => new.evidence.run < new.last.epoch
    BY <1>1, <1>7, <1>9, <2>1, <2>2 DEF EvidenceFacts
  <2>5. QED
    BY <1>9, <2>3, <2>4 DEF EvidenceFacts
<1>14. CheckpointFacts(new, act)
  <2>1. SUFFICES ASSUME NEW i \in DOMAIN item.checkpoints
                 PROVE  Earned(new, act, i) /\ Recorded(new, item.checkpoints[i])
    BY <1>9 DEF CheckpointFacts
  <2>2. Earned(item, act, i) /\ Recorded(item, item.checkpoints[i])
    BY DEF Facts, CheckpointFacts
  <2>3. item.checkpoints[i].run \in Nat
    <3>1. item.checkpoints[i] \in Checkpoints
      BY <1>1
    <3>2. QED
      BY <3>1 DEF Checkpoints
  <2>4. Earned(new, act, i)
    BY <1>9, <2>2 DEF Earned
  <2>5. Recorded(new, item.checkpoints[i])
    BY <1>1, <1>7, <1>9, <2>2, <2>3 DEF Recorded
  <2>6. QED
    BY <2>4, <2>5
<1>15. Later(item, new)
  BY <1>1, <1>8, <1>9, NoneFacts DEF Later
<1>16. QED
  BY <1>8, <1>11, <1>12, <1>13, <1>14, <1>15 DEF Facts, new

LEMMA AdvancedFacts ==
  ASSUME item \in Items, NEW act, Facts(item, act), AdmitsEvidence(item)
  PROVE  /\ Advanced \in Items /\ Facts(Advanced, act) /\ Later(item, Advanced)
         /\ Advanced.evidence.run = item.last.epoch
<1> DEFINE new == Advanced
<1> DEFINE e == [phase |-> item.phase, source |-> item.last.source, run |-> item.last.epoch]
<1>1. /\ item.epoch \in Nat /\ item.source \in Sources /\ item.last \in Runs
      /\ item.checkpoints \in Seq(Checkpoints) /\ item.phase \in Work
      /\ item.run = None /\ item.last.source = item.source
  BY DEF Items, AdmitsEvidence
<1>2. e \in Evidence /\ e.run = item.last.epoch /\ e.source = item.source
      /\ e.phase = item.phase
  BY <1>1 DEF Evidence, Runs
<1>3. new = [item EXCEPT !.phase = After(item.phase), !.attempts = 0, !.last = None,
                         !.evidence = e]
  BY DEF Advanced
<1>4. After(item.phase) \in (Work \ {WorkPhases[1]}) \cup {"ready_for_merge"}
  BY <1>1, AfterFacts
<1>5. After(item.phase) \in Phases /\ After(item.phase) # "retirement_required"
  BY <1>4, PhaseFacts DEF Phases
<1> HIDE DEF e, new
<1>6. new \in Items
  BY <1>2, <1>3, <1>5 DEF Items
<1>7. /\ new.run = None /\ new.epoch = item.epoch /\ new.source = item.source
      /\ new.phase = After(item.phase) /\ new.last = None /\ new.evidence = e
      /\ new.checkpoints = item.checkpoints
  BY <1>1, <1>3 DEF Items
<1>8. item.last.epoch < item.epoch /\ item.last.epoch \in Nat
  BY <1>1, NoneFacts DEF Facts, LastFacts, Runs
<1>9. RunFacts(new) /\ LastFacts(new, act) /\ EvidenceFacts(new)
  BY <1>2, <1>4, <1>5, <1>7, <1>8, NoneFacts DEF RunFacts, LastFacts, EvidenceFacts
<1>10. CheckpointFacts(new, act)
  <2>1. SUFFICES ASSUME NEW i \in DOMAIN item.checkpoints
                 PROVE  Earned(new, act, i) /\ Recorded(new, item.checkpoints[i])
    BY <1>7 DEF CheckpointFacts
  <2>2. Earned(item, act, i) /\ Recorded(item, item.checkpoints[i])
    BY DEF Facts, CheckpointFacts
  <2>3. QED
    BY <1>7, <2>2 DEF Earned, Recorded
<1>11. Later(item, new)
  BY <1>1, <1>6, <1>7, NoneFacts DEF Later
<1>12. QED
  BY <1>2, <1>6, <1>7, <1>9, <1>10, <1>11 DEF Facts, new

\* An action that has ended stays ended, and nothing else depends on the actions.
LEMMA EndedFacts ==
  ASSUME NEW it \in Items, NEW act, NEW act2, Facts(it, act), Ended(act, act2)
  PROVE  Facts(it, act2)
<1>1. /\ it.last \in Runs \cup {None} /\ it.checkpoints \in Seq(Checkpoints)
  BY DEF Items
<1>2. LastFacts(it, act2)
  BY <1>1 DEF Facts, LastFacts, Ended, Runs
<1>3. CheckpointFacts(it, act2)
  <2>1. SUFFICES ASSUME NEW i \in DOMAIN it.checkpoints
                 PROVE  Earned(it, act2, i)
    BY DEF Facts, CheckpointFacts
  <2>2. Earned(it, act, i) /\ it.checkpoints[i].binding \in Bindings
    <3>1. it.checkpoints[i] \in Checkpoints
      BY <1>1
    <3>2. QED
      BY <3>1 DEF Facts, CheckpointFacts, Checkpoints
  <2>3. QED
    BY <2>2 DEF Earned, Ended
<1>4. QED
  BY <1>2, <1>3 DEF Facts

\* A phase is recorded of the last run.
LEMMA RecordedFacts ==
  ASSUME item \in Items, NEW act, Facts(item, act), PhaseAllowed(item),
         NEW o, Concluded(item, o)
  PROVE  Checkpointed \in Items /\ Facts(Checkpointed, act) /\ Later(item, Checkpointed)
<1> DEFINE new == Checkpointed
<1> DEFINE cs == item.checkpoints
<1> DEFINE n == Len(cs)
<1> DEFINE c == [binding |-> item.last.binding, phase |-> Pending(item),
                 source |-> item.last.source, run |-> item.last.epoch]
<1>1. /\ item.epoch \in Nat /\ item.source \in Sources /\ item.last \in Runs
      /\ cs \in Seq(Checkpoints) /\ item.run = None
      /\ item.last.source = item.source /\ item.last.ended = "terminal"
      /\ item.last.binding \in Bindings /\ item.last.binding.phase = Pending(item)
  BY NoneFacts DEF Items, Concluded, Runs
<1>2. n \in Nat /\ n + 1 <= Len(IncidentPhases) /\ Pending(item) = IncidentPhases[n + 1]
      /\ Pending(item) \in STRING
  BY <1>1, PhaseAssumption DEF PhaseAllowed, Pending
<1>3. /\ c \in Checkpoints /\ c.run = item.last.epoch /\ c.phase = Pending(item)
      /\ c.source = item.source /\ c.binding = item.last.binding
  BY <1>1, <1>2 DEF Checkpoints, Runs
<1>4. new = [item EXCEPT !.attempts = 0, !.checkpoints = Append(cs, c)]
  BY DEF Checkpointed
<1> HIDE DEF c, new
<1>5. Append(cs, c) \in Seq(Checkpoints)
  BY <1>1, <1>3
<1>6. new \in Items
  <2> DEFINE ds == Append(cs, c)
  <2>1. ds \in Seq(Checkpoints) /\ new = [item EXCEPT !.attempts = 0, !.checkpoints = ds]
    BY <1>4, <1>5
  <2> HIDE DEF ds
  <2>2. QED
    BY <2>1 DEF Items
<1>7. /\ new.run = None /\ new.epoch = item.epoch /\ new.source = item.source
      /\ new.phase = item.phase /\ new.last = item.last /\ new.evidence = item.evidence
      /\ new.checkpoints = Append(cs, c)
  BY <1>1, <1>4 DEF Items
<1>8. /\ item.last.epoch < item.epoch /\ item.last.epoch \in Nat
      /\ item.last.binding.source = item.source
      /\ act[item.last.binding] = "terminal"
  BY <1>1, NoneFacts DEF Facts, LastFacts, Runs
<1>9. RunFacts(new) /\ LastFacts(new, act) /\ EvidenceFacts(new)
  BY <1>1, <1>7 DEF Facts, RunFacts, LastFacts, EvidenceFacts
<1>10. CheckpointFacts(new, act)
  <2>1. SUFFICES ASSUME NEW i \in 1..(n + 1)
                 PROVE  Earned(new, act, i) /\ Recorded(new, new.checkpoints[i])
    BY <1>1, <1>3, <1>5, <1>7 DEF CheckpointFacts
  <2>2. \A j \in 1..n : /\ new.checkpoints[j] = cs[j] /\ cs[j] \in Checkpoints
                        /\ Earned(item, act, j) /\ Recorded(item, cs[j])
    BY <1>1, <1>7 DEF Facts, CheckpointFacts
  <2>3. CASE i \in 1..n
    <3>1. \A j \in 1..(i - 1) : j \in 1..n
      BY <1>2, <2>3
    <3>2. Earned(new, act, i)
      BY <1>7, <2>2, <2>3, <3>1 DEF Earned
    <3>3. Recorded(new, new.checkpoints[i])
      BY <1>7, <2>2, <2>3 DEF Recorded
    <3>4. QED
      BY <3>2, <3>3
  <2>4. CASE i = n + 1
    <3>1. new.checkpoints[i] = c
      BY <1>1, <1>2, <1>3, <1>7, <2>4
    <3>2. \A j \in 1..n : cs[j].run < item.last.epoch
      <4>1. SUFFICES ASSUME NEW j \in 1..n PROVE cs[j].run < item.last.epoch
        OBVIOUS
      <4>2. cs[j].phase = IncidentPhases[j] /\ Recorded(item, cs[j])
        BY <2>2 DEF Earned
      <4>3. j \in DOMAIN IncidentPhases /\ n + 1 \in DOMAIN IncidentPhases /\ j # n + 1
        BY <1>2, PhaseAssumption
      <4>4. cs[j].phase # Pending(item)
        BY <1>2, <4>2, <4>3, PhaseAssumption
      <4>5. item.last # None /\ item.last.binding.phase = Pending(item)
        BY <1>1, NoneFacts
      <4>6. QED
        BY <4>2, <4>4, <4>5 DEF Recorded
    <3>3. Earned(new, act, i)
      <4>1. \A j \in 1..(i - 1) : new.checkpoints[j].run < c.run
        BY <1>2, <1>3, <2>2, <2>4, <3>2
      <4>2. /\ i <= Len(IncidentPhases) /\ c.phase = IncidentPhases[i]
            /\ c.binding.phase = c.phase
        BY <1>1, <1>2, <1>3, <2>4
      <4>3. QED
        BY <1>3, <1>7, <1>8, <3>1, <4>1, <4>2 DEF Earned
    <3>4. Recorded(new, c)
      BY <1>1, <1>3, <1>7, <1>8, NoneFacts DEF Recorded
    <3>5. QED
      BY <3>1, <3>3, <3>4
  <2>5. QED
    BY <1>2, <2>3, <2>4
<1>11. Later(item, new)
  BY <1>1, <1>6, <1>7, NoneFacts DEF Later
<1>12. QED
  BY <1>6, <1>7, <1>9, <1>10, <1>11 DEF Facts, new

-----------------------------------------------------------------------------
(* What a worker holds, whatever the others do. *)

LEMMA HeldStays ==
  ASSUME NEW k \in WorkerType, NEW it \in Items \cup {None}, NEW new \in Items \cup {None},
         NEW act, NEW act2, Held(k, it, act), Later(it, new), Ended(act, act2)
  PROVE  Held(k, new, act2)
<1>1. /\ k.snap \in Items \cup {None} /\ k.binding \in Bindings \cup {None}
  BY DEF WorkerType
<1>2. CASE k.pc = "idle"
  BY <1>2 DEF Held, Looking
<1>3. CASE k.pc # "idle"
  <2>1. Copied(k, it) /\ it \in Items
    BY <1>3 DEF Held, Copied
  <2>2. /\ k.snap \in Items /\ k.snap.epoch \in Nat /\ it.epoch \in Nat
        /\ k.snap.run \in Runs \cup {None} /\ it.run \in Runs \cup {None}
    BY <1>1, <2>1 DEF Copied, Items
  <2>3. /\ new \in Items /\ new.epoch \in Nat /\ new.run \in Runs \cup {None}
        /\ it.epoch <= new.epoch
        /\ new.run # None =>
             \/ it.epoch < new.run.epoch
             \/ it.run # None /\ new.run.epoch = it.run.epoch
                  /\ new.run.binding = it.run.binding
    BY <2>1, NoneFacts DEF Later, Items
  <2>4. /\ k.snap.epoch <= it.epoch
        /\ k.snap.run # None =>
             /\ k.snap.run.epoch <= k.snap.epoch
             /\ it.run # None /\ it.run.epoch = k.snap.run.epoch =>
                  it.run.binding = k.snap.run.binding
    BY <2>1 DEF Copied
  <2>5. /\ k.snap.run # None => k.snap.run.epoch \in Nat /\ k.snap.run.binding \in Bindings \cup {None}
        /\ it.run # None => it.run.epoch \in Nat
        /\ new.run # None => new.run.epoch \in Nat
    BY <2>2, <2>3 DEF Runs
  <2>6. k.snap.run # None /\ new.run # None /\ new.run.epoch = k.snap.run.epoch =>
          new.run.binding = k.snap.run.binding
    BY <2>2, <2>3, <2>4, <2>5
  <2>7. Copied(k, new)
    BY <2>2, <2>3, <2>4, <2>6, NoneFacts DEF Copied
  <2>8. /\ k.binding \in Bindings /\ act[k.binding] = "terminal" => act2[k.binding] = "terminal"
        /\ k.snap.run # None /\ k.snap.run.binding # None
             /\ act[k.snap.run.binding] = "terminal" => act2[k.snap.run.binding] = "terminal"
    BY <2>5 DEF Ended
  <2>9. QED
    BY <1>3, <2>7, <2>8 DEF Held, Looking
<1>4. QED
  BY <1>2, <1>3

IngressType == SUBSET ((Events \cup {Observed(src) : src \in Sources}) \X Sources)

Keeps == IInv' /\ Later(item, item')

\* One worker moves, the others hold what they held.
LEMMA StepHolds ==
  ASSUME IInv, NEW w \in Workers, NEW new \in WorkerType, Becomes(w, new),
         item' \in Items \cup {None}, item' # None => Facts(item', action'),
         ingress' \in IngressType, action' \in Actions,
         Later(item, item'), Ended(action, action'), Held(new, item', action')
  PROVE  Keeps
<1>1. /\ item \in Items \cup {None} /\ worker \in [Workers -> WorkerType]
      /\ \A v \in Workers : Held(worker[v], item, action)
  BY DEF IInv, TypeOK
<1>2. worker' \in [Workers -> WorkerType] /\ worker'[w] = new
      /\ \A v \in Workers \ {w} : worker'[v] = worker[v]
  BY <1>1 DEF Becomes
<1>3. ASSUME NEW v \in Workers PROVE Held(worker'[v], item', action')
  <2>1. CASE v = w
    BY <1>2, <2>1
  <2>2. CASE v # w
    <3>1. Held(worker[v], item', action')
      BY <1>1, HeldStays
    <3>2. QED
      BY <1>2, <2>2, <3>1
  <2>3. QED
    BY <2>1, <2>2
<1>4. TypeOK'
  BY <1>2 DEF TypeOK, IngressType, Actions
<1>5. QED
  BY <1>3, <1>4 DEF IInv, Keeps

LEMMA IdleFacts ==
  Idle \in WorkerType /\ \A it, act : Held(Idle, it, act)
<1>1. Idle.pc = "idle"
  BY DEF Idle
<1>2. Idle \in WorkerType
  BY DEF Idle, WorkerType, Positions
<1>3. QED
  BY <1>1, <1>2 DEF Held, Looking

\* A step that only reads.
LEMMA ReadingHolds ==
  ASSUME IInv, NEW w \in Workers, NEW new \in WorkerType, Becomes(w, new),
         UNCHANGED <<storeVars, action>>, Held(new, item, action)
  PROVE  Keeps
<1>1. /\ item' = item /\ ingress' = ingress /\ action' = action
  BY DEF storeVars
<1>2. /\ item \in Items \cup {None} /\ ingress \in IngressType /\ action \in Actions
      /\ item # None => Facts(item, action)
  BY DEF IInv, TypeOK, IngressType, Actions
<1>3. Later(item, item') /\ Ended(action, action')
  BY <1>1, <1>2 DEF Later, Ended, Items
<1>4. QED
  BY <1>1, <1>2, <1>3, StepHolds

\* A step that writes the item and ends the call, or goes on from the new item.
LEMMA WritingHolds ==
  ASSUME IInv, NEW w \in Workers, NEW new \in WorkerType, Becomes(w, new),
         item' \in Items, Facts(item', action), Later(item, item'),
         UNCHANGED <<ingress, action>>, Held(new, item', action)
  PROVE  Keeps
<1>1. ingress' = ingress /\ action' = action
  OBVIOUS
<1>2. ingress \in IngressType /\ action \in Actions
  BY DEF IInv, TypeOK, IngressType, Actions
<1>3. Ended(action, action')
  BY <1>1 DEF Ended
<1>4. QED
  BY <1>1, <1>2, <1>3, StepHolds

-----------------------------------------------------------------------------
(* The steps that only read. *)

\* A call that starts from the present item.
LEMMA CopyFacts ==
  ASSUME IInv, item # None
  PROVE  /\ item \in Items /\ Facts(item, action) /\ item.source \in Sources
         /\ \A k : k.snap = item => Copied(k, item)
<1>1. item \in Items /\ Facts(item, action)
  BY DEF IInv, TypeOK
<1>2. item.epoch \in Nat /\ item.source \in Sources /\ item.run \in Runs \cup {None}
  BY <1>1 DEF Items
<1>3. item.run # None => item.run.epoch <= item.epoch
  BY <1>1 DEF Facts, RunFacts
<1>4. QED
  BY <1>1, <1>2, <1>3 DEF Copied

LEMMA WorkerFacts ==
  ASSUME IInv, NEW w \in Workers, ~At(w, "idle")
  PROVE  LET k == worker[w]
         IN /\ k \in WorkerType /\ Held(k, item, action) /\ Copied(k, item)
            /\ k.snap \in Items /\ item \in Items /\ Facts(item, action)
            /\ k.owner \in Owners \cup {None} /\ k.binding \in Bindings \cup {None}
            /\ k.state \in {"none", "live", "terminal", "missing", "unknown"}
            /\ k.handle \in Handles \cup {None}
<1>1. worker[w] \in WorkerType /\ Held(worker[w], item, action)
  BY DEF IInv, TypeOK
<1>2. Copied(worker[w], item)
  BY <1>1 DEF Held, At
<1>3. item # None /\ item \in Items /\ Facts(item, action)
  BY <1>2 DEF IInv, TypeOK, Copied
<1>4. QED
  BY <1>1, <1>2, <1>3 DEF WorkerType, Copied

LEMMA BindingFacts ==
  ASSUME NEW it \in Items, PhaseAllowed(it), NEW policy \in Policies
  PROVE  Intent(it, policy) \in Bindings /\ Intent(it, policy).source = it.source
<1>1. it.source \in Sources /\ Len(it.checkpoints) \in Nat
  BY DEF Items
<1>2. Len(it.checkpoints) + 1 \in DOMAIN IncidentPhases
  BY <1>1, PhaseAssumption DEF PhaseAllowed
<1>3. QED
  BY <1>1, <1>2 DEF Intent, Pending, Bindings

LEMMA PrepareHolds ==
  ASSUME IInv, NEW w \in Workers, Prepare(w)
  PROVE  Keeps
<1>1. PICK o \in Owners, policy \in Policies :
        /\ RunAdmits(item, o, Intent(item, policy))
        /\ Becomes(w, [Idle EXCEPT !.pc = "lookup", !.owner = o, !.snap = item,
                                   !.binding = Intent(item, policy)])
  BY DEF Prepare
<1> DEFINE b == Intent(item, policy)
<1> DEFINE new == [Idle EXCEPT !.pc = "lookup", !.owner = o, !.snap = item, !.binding = b]
<1>2. item \in Items /\ \A k : k.snap = item => Copied(k, item)
  BY CopyFacts DEF Prepare
<1>3. b \in Bindings /\ b.source = item.source
  BY <1>2, BindingFacts DEF Prepare
<1>4. item.run # None => item.run.binding = b
  BY <1>1 DEF RunAdmits
<1> HIDE DEF b
<1>5. /\ new \in WorkerType /\ new.pc = "lookup" /\ new.owner = o /\ new.snap = item
      /\ new.binding = b
  BY <1>2, <1>3 DEF Idle, WorkerType, Positions
<1> HIDE DEF new
<1>6. Copied(new, item)
  BY <1>2, <1>5
<1>7. Held(new, item, action)
  BY <1>3, <1>4, <1>5, <1>6 DEF Held, Looking
<1>8. QED
  BY <1>1, <1>5, <1>7, ReadingHolds DEF Prepare, new, b

LEMMA LookupHolds ==
  ASSUME IInv, NEW w \in Workers, Lookup(w)
  PROVE  Keeps
<1> DEFINE k == worker[w]
<1> DEFINE new == [k EXCEPT !.pc = "looked", !.state = Seen(k.binding)]
<1>1. k.pc = "lookup" /\ Becomes(w, new)
  BY DEF Lookup, At
<1>2. /\ k \in WorkerType /\ Held(k, item, action) /\ Copied(k, item)
  BY <1>1, WorkerFacts DEF At
<1>3. k.binding \in Bindings
  BY <1>1, <1>2 DEF Held, Looking
<1>4. action[k.binding] \in {"never", "live", "terminal"}
  BY <1>3 DEF IInv, TypeOK
<1>5. /\ Seen(k.binding) \in {"live", "terminal", "missing"}
      /\ Seen(k.binding) = "terminal" => action[k.binding] = "terminal"
  BY <1>4 DEF Seen
<1> HIDE DEF k
<1>6. /\ new \in WorkerType /\ new.pc = "looked" /\ new.state = Seen(k.binding)
      /\ new.owner = k.owner /\ new.snap = k.snap /\ new.binding = k.binding
  BY <1>2, <1>5 DEF WorkerType, Positions
<1> HIDE DEF new
<1>7. Copied(new, item)
  BY <1>2, <1>6 DEF Copied
<1>8. Held(new, item, action)
  BY <1>1, <1>2, <1>5, <1>6, <1>7 DEF Held, Looking
<1>9. QED
  BY <1>1, <1>6, <1>8, ReadingHolds DEF Lookup, new, k

\* A worker that goes on to pc with what it has.
LEMMA MovesFacts ==
  ASSUME NEW k \in WorkerType, NEW pc \in Positions, NEW it, Copied(k, it)
  PROVE  LET new == [k EXCEPT !.pc = pc]
         IN /\ new \in WorkerType /\ new.pc = pc /\ new.owner = k.owner
            /\ new.snap = k.snap /\ new.binding = k.binding
            /\ new.state = k.state /\ new.handle = k.handle /\ Copied(new, it)
<1> DEFINE new == [k EXCEPT !.pc = pc]
<1>1. /\ new \in WorkerType /\ new.pc = pc /\ new.owner = k.owner
      /\ new.snap = k.snap /\ new.binding = k.binding
      /\ new.state = k.state /\ new.handle = k.handle
  BY DEF WorkerType
<1> HIDE DEF new
<1>2. Copied(new, it)
  BY <1>1 DEF Copied
<1>3. QED
  BY <1>1, <1>2 DEF new

LEMMA ProceedHolds ==
  ASSUME IInv, NEW w \in Workers, Proceed(w)
  PROVE  Keeps
<1> DEFINE k == worker[w]
<1>1. PICK pc \in {"reconcile", "claim"} :
        /\ Becomes(w, [k EXCEPT !.pc = pc])
        /\ pc = "reconcile" => item.run # None
  BY DEF Proceed, Moves
<1> DEFINE new == [k EXCEPT !.pc = pc]
<1>2. k.pc = "looked" /\ item = k.snap
  BY DEF Proceed, At, Unchanged
<1>3. k \in WorkerType /\ Held(k, item, action) /\ Copied(k, item)
  BY <1>2, WorkerFacts DEF At
<1> HIDE DEF k
<1>4. /\ new \in WorkerType /\ new.pc = pc /\ new.owner = k.owner /\ new.snap = k.snap
      /\ new.binding = k.binding /\ new.state = k.state /\ Copied(new, item)
  <2>1. pc \in Positions
    BY DEF Positions
  <2>2. QED
    BY <1>3, <2>1, MovesFacts
<1> HIDE DEF new
<1>5. Held(new, item, action)
  BY <1>1, <1>2, <1>3, <1>4 DEF Held, Looking
<1>6. QED
  BY <1>1, <1>4, <1>5, ReadingHolds DEF Proceed, new, k

LEMMA CheckClaimHolds ==
  ASSUME IInv, NEW w \in Workers, CheckClaim(w)
  PROVE  Keeps
<1> DEFINE k == worker[w]
<1> DEFINE new == [k EXCEPT !.pc = "launch"]
<1>1. Becomes(w, new) /\ k.pc = "claimed"
  BY DEF CheckClaim, Moves, At
<1>2. k \in WorkerType /\ Held(k, item, action) /\ Copied(k, item)
  BY <1>1, WorkerFacts DEF At
<1> HIDE DEF k
<1>p. "launch" \in Positions
  BY DEF Positions
<1>3. /\ new \in WorkerType /\ new.pc = "launch" /\ new.owner = k.owner /\ new.snap = k.snap
      /\ new.binding = k.binding /\ Copied(new, item)
  BY <1>2, <1>p, MovesFacts
<1> HIDE DEF new
<1>4. Held(new, item, action)
  BY <1>1, <1>2, <1>3 DEF Held, Looking
<1>5. QED
  BY <1>1, <1>3, <1>4, ReadingHolds DEF CheckClaim, new, k

\* The item is read again while the caller's run is its run.
LEMMA ReadAgainHolds ==
  ASSUME IInv, NEW w \in Workers, ReadAgain(w)
  PROVE  Keeps
<1> DEFINE k == worker[w]
<1> DEFINE h == IF k.state = "missing" THEN k.snap.run.handle ELSE HandleOf(k.snap.run)
<1> DEFINE new == [k EXCEPT !.pc = "commit", !.snap = item, !.handle = h]
<1>1. /\ k.pc = "reconcile" /\ item.run # None /\ item.run.epoch = k.snap.run.epoch
      /\ (h = item.run.handle \/ (item.run.handle = None /\ k.state # "missing"))
      /\ Becomes(w, new)
  BY DEF ReadAgain, At
<1>2. /\ k \in WorkerType /\ Held(k, item, action) /\ Copied(k, item)
      /\ k.snap \in Items /\ item \in Items /\ Facts(item, action)
  BY <1>1, WorkerFacts DEF At
<1>3. /\ k.snap.run # None /\ item.run.binding = k.snap.run.binding
      /\ item.run.binding = k.binding /\ k.binding \in Bindings
      /\ k.state = "terminal" => action[k.binding] = "terminal"
  BY <1>1, <1>2 DEF Held, Looking, Copied
<1>4. HandleOf(k.snap.run) = HandleOf(item.run)
  BY <1>1, <1>3 DEF HandleOf
<1>5. item.run \in Runs /\ HandleOf(item.run) \in Handles
  BY <1>1, <1>2 DEF Items, Runs, HandleOf, Handles
<1>6. h \in {None, HandleOf(item.run)}
  BY <1>1, <1>2, <1>4 DEF Facts, RunFacts
<1> HIDE DEF k, h
<1>7. /\ new \in WorkerType /\ new.pc = "commit" /\ new.snap = item /\ new.handle = h
      /\ new.state = k.state
  BY <1>2, <1>5, <1>6 DEF WorkerType, Positions
<1> HIDE DEF new
<1>8. Copied(new, item)
  BY <1>2, <1>7, CopyFacts, NoneFacts
<1>9. Held(new, item, action)
  BY <1>1, <1>3, <1>6, <1>7, <1>8 DEF Held, Looking
<1>10. QED
  BY <1>1, <1>7, <1>9, ReadingHolds DEF ReadAgain, new, h, k

\* The calls that begin with a copy of the item and nothing else.
LEMMA CopyHolds ==
  ASSUME IInv, NEW w \in Workers, item # None, NEW new, Becomes(w, new),
         new.owner \in Owners \cup {None},
         \E pc \in {"checkpoint", "observe", "advance"} :
           new = [Idle EXCEPT !.pc = pc, !.snap = item, !.owner = new.owner],
         new.pc = "checkpoint" => PhaseAllowed(item) /\ Concluded(item, new.owner),
         new.pc = "observe" => item.run # None,
         new.pc = "advance" => AdmitsEvidence(item),
         UNCHANGED <<storeVars, action>>
  PROVE  Keeps
<1>1. item \in Items /\ Facts(item, action) /\ \A k : k.snap = item => Copied(k, item)
  BY CopyFacts
<1>2. /\ new \in WorkerType /\ new.pc \in {"checkpoint", "observe", "advance"}
      /\ new.snap = item
  BY <1>1 DEF Idle, WorkerType, Positions
<1>3. item.run # None => item.run.handle \in {None, HandleOf(item.run)}
  BY <1>1 DEF Facts, RunFacts
<1>4. Held(new, item, action)
  BY <1>1, <1>2, <1>3 DEF Held, Looking
<1>5. QED
  BY <1>2, <1>4, ReadingHolds

LEMMA ObserveHolds ==
  ASSUME IInv, NEW w \in Workers, Observe(w)
  PROVE  Keeps
<1> DEFINE k == worker[w]
<1> DEFINE run == k.snap.run
<1>1. k.pc = "observe"
  BY DEF Observe, At
<1>2. PICK state \in {"live", "terminal", "missing", "unknown"}, h \in {run.handle, HandleOf(run)} :
        /\ run.binding # None => state \in {Seen(run.binding), "unknown"}
        /\ Becomes(w, [k EXCEPT !.pc = "commit", !.state = state, !.handle = h])
  BY DEF Observe
<1> DEFINE new == [k EXCEPT !.pc = "commit", !.state = state, !.handle = h]
<1>3. /\ k \in WorkerType /\ Held(k, item, action) /\ Copied(k, item) /\ k.snap \in Items
  BY <1>1, WorkerFacts DEF At
<1>4. run # None /\ run.handle \in {None, HandleOf(run)}
  BY <1>1, <1>3 DEF Held
<1>5. run \in Runs /\ HandleOf(run) \in Handles
  BY <1>3, <1>4 DEF Items, Runs, HandleOf, Handles
<1>6. h \in Handles \cup {None} /\ h \in {None, HandleOf(run)}
  BY <1>2, <1>4, <1>5
<1>7. state = "terminal" /\ run.binding # None => action[run.binding] = "terminal"
  BY <1>2 DEF Seen
<1> HIDE DEF k
<1>8. /\ new \in WorkerType /\ new.pc = "commit" /\ new.snap = k.snap /\ new.handle = h
      /\ new.state = state
  BY <1>3, <1>6 DEF WorkerType, Positions
<1> HIDE DEF new
<1>9. Copied(new, item)
  BY <1>3, <1>8 DEF Copied
<1>10. Held(new, item, action)
  BY <1>4, <1>6, <1>7, <1>8, <1>9 DEF Held, Looking
<1>11. QED
  BY <1>2, <1>8, <1>10, ReadingHolds DEF Observe, new, k

-----------------------------------------------------------------------------
(* The steps that write. *)

LEMMA CommitHolds ==
  ASSUME IInv, NEW w \in Workers, Commit(w)
  PROVE  Keeps
<1> DEFINE k == worker[w]
<1>1. /\ k.pc = "commit" /\ item = k.snap /\ Reconcile(k.state, k.handle)
      /\ Becomes(w, Idle) /\ UNCHANGED action
  BY DEF Commit, At, Unchanged
<1>2. /\ Held(k, item, action) /\ item \in Items /\ Facts(item, action)
  BY <1>1, WorkerFacts DEF At
<1>3. /\ item.run # None /\ k.handle \in {None, HandleOf(item.run)}
      /\ k.state = "terminal" /\ item.run.binding # None =>
           action[item.run.binding] = "terminal"
  BY <1>1, <1>2 DEF Held
<1> HIDE DEF k
<1>4. /\ item' \in Items /\ Facts(item', action) /\ Later(item, item')
      /\ UNCHANGED ingress
  <2>1. CASE Ends(k.state)
    <3>1. item' = Retired(k.state, k.handle) /\ UNCHANGED ingress
      BY <1>1, <2>1 DEF Reconcile
    <3>2. QED
      BY <1>2, <1>3, <2>1, <3>1, RetiredFacts DEF Ends
  <2>2. CASE ~Ends(k.state)
    <3> DEFINE h == IF item.run.handle = None THEN k.handle ELSE item.run.handle
    <3>1. item' = [item EXCEPT !.run.handle = h] /\ UNCHANGED ingress
      BY <1>1, <2>2 DEF Reconcile, Kept
    <3>2. h \in {None, HandleOf(item.run)}
      BY <1>2, <1>3 DEF Facts, RunFacts
    <3> HIDE DEF h
    <3>3. QED
      BY <1>2, <1>3, <3>1, <3>2, HandledFacts
  <2>3. QED
    BY <2>1, <2>2
<1>5. QED
  BY <1>1, <1>4, IdleFacts, WritingHolds

LEMMA ClaimLater ==
  ASSUME item \in Items, NEW act, Facts(item, act), NEW o \in Owners,
         NEW b \in Bindings \cup {None}, Claim(o, b), b # None => b.source = item.source
  PROVE  /\ item' \in Items /\ Facts(item', act) /\ Later(item, item')
         /\ item'.run # None /\ UNCHANGED ingress
         /\ \A k : k.snap = item' => Copied(k, item')
<1>1. /\ item' \in Items /\ Facts(item', act)
      /\ item'.run = NewRun(o, b) /\ item'.epoch = item.epoch + 1
  BY ClaimFacts
<1>2. item.epoch \in Nat /\ item'.epoch \in Nat /\ NewRun(o, b).epoch = item.epoch + 1
      /\ NewRun(o, b) \in Runs
  <2>1. item.epoch \in Nat /\ item.source \in Sources
    BY DEF Items
  <2>2. QED
    BY <1>1, <2>1 DEF NewRun, Runs
<1>3. item'.run # None
  BY <1>1, <1>2, NoneFacts
<1>4. Later(item, item')
  BY <1>1, <1>2, NoneFacts DEF Later
<1>5. \A k : k.snap = item' => Copied(k, item')
  BY <1>1, <1>2, <1>3, NoneFacts DEF Copied
<1>6. QED
  BY <1>1, <1>3, <1>4, <1>5 DEF Claim

LEMMA ClaimPhaseHolds ==
  ASSUME IInv, NEW w \in Workers, ClaimPhase(w)
  PROVE  Keeps
<1> DEFINE k == worker[w]
<1> DEFINE new == [k EXCEPT !.pc = "claimed", !.snap = item']
<1>1. /\ k.pc = "claim" /\ item.source = k.snap.source
      /\ Claim(k.owner, k.binding) /\ Becomes(w, new) /\ UNCHANGED action
  BY DEF ClaimPhase, At
<1>2. /\ k \in WorkerType /\ Held(k, item, action)
      /\ item \in Items /\ Facts(item, action)
  BY <1>1, WorkerFacts DEF At
<1>3. k.owner \in Owners /\ k.binding \in Bindings /\ k.binding.source = item.source
  BY <1>1, <1>2 DEF Held, Looking
<1> HIDE DEF k
<1>4. /\ item' \in Items /\ Facts(item', action) /\ Later(item, item')
      /\ item'.run # None /\ UNCHANGED ingress
      /\ \A x : x.snap = item' => Copied(x, item')
  BY <1>1, <1>2, <1>3, ClaimLater
<1>5. /\ new \in WorkerType /\ new.pc = "claimed" /\ new.snap = item' /\ new.owner = k.owner
      /\ new.binding = k.binding
  BY <1>2, <1>4 DEF WorkerType, Positions
<1> HIDE DEF new
<1>6. Copied(new, item')
  BY <1>4, <1>5
<1>7. Held(new, item', action)
  BY <1>3, <1>4, <1>5, <1>6 DEF Held, Looking
<1>8. Becomes(w, new)
  BY <1>1 DEF new
<1>9. QED
  BY <1>1, <1>4, <1>5, <1>7, <1>8, WritingHolds

LEMMA ClaimAloneHolds ==
  ASSUME IInv, NEW w \in Workers, ClaimAlone(w)
  PROVE  Keeps
<1>1. PICK o \in Owners :
        /\ Claim(o, None)
        /\ Becomes(w, [Idle EXCEPT !.pc = "working", !.owner = o, !.snap = item'])
  BY DEF ClaimAlone
<1> DEFINE new == [Idle EXCEPT !.pc = "working", !.owner = o, !.snap = item']
<1>2. item \in Items /\ Facts(item, action)
  BY <1>1, CopyFacts DEF Claim, Claimable
<1>3. /\ item' \in Items /\ Facts(item', action) /\ Later(item, item')
      /\ item'.run # None /\ UNCHANGED ingress
      /\ \A x : x.snap = item' => Copied(x, item')
  BY <1>1, <1>2, ClaimLater
<1>4. new \in WorkerType /\ new.pc = "working" /\ new.owner = o /\ new.snap = item'
  BY <1>3 DEF Idle, WorkerType, Positions
<1> HIDE DEF new
<1>5. Copied(new, item')
  BY <1>3, <1>4
<1>6. Held(new, item', action)
  BY <1>3, <1>4, <1>5 DEF Held, Looking
<1>7. Becomes(w, new)
  BY <1>1 DEF new
<1>8. QED
  BY <1>3, <1>4, <1>6, <1>7, WritingHolds DEF ClaimAlone

\* A run that is still the caller's learns the handle of the caller's copy of it.
LEMMA HeartbeatFacts ==
  ASSUME IInv, NEW w \in Workers, worker[w].pc \in {"bind", "working"},
         Heartbeat(worker[w].owner, worker[w].snap.run.epoch, HandleOf(worker[w].snap.run))
  PROVE  item' \in Items /\ Facts(item', action) /\ Later(item, item')
         /\ UNCHANGED ingress
<1> DEFINE k == worker[w]
<1>1. /\ Held(k, item, action) /\ Copied(k, item) /\ item \in Items /\ Facts(item, action)
  BY WorkerFacts DEF At
<1>2. /\ item.run # None /\ item.run.epoch = k.snap.run.epoch
      /\ item' = [item EXCEPT !.run.handle = HandleOf(k.snap.run)] /\ UNCHANGED ingress
  BY DEF Heartbeat, Owned
<1>3. k.snap.run # None
  BY <1>1 DEF Held
<1>4. item.run.binding = k.snap.run.binding
  BY <1>1, <1>2, <1>3 DEF Copied
<1>5. HandleOf(k.snap.run) = HandleOf(item.run)
  BY <1>2, <1>4 DEF HandleOf
<1>6. QED
  BY <1>1, <1>2, <1>5, HandledFacts

LEMMA BindHandleHolds ==
  ASSUME IInv, NEW w \in Workers, BindHandle(w)
  PROVE  Keeps
<1>1. item' \in Items /\ Facts(item', action) /\ Later(item, item') /\ UNCHANGED ingress
  BY HeartbeatFacts DEF BindHandle, At
<1>2. QED
  BY <1>1, IdleFacts, WritingHolds DEF BindHandle

LEMMA BindAloneHolds ==
  ASSUME IInv, NEW w \in Workers, BindAlone(w)
  PROVE  Keeps
<1> DEFINE k == worker[w]
<1> DEFINE new == [k EXCEPT !.pc = "working"]
<1>1. k.pc = "working" /\ Becomes(w, new) /\ UNCHANGED action
  BY DEF BindAlone, At, Moves
<1>2. item' \in Items /\ Facts(item', action) /\ Later(item, item') /\ UNCHANGED ingress
  BY HeartbeatFacts DEF BindAlone, At
<1>3. k \in WorkerType /\ Held(k, item, action) /\ item \in Items
  BY <1>1, WorkerFacts DEF At
<1>4. Held(k, item', action)
  <2>1. Ended(action, action)
    BY DEF Ended
  <2>2. QED
    BY <1>2, <1>3, <2>1, HeldStays
<1>5. new = k
  BY <1>1, <1>3 DEF WorkerType
<1>6. QED
  BY <1>1, <1>2, <1>3, <1>4, <1>5, WritingHolds

LEMMA CheckpointHolds ==
  ASSUME IInv, NEW w \in Workers, Checkpoint(w)
  PROVE  Keeps
<1>1. /\ Held(worker[w], item, action) /\ item \in Items /\ Facts(item, action)
  BY WorkerFacts DEF Checkpoint, At
<1>2. PhaseAllowed(item) /\ Concluded(item, worker[w].owner)
  BY <1>1 DEF Checkpoint, At, Unchanged, Held
<1>3. item' \in Items /\ Facts(item', action) /\ Later(item, item')
  BY <1>1, <1>2, RecordedFacts DEF Checkpoint
<1>4. QED
  BY <1>3, IdleFacts, WritingHolds DEF Checkpoint

LEMMA AdvanceHolds ==
  ASSUME IInv, NEW w \in Workers, Advance(w)
  PROVE  Keeps /\ item \in Items /\ Facts(item, action) /\ AdmitsEvidence(item)
<1>1. /\ Held(worker[w], item, action) /\ item \in Items /\ Facts(item, action)
  BY WorkerFacts DEF Advance, At
<1>2. AdmitsEvidence(item)
  BY <1>1 DEF Advance, At, Unchanged, Held
<1>3. item' \in Items /\ Facts(item', action) /\ Later(item, item')
  BY <1>1, <1>2, AdvancedFacts DEF Advance
<1>4. QED
  BY <1>1, <1>2, <1>3, IdleFacts, WritingHolds DEF Advance

LEMMA IntakeFacts ==
  ASSUME IInv, NEW e \in Events \cup {Observed(src) : src \in Sources}, NEW src \in Sources,
         Intake(e, src)
  PROVE  /\ item' \in Items /\ Facts(item', action) /\ Later(item, item')
         /\ ingress' \in IngressType
<1>1. item \in Items \cup {None} /\ ingress \in IngressType
  BY DEF IInv, TypeOK, IngressType
<1>2. ingress' \in IngressType
  BY <1>1 DEF Intake, IngressType
<1>3. CASE item = None
  <2>1. item' = NewItem(src)
    BY <1>3 DEF Intake, ApplySource
  <2>2. QED
    BY <1>2, <1>3, <2>1, NewItemFacts DEF Later
<1>4. CASE item # None /\ Newer(src)
  <2>1. item' = Superseded(src) /\ item \in Items /\ Facts(item, action)
    BY <1>4, CopyFacts DEF Intake, ApplySource
  <2>2. item' \in Items /\ Facts(item', action)
    BY <1>4, <2>1, SupersededFacts
  <2>3. item.epoch \in Nat /\ item'.epoch = item.epoch + 1
    BY <2>1 DEF Superseded, Fresh, Items
  <2>4. item'.run # None =>
          /\ item.run # None /\ item'.run.epoch = item.run.epoch
          /\ item'.run.binding = item.run.binding
    BY <2>1 DEF Superseded, Fresh, Invalidated, Items, Runs
  <2>5. QED
    BY <1>2, <2>2, <2>3, <2>4, NoneFacts DEF Later
<1>5. CASE item # None /\ ~Newer(src)
  <2>1. item' = item /\ item \in Items /\ Facts(item, action)
    BY <1>5, CopyFacts DEF Intake, ApplySource
  <2>2. Later(item, item')
    BY <2>1, NoneFacts DEF Later, Items
  <2>3. QED
    BY <1>2, <2>1, <2>2
<1>6. QED
  BY <1>3, <1>4, <1>5

\* A step of the outside world moves no worker.
LEMMA WorldHolds ==
  ASSUME IInv, UNCHANGED worker, item' \in Items \cup {None},
         item' # None => Facts(item', action'),
         ingress' \in IngressType, action' \in Actions,
         Later(item, item'), Ended(action, action')
  PROVE  Keeps
<1>1. /\ item \in Items \cup {None} /\ worker \in [Workers -> WorkerType]
      /\ \A v \in Workers : Held(worker[v], item, action)
  BY DEF IInv, TypeOK
<1>2. \A v \in Workers : Held(worker[v], item', action')
  BY <1>1, HeldStays
<1>3. QED
  BY <1>1, <1>2 DEF IInv, TypeOK, IngressType, Actions, Keeps

LEMMA MovedHolds ==
  ASSUME IInv, NEW w \in Workers, Moved(w)
  PROVE  Keeps
<1>1. PICK src \in Sources : Intake(Observed(src), src)
  BY DEF Moved
<1>2. Becomes(w, Idle) /\ action' = action
  BY DEF Moved
<1>3. /\ item' \in Items /\ Facts(item', action) /\ Later(item, item')
      /\ ingress' \in IngressType
  BY <1>1, IntakeFacts
<1>4. action \in Actions /\ Ended(action, action)
  BY DEF IInv, TypeOK, Actions, Ended
<1>5. QED
  BY <1>2, <1>3, <1>4, IdleFacts, StepHolds

LEMMA DeliverHolds ==
  ASSUME IInv, Deliver
  PROVE  Keeps
<1>1. PICK e \in Events, src \in Sources : Intake(e, src)
  BY DEF Deliver
<1>2. worker' = worker /\ action' = action
  BY DEF Deliver
<1>3. /\ item' \in Items /\ Facts(item', action) /\ Later(item, item')
      /\ ingress' \in IngressType
  BY <1>1, IntakeFacts
<1>4. action \in Actions /\ Ended(action, action)
  BY DEF IInv, TypeOK, Actions, Ended
<1>5. QED
  BY <1>2, <1>3, <1>4, WorldHolds

\* What an action becomes is later than what it was.
LEMMA ActionFacts ==
  ASSUME IInv, item' = item, ingress' = ingress, action' \in Actions, Ended(action, action')
  PROVE  /\ item' \in Items \cup {None} /\ (item' # None => Facts(item', action'))
         /\ ingress' \in IngressType /\ Later(item, item')
<1>1. /\ item \in Items \cup {None} /\ ingress \in IngressType
      /\ item # None => Facts(item, action)
  BY DEF IInv, TypeOK, IngressType
<1>2. item # None => Facts(item, action')
  BY <1>1, EndedFacts
<1>3. Later(item, item')
  BY <1>1 DEF Later, Items
<1>4. QED
  BY <1>1, <1>2, <1>3

LEMMA ActionEndsHolds ==
  ASSUME IInv, ActionEnds
  PROVE  Keeps
<1>1. PICK b \in Bindings :
        action[b] = "live" /\ action' = [action EXCEPT ![b] = "terminal"]
  BY DEF ActionEnds
<1>2. item' = item /\ ingress' = ingress /\ worker' = worker
  BY DEF ActionEnds, storeVars
<1>3. action' \in Actions /\ Ended(action, action')
  BY <1>1 DEF IInv, TypeOK, Actions, Ended
<1>4. QED
  BY <1>2, <1>3, ActionFacts, WorldHolds

LEMMA LaunchHolds ==
  ASSUME IInv, NEW w \in Workers, Launch(w)
  PROVE  Keeps
<1> DEFINE k == worker[w]
<1> DEFINE new == [k EXCEPT !.pc = "bind"]
<1>1. /\ k.pc = "launch" /\ Becomes(w, new) /\ item' = item /\ ingress' = ingress
      /\ action' = [action EXCEPT ![k.binding] =
                      IF action[k.binding] = "never" THEN "live" ELSE action[k.binding]]
  BY DEF Launch, At, Moves, storeVars
<1>2. k \in WorkerType /\ Held(k, item, action) /\ Copied(k, item)
  BY <1>1, WorkerFacts DEF At
<1>3. k.owner \in Owners /\ k.binding \in Bindings /\ k.snap.run # None
  BY <1>1, <1>2 DEF Held, Looking
<1> HIDE DEF k
<1>4. action' \in Actions /\ Ended(action, action')
  BY <1>1, <1>3 DEF IInv, TypeOK, Actions, Ended
<1>p. "bind" \in Positions
  BY DEF Positions
<1>5. /\ new \in WorkerType /\ new.pc = "bind" /\ new.owner = k.owner /\ new.snap = k.snap
      /\ new.binding = k.binding /\ Copied(new, item)
  BY <1>2, <1>p, MovesFacts
<1> HIDE DEF new
<1>6. Held(new, item', action')
  BY <1>1, <1>3, <1>5 DEF Held, Looking
<1>7. Becomes(w, new)
  BY <1>1 DEF new
<1>8. QED
  BY <1>1, <1>4, <1>5, <1>6, <1>7, ActionFacts, StepHolds

-----------------------------------------------------------------------------
(* The inductive invariant, and the kinds of steps the store sees. *)

\* The run learns its handle; a run that has one keeps it.
LearnsHandle(h) ==
  /\ item.run # None /\ item.run.handle \in {None, h}
  /\ item' = [item EXCEPT !.run.handle = h]

StoreStep ==
  \/ UNCHANGED storeVars
  \/ \E e \in Events \cup {Observed(src) : src \in Sources}, src \in Sources : Intake(e, src)
  \/ /\ item \in Items /\ Facts(item, action) /\ UNCHANGED ingress
     /\ \/ \E o \in Owners, b \in Bindings \cup {None} : Claim(o, b)
        \/ \E h \in {None, HandleOf(item.run)} : LearnsHandle(h)
        \/ \E h \in {None, HandleOf(item.run)}, state \in {"terminal", "missing"} :
             item.run # None /\ item' = Retired(state, h)
        \/ item' = Checkpointed
        \/ AdmitsEvidence(item) /\ item' = Advanced

LEMMA StepKeeps ==
  ASSUME IInv, NEW w \in Workers, Step(w)
  PROVE  Keeps
<1>1. CASE Prepare(w)
  BY <1>1, PrepareHolds
<1>2. CASE Lookup(w)
  BY <1>2, LookupHolds
<1>3. CASE Proceed(w)
  BY <1>3, ProceedHolds
<1>4. CASE ReadAgain(w)
  BY <1>4, ReadAgainHolds
<1>5. CASE Commit(w)
  BY <1>5, CommitHolds
<1>6. CASE ClaimPhase(w)
  BY <1>6, ClaimPhaseHolds
<1>7. CASE CheckClaim(w)
  BY <1>7, CheckClaimHolds
<1>8. CASE Launch(w)
  BY <1>8, LaunchHolds
<1>9. CASE BindHandle(w)
  BY <1>9, BindHandleHolds
<1>10. CASE ReadConclusion(w)
  <2>1. PICK o \in Owners :
          /\ Concluded(item, o)
          /\ Becomes(w, [Idle EXCEPT !.pc = "checkpoint", !.owner = o, !.snap = item])
    BY <1>10 DEF ReadConclusion
  <2> DEFINE new == [Idle EXCEPT !.pc = "checkpoint", !.owner = o, !.snap = item]
  <2>2. /\ new.pc = "checkpoint" /\ new.owner = o
        /\ new = [Idle EXCEPT !.pc = "checkpoint", !.snap = item, !.owner = new.owner]
    BY DEF Idle
  <2>3. Becomes(w, new)
    BY <2>1
  <2> HIDE DEF new
  <2>4. QED
    BY <1>10, <2>1, <2>2, <2>3, CopyHolds DEF ReadConclusion
<1>11. CASE Checkpoint(w)
  BY <1>11, CheckpointHolds
<1>12. CASE ClaimAlone(w)
  BY <1>12, ClaimAloneHolds
<1>13. CASE BindAlone(w)
  BY <1>13, BindAloneHolds
<1>14. CASE StartObserving(w)
  <2> DEFINE new == [Idle EXCEPT !.pc = "observe", !.snap = item]
  <2>1. /\ Becomes(w, new) /\ item # None /\ UNCHANGED <<storeVars, action>>
        /\ item.run # None
    BY <1>14 DEF StartObserving
  <2>2. /\ new.pc = "observe" /\ new.owner = None
        /\ new = [Idle EXCEPT !.pc = "observe", !.snap = item, !.owner = new.owner]
    BY DEF Idle
  <2> HIDE DEF new
  <2>3. QED
    BY <2>1, <2>2, CopyHolds
<1>15. CASE Observe(w)
  BY <1>15, ObserveHolds
<1>16. CASE ReadEvidence(w)
  <2> DEFINE new == [Idle EXCEPT !.pc = "advance", !.snap = item]
  <2>1. /\ Becomes(w, new) /\ item # None /\ UNCHANGED <<storeVars, action>>
        /\ AdmitsEvidence(item)
    BY <1>16 DEF ReadEvidence
  <2>2. /\ new.pc = "advance" /\ new.owner = None
        /\ new = [Idle EXCEPT !.pc = "advance", !.snap = item, !.owner = new.owner]
    BY DEF Idle
  <2> HIDE DEF new
  <2>3. QED
    BY <2>1, <2>2, CopyHolds
<1>17. CASE Moved(w)
  BY <1>17, MovedHolds
<1>18. CASE Advance(w)
  BY <1>18, AdvanceHolds
<1>19. CASE GiveUp(w)
  BY <1>19, IdleFacts, ReadingHolds DEF GiveUp
<1>20. QED
  BY <1>1, <1>2, <1>3, <1>4, <1>5, <1>6, <1>7, <1>8, <1>9, <1>10, <1>11, <1>12, <1>13,
     <1>14, <1>15, <1>16, <1>17, <1>18, <1>19 DEF Step

LEMMA StepStores ==
  ASSUME IInv, NEW w \in Workers, Step(w)
  PROVE  StoreStep
<1> DEFINE k == worker[w]
<1>1. CASE Commit(w)
  <2>1. /\ k.pc = "commit" /\ item = k.snap /\ Reconcile(k.state, k.handle)
    BY <1>1 DEF Commit, At, Unchanged
  <2>2. /\ Held(k, item, action) /\ item \in Items /\ Facts(item, action)
    BY <2>1, WorkerFacts DEF At
  <2>3. item.run # None /\ k.handle \in {None, HandleOf(item.run)}
    BY <2>1, <2>2 DEF Held
  <2> HIDE DEF k
  <2>4. CASE Ends(k.state)
    BY <2>1, <2>2, <2>3, <2>4 DEF StoreStep, Reconcile, Ends
  <2>5. CASE ~Ends(k.state)
    <3> DEFINE h == IF item.run.handle = None THEN k.handle ELSE item.run.handle
    <3>1. item' = [item EXCEPT !.run.handle = h] /\ UNCHANGED ingress
      BY <2>1, <2>5 DEF Reconcile, Kept
    <3>2. h \in {None, HandleOf(item.run)} /\ item.run.handle \in {None, h}
      BY <2>2, <2>3 DEF Facts, RunFacts
    <3> HIDE DEF h
    <3>3. QED
      BY <2>2, <2>3, <3>1, <3>2 DEF StoreStep, LearnsHandle
  <2>6. QED
    BY <2>4, <2>5
<1>2. CASE ClaimPhase(w) \/ ClaimAlone(w)
  <2>1. PICK o \in Owners, b \in Bindings \cup {None} : Claim(o, b)
    <3>1. CASE ClaimPhase(w)
      <4>1. Held(k, item, action) /\ k.pc = "claim"
        BY <3>1, WorkerFacts DEF ClaimPhase, At
      <4>2. k.owner \in Owners /\ k.binding \in Bindings
        BY <4>1 DEF Held, Looking
      <4>3. QED
        BY <3>1, <4>2 DEF ClaimPhase
    <3>2. CASE ClaimAlone(w)
      BY <3>2 DEF ClaimAlone
    <3>3. QED
      BY <1>2, <3>1, <3>2
  <2>2. item \in Items /\ Facts(item, action) /\ UNCHANGED ingress
    BY <2>1, CopyFacts DEF Claim, Claimable
  <2>3. QED
    BY <2>1, <2>2 DEF StoreStep
<1>3. CASE BindHandle(w) \/ BindAlone(w)
  <2>1. /\ k.pc \in {"bind", "working"}
        /\ Heartbeat(k.owner, k.snap.run.epoch, HandleOf(k.snap.run))
    BY <1>3 DEF BindHandle, BindAlone, At
  <2>2. /\ Held(k, item, action) /\ Copied(k, item) /\ item \in Items /\ Facts(item, action)
    BY <2>1, WorkerFacts DEF At
  <2>3. /\ item.run # None /\ item.run.epoch = k.snap.run.epoch
        /\ item.run.handle \in {None, HandleOf(k.snap.run)}
        /\ item' = [item EXCEPT !.run.handle = HandleOf(k.snap.run)] /\ UNCHANGED ingress
    BY <2>1 DEF Heartbeat, Owned
  <2>4. HandleOf(k.snap.run) = HandleOf(item.run)
    BY <2>1, <2>2, <2>3 DEF Held, Copied, HandleOf
  <2>5. QED
    BY <2>2, <2>3, <2>4 DEF StoreStep, LearnsHandle
<1>4. CASE Checkpoint(w)
  <2>1. item \in Items /\ Facts(item, action)
    BY <1>4, WorkerFacts DEF Checkpoint, At
  <2>2. QED
    BY <1>4, <2>1 DEF Checkpoint, StoreStep
<1>5. CASE Advance(w)
  BY <1>5, AdvanceHolds DEF Advance, StoreStep
<1>6. CASE Moved(w)
  BY <1>6 DEF Moved, StoreStep
<1>7. CASE Launch(w)
  BY <1>7 DEF Launch, StoreStep
<1>8. CASE \/ Prepare(w) \/ Lookup(w) \/ Proceed(w) \/ ReadAgain(w) \/ CheckClaim(w)
           \/ ReadConclusion(w) \/ StartObserving(w) \/ Observe(w) \/ ReadEvidence(w)
           \/ GiveUp(w)
  BY <1>8 DEF StoreStep, Prepare, Lookup, Proceed, ReadAgain, CheckClaim, ReadConclusion,
              StartObserving, Observe, ReadEvidence, GiveUp
<1>9. QED
  BY <1>1, <1>2, <1>3, <1>4, <1>5, <1>6, <1>7, <1>8 DEF Step

LEMMA NextFacts ==
  ASSUME IInv, [Next]_vars
  PROVE  Keeps /\ StoreStep
<1>1. CASE \E w \in Workers : Step(w)
  BY <1>1, StepKeeps, StepStores
<1>2. CASE ActionEnds
  BY <1>2, ActionEndsHolds DEF ActionEnds, StoreStep
<1>3. CASE Deliver
  BY <1>3, DeliverHolds DEF Deliver, StoreStep
<1>4. CASE UNCHANGED vars
  <2>1. item' = item /\ ingress' = ingress /\ action' = action /\ worker' = worker
    BY <1>4 DEF vars
  <2>2. IInv'
    BY <2>1 DEF IInv, TypeOK
  <2>3. Later(item, item')
    BY <2>1 DEF Later, IInv, TypeOK, Items
  <2>4. QED
    BY <2>1, <2>2, <2>3 DEF StoreStep, storeVars, Keeps
<1>5. QED
  BY <1>1, <1>2, <1>3, <1>4 DEF Next

LEMMA InitFacts == Init => IInv
<1> SUFFICES ASSUME Init PROVE IInv
  OBVIOUS
<1>1. TypeOK
  BY IdleFacts DEF Init, TypeOK
<1>2. \A w \in Workers : Held(worker[w], item, action)
  BY IdleFacts DEF Init
<1>3. QED
  BY <1>1, <1>2 DEF IInv, Init

\* IInv is inductive, and every step of the system is one of the store.
THEOREM Inductive == Spec => []IInv /\ [][StoreStep]_vars
<1>1. IInv /\ [Next]_vars => IInv'
  BY NextFacts DEF Keeps
<1>2. IInv /\ [Next]_vars => [StoreStep]_vars
  BY NextFacts
<1>3. QED
  BY InitFacts, <1>1, <1>2, PTL DEF Spec

-----------------------------------------------------------------------------
(* The store as the owners and the provider see it. *)

Holder(run) == [owner |-> run.owner, epoch |-> run.epoch,
                handle |-> run.handle, fenced |-> run.invalidated]

LEMMA FencedFacts ==
  ASSUME NEW h \in Holders, NEW f
  PROVE  [h EXCEPT !.fenced = f] = [owner |-> h.owner, epoch |-> h.epoch,
                                    handle |-> h.handle, fenced |-> f]
BY DEF Holders

LEMMA HolderFacts ==
  ASSUME NEW run \in Runs
  PROVE  Holder(run) \in Holders /\ Holder(run) # None
<1>1. Holder(run) \in Holders
  BY DEF Holder, Holders, Runs
<1>2. QED
  BY <1>1, NoneFacts

\* A step of FencedOwnership, and evidence that is kept, dropped or replaced by
\* that of a later run.
Promised ==
  /\ [Ownership!Next]_(Ownership!vars)
  /\ \/ item = None \/ item'.evidence = item.evidence \/ item'.evidence = None
     \/ item.evidence = None \/ item.evidence.run < item'.evidence.run

LEMMA ClaimPromised ==
  ASSUME item \in Items, item' \in Items,
         NEW o \in Owners, NEW b \in Bindings \cup {None}, Claim(o, b)
  PROVE  Promised /\ item'.source = item.source
<1> DEFINE r == NewRun(o, b)
<1>1. item # None /\ item.run = None /\ item.epoch \in Nat /\ item.source \in Sources
  BY NoneFacts DEF Items, Claim, Claimable
<1>2. /\ r \in Runs /\ r.owner = o /\ r.epoch = item.epoch + 1 /\ r.handle = None
      /\ r.invalidated = FALSE
  BY <1>1 DEF NewRun, Runs
<1> HIDE DEF r
<1>3. /\ item'.run = r /\ item'.epoch = item.epoch + 1 /\ item'.source = item.source
      /\ item'.evidence = item.evidence /\ item' # None
  BY <1>1, NoneFacts DEF Claim, Items, r
<1>4. QED
  BY <1>1, <1>2, <1>3, NoneFacts
     DEF Promised, Ownership!Next, Ownership!Acquire, Ownership!Holder

\* The run, epoch, source and evidence are what the owners and the provider see.
LEMMA SamePromised ==
  ASSUME item \in Items, item' \in Items, item'.run = item.run, item'.epoch = item.epoch,
         \/ item'.evidence = item.evidence
         \/ item.evidence # None => item.evidence.run < item'.evidence.run
  PROVE  Promised
BY NoneFacts DEF Promised, Ownership!vars

LEMMA HandlePromised ==
  ASSUME item \in Items, item' \in Items, NEW h \in {None, HandleOf(item.run)}, LearnsHandle(h)
  PROVE  Promised /\ item'.source = item.source
<1> DEFINE r == [item.run EXCEPT !.handle = h]
<1>1. /\ item # None /\ item' # None /\ item.run # None /\ item.run \in Runs
      /\ item.epoch \in Nat /\ item.run.handle \in {None, h}
  BY NoneFacts DEF Items, LearnsHandle
<1>2. HandleOf(item.run) \in Handles
  BY <1>1 DEF HandleOf, Handles, Runs
<1>3. /\ r \in Runs /\ r.handle = h /\ r.owner = item.run.owner
      /\ r.epoch = item.run.epoch /\ r.invalidated = item.run.invalidated
  BY <1>1, <1>2 DEF Runs
<1>4. item' = [item EXCEPT !.run = r]
  BY DEF LearnsHandle
<1>5. h = item.run.handle => r = item.run
  BY <1>1 DEF Runs
<1> HIDE DEF r
<1>6. /\ item'.run = r /\ item'.epoch = item.epoch /\ item'.source = item.source
      /\ item'.evidence = item.evidence
  BY <1>4 DEF Items
<1>7. CASE h = item.run.handle
  BY <1>5, <1>6, <1>7, SamePromised
<1>8. CASE h # item.run.handle
  <2>1. h \in Handles /\ item.run.handle = None
    BY <1>1, <1>2, <1>8
  <2>2. Holder(item.run) # None /\ Holder(r) # None
    BY <1>1, <1>3, HolderFacts
  <2>3. r # None
    BY <1>3, NoneFacts
  <2>4. Holder(r) = [Holder(item.run) EXCEPT !.handle = h]
    BY <1>3 DEF Holder
  <2>5. /\ Holder(item.run).handle = None /\ Holder(r).handle = h
    BY <1>3, <2>1 DEF Holder
  <2>6. Ownership!Bind
    BY <1>1, <1>6, <2>1, <2>2, <2>3, <2>4, <2>5 DEF Ownership!Bind, Holder
  <2>7. QED
    BY <1>6, <2>6 DEF Promised, Ownership!Next
<1>9. QED
  BY <1>6, <1>7, <1>8

LEMMA RetiredPromised ==
  ASSUME item \in Items, item' \in Items, item.run # None, NEW h, NEW state,
         item' = Retired(state, h)
  PROVE  Promised /\ item'.source = item.source
<1>1. item # None /\ item' # None /\ item.run \in Runs
  BY NoneFacts DEF Items
<1>2. /\ item'.run = None /\ item'.epoch = item.epoch + 1 /\ item'.source = item.source
      /\ item'.evidence = item.evidence
  BY DEF Retired, Items
<1>3. Holder(item.run) # None
  BY <1>1, HolderFacts
<1>4. Ownership!Release
  BY <1>1, <1>2, <1>3 DEF Ownership!Release, Holder
<1>5. QED
  BY <1>2, <1>4 DEF Promised, Ownership!Next

LEMMA CheckpointedPromised ==
  ASSUME item \in Items, item' \in Items, item' = Checkpointed
  PROVE  Promised /\ item'.source = item.source
<1>1. /\ item'.run = item.run /\ item'.epoch = item.epoch /\ item'.source = item.source
      /\ item'.evidence = item.evidence
  BY DEF Checkpointed, Items
<1>2. QED
  BY <1>1, SamePromised

LEMMA AdvancedPromised ==
  ASSUME item \in Items, item' \in Items, Facts(item, action), AdmitsEvidence(item),
         item' = Advanced
  PROVE  Promised /\ item'.source = item.source
<1>1. /\ item'.run = item.run /\ item'.epoch = item.epoch /\ item'.source = item.source
  BY DEF Advanced, Items
<1>2. item'.evidence.run = item.last.epoch
  BY AdvancedFacts
<1>3. item.evidence # None => item.evidence.run < item.last.epoch
  BY DEF Facts, EvidenceFacts, AdmitsEvidence
<1>4. QED
  BY <1>1, <1>2, <1>3, SamePromised

LEMMA IntakePromised ==
  ASSUME item \in Items \cup {None}, item' \in Items, NEW e, NEW src \in Sources, Intake(e, src)
  PROVE  Promised
<1>1. CASE item = None
  <2>1. item' = NewItem(src) /\ item' # None
    BY <1>1, NoneFacts DEF Intake, ApplySource
  <2>2. item'.run = None /\ item'.epoch = 1
    BY <2>1 DEF NewItem, Fresh
  <2>3. Ownership!Fence
    BY <1>1, <2>1, <2>2 DEF Ownership!Fence
  <2>4. QED
    BY <1>1, <2>3 DEF Promised, Ownership!Next
<1>2. CASE item # None /\ Newer(src)
  <2>1. item' = Superseded(src) /\ item' # None /\ item \in Items
    BY <1>2, NoneFacts DEF Intake, ApplySource
  <2>2. item'.epoch = item.epoch + 1 /\ item'.evidence = None
    BY <2>1 DEF Superseded, Fresh
  <2>3. CASE item.run = None
    <3>1. item'.run = None
      BY <2>1, <2>3 DEF Superseded, Fresh
    <3>2. Ownership!Fence
      BY <1>2, <2>1, <2>2, <2>3, <3>1 DEF Ownership!Fence
    <3>3. QED
      BY <2>2, <3>2 DEF Promised, Ownership!Next
  <2>4. CASE item.run # None
    <3> DEFINE r == Invalidated
    <3>1. item.run \in Runs
      BY <2>1, <2>4 DEF Items
    <3>2. /\ r \in Runs /\ r.handle = item.run.handle /\ r.owner = item.run.owner
          /\ r.epoch = item.run.epoch /\ r.invalidated = TRUE
      BY <3>1 DEF Runs, Invalidated
    <3>3. item'.run = r
      BY <2>1, <2>4 DEF Superseded, Fresh
    <3> HIDE DEF r
    <3>4. r # None /\ Holder(item.run) # None
      BY <3>1, <3>2, NoneFacts, HolderFacts
    <3>5. Holder(r) = [Holder(item.run) EXCEPT !.fenced = TRUE]
      <4>1. Holder(r) = [owner |-> item.run.owner, epoch |-> item.run.epoch,
                         handle |-> item.run.handle, fenced |-> TRUE]
        BY <3>2, Zenon DEF Holder
      <4>2. Holder(item.run) \in Holders
        BY <3>1, HolderFacts
      <4>3. /\ Holder(item.run).owner = item.run.owner /\ Holder(item.run).epoch = item.run.epoch
            /\ Holder(item.run).handle = item.run.handle
        BY DEF Holder
      <4>4. [Holder(item.run) EXCEPT !.fenced = TRUE]
              = [owner |-> Holder(item.run).owner, epoch |-> Holder(item.run).epoch,
                 handle |-> Holder(item.run).handle, fenced |-> TRUE]
        BY <4>2, FencedFacts, Zenon
      <4>5. QED
        BY <4>1, <4>3, <4>4, Zenon
    <3>6. Ownership!Fence
      BY <1>2, <2>1, <2>2, <2>4, <3>3, <3>4, <3>5 DEF Ownership!Fence, Holder
    <3>7. QED
      BY <2>2, <3>6 DEF Promised, Ownership!Next
  <2>5. QED
    BY <2>3, <2>4
<1>3. CASE item # None /\ ~Newer(src)
  <2>1. item' = item /\ item \in Items
    BY <1>3, NoneFacts DEF Intake, ApplySource
  <2>2. QED
    BY <2>1, SamePromised
<1>4. QED
  BY <1>1, <1>2, <1>3

LEMMA StepPromised ==
  ASSUME IInv, [Next]_vars
  PROVE  Promised
<1>1. /\ item \in Items \cup {None} /\ item' \in Items \cup {None}
      /\ Later(item, item') /\ StoreStep
  BY NextFacts DEF Keeps, IInv, TypeOK
<1>2. CASE UNCHANGED storeVars
  <2>1. item' = item
    BY <1>2 DEF storeVars
  <2>2. QED
    BY <2>1 DEF Promised, Ownership!vars
<1>3. ASSUME NEW e, NEW src \in Sources, Intake(e, src) PROVE Promised
  <2>1. item' \in Items
    BY <1>1, <1>3, NoneFacts, NewItemFacts DEF Intake, ApplySource, Later
  <2>2. QED
    BY <1>1, <1>3, <2>1, IntakePromised
<1>4. ASSUME item \in Items, Facts(item, action),
             \/ \E o \in Owners, b \in Bindings \cup {None} : Claim(o, b)
             \/ \E h \in {None, HandleOf(item.run)} : LearnsHandle(h)
             \/ \E h \in {None, HandleOf(item.run)}, state \in {"terminal", "missing"} :
                  item.run # None /\ item' = Retired(state, h)
             \/ item' = Checkpointed
             \/ AdmitsEvidence(item) /\ item' = Advanced
      PROVE  Promised /\ item'.source = item.source
  <2>1. item' \in Items
    BY <1>1, <1>4, NoneFacts DEF Later
  <2>2. QED
    BY <1>4, <2>1, ClaimPromised, HandlePromised, RetiredPromised, CheckpointedPromised,
       AdvancedPromised
<1>5. QED
  BY <1>1, <1>2, <1>3, <1>4 DEF StoreStep

-----------------------------------------------------------------------------
(* The theorems. *)

\* The state of the item, of the driver's actions and of every call in progress
\* stays well formed (WorkflowEventStore, DurableIncidentDriver).
THEOREM TypeCorrect == Spec => []TypeOK
<1>1. IInv => TypeOK
  BY DEF IInv
<1>2. QED
  BY Inductive, <1>1, PTL

LEMMA IInvImplies ==
  ASSUME IInv
  PROVE  StaleRunIsFenced /\ HandleIsOfItsRun /\ CheckpointsAreEarned /\ PhaseIsEvidenced
<1>1. item # None => item \in Items /\ Facts(item, action)
  BY DEF IInv, TypeOK
<1>2. StaleRunIsFenced /\ HandleIsOfItsRun
  BY <1>1 DEF StaleRunIsFenced, HandleIsOfItsRun, Facts, RunFacts, LastFacts
<1>3. CheckpointsAreEarned
  BY <1>1 DEF CheckpointsAreEarned, Facts, CheckpointFacts, Earned
<1>4. PhaseIsEvidenced
  BY <1>1 DEF PhaseIsEvidenced, Facts, EvidenceFacts, Items, Evidence
<1>5. QED
  BY <1>2, <1>3, <1>4

\* A run is in force exactly while its source is the present one, whatever the
\* provider reports and whoever is at work (_apply_source, _owned).
THEOREM StaleRunsAreFenced == Spec => []StaleRunIsFenced
<1>1. IInv => StaleRunIsFenced
  BY IInvImplies
<1>2. QED
  BY Inductive, <1>1, PTL

\* A handle in the store is that of the run's own action, for any number of
\* owners that lost their run and still report theirs (heartbeat, reconcile_run).
THEOREM HandlesAreOfTheirRuns == Spec => []HandleIsOfItsRun
<1>1. IInv => HandleIsOfItsRun
  BY IInvImplies
<1>2. QED
  BY Inductive, <1>1, PTL

\* The checkpoints of an incident are its first phases in order, under one
\* source, each of another run whose action has ended (checkpoint).
THEOREM CheckpointsEarned == Spec => []CheckpointsAreEarned
<1>1. IInv => CheckpointsAreEarned
  BY IInvImplies
<1>2. QED
  BY Inductive, <1>1, PTL

\* No phase is reached without evidence of the one before it, under the present
\* source (advance).
THEOREM PhasesEvidenced == Spec => []PhaseIsEvidenced
<1>1. IInv => PhaseIsEvidenced
  BY IInvImplies
<1>2. QED
  BY Inductive, <1>1, PTL

\* No run carries an item through two phases: evidence gives way only to
\* evidence of a later run (advance).
THEOREM EachPhaseTakesARun == Spec => EachPhaseHasItsRun
<1>1. IInv /\ [Next]_vars =>
        [item # None /\ item'.evidence # None /\ item.evidence # None
           /\ item'.evidence # item.evidence
         => item.evidence.run < item'.evidence.run]_vars
  BY StepPromised DEF Promised
<1>2. QED
  BY Inductive, <1>1, PTL DEF Spec, EachPhaseHasItsRun

\* The store implements fenced ownership: every claim has an epoch of its own,
\* one holder at a time, and none comes back (WorkflowEventStore).
THEOREM StoreIsFenced == Spec => OwnershipSpec
<1>1. Init => Ownership!Init
  BY DEF Init, Ownership!Init
<1>2. IInv /\ [Next]_vars => [Ownership!Next]_(Ownership!vars)
  BY StepPromised DEF Promised
<1>3. QED
  BY Inductive, <1>1, <1>2, PTL DEF Spec, OwnershipSpec, Ownership!Spec

\* SourceIsNewest does not depend on the workers: of every step but Intake it is
\* enough that it leaves the source and the ingress alone.
LEMMA SourceStays ==
  ASSUME IInv, [Next]_vars, SourceIsNewest
  PROVE  SourceIsNewest'
<1>1. /\ item \in Items \cup {None} /\ item' \in Items \cup {None}
      /\ ingress \in IngressType /\ StoreStep /\ Later(item, item')
  BY NextFacts DEF Keeps, IInv, TypeOK, IngressType
<1>2. CASE UNCHANGED storeVars
  BY <1>2 DEF storeVars, SourceIsNewest
<1>3. ASSUME NEW e \in Events \cup {Observed(src) : src \in Sources}, NEW src \in Sources,
             Intake(e, src)
      PROVE  SourceIsNewest'
  <2>1. ingress' = ingress \cup {<<e, src>>} /\ ~Conflicts(src)
    BY <1>3 DEF Intake
  <2>2. CASE item = None
    <3>1. item' = NewItem(src) /\ item' # None
      BY <1>3, <2>2, NewItemFacts, NoneFacts DEF Intake, ApplySource
    <3>2. item'.source = src /\ ingress' = {<<e, src>>}
      BY <2>1, <2>2, <3>1 DEF NewItem, Fresh, SourceIsNewest
    <3>3. <<e, src>>[2] = src /\ ingress' # {}
      BY <3>2
    <3>4. QED
      BY <3>1, <3>2, <3>3 DEF SourceIsNewest
  <2>3. CASE item # None /\ Newer(src)
    <3>1. item' = Superseded(src) /\ item' # None /\ item \in Items
      BY <1>1, <1>3, <2>3, NoneFacts DEF Intake, ApplySource, Later
    <3>2. item'.source = src
      BY <3>1 DEF Superseded, Fresh
    <3>3. item.source.rev < src.rev /\ item.source \in Sources
      BY <2>3, <3>1, PhaseFacts DEF Newer, Items
    <3>4. \A x \in ingress : x[2] \in Sources /\ x[2].rev <= item.source.rev
      BY <1>1, <2>3, <3>3, PhaseFacts DEF SourceIsNewest, IngressType
    <3>5. \A x \in ingress' : x[2].rev < src.rev \/ x[2] = src
      BY <2>1, <3>3, <3>4, PhaseFacts
    <3>6. <<e, src>> \in ingress'
      BY <2>1
    <3>7. QED
      BY <3>1, <3>2, <3>5, <3>6 DEF SourceIsNewest
  <2>4. CASE item # None /\ ~Newer(src)
    <3>1. item' = item /\ item.source \in Sources
      BY <1>1, <1>3, <2>4 DEF Intake, ApplySource, Items
    <3>2. src.rev < item.source.rev \/ src = item.source
      BY <2>1, <2>4, <3>1, PhaseFacts DEF Newer, Conflicts
    <3>3. QED
      BY <2>1, <2>4, <3>1, <3>2 DEF SourceIsNewest
  <2>5. QED
    BY <2>2, <2>3, <2>4
<1>4. ASSUME item \in Items, Facts(item, action), UNCHANGED ingress,
             \/ \E o \in Owners, b \in Bindings \cup {None} : Claim(o, b)
             \/ \E h \in {None, HandleOf(item.run)} : LearnsHandle(h)
             \/ \E h \in {None, HandleOf(item.run)}, state \in {"terminal", "missing"} :
                  item.run # None /\ item' = Retired(state, h)
             \/ item' = Checkpointed
             \/ AdmitsEvidence(item) /\ item' = Advanced
      PROVE  SourceIsNewest'
  <2>1. item # None /\ item' # None /\ item' \in Items
    BY <1>1, <1>4, NoneFacts DEF Later
  <2>2. item'.source = item.source
    BY <1>4, <2>1, ClaimPromised, HandlePromised, RetiredPromised, CheckpointedPromised,
       AdvancedPromised
  <2>3. QED
    BY <1>4, <2>1, <2>2 DEF SourceIsNewest
<1>5. QED
  BY <1>1, <1>2, <1>3, <1>4 DEF StoreStep

\* However late or out of order the events arrive, and whatever advance observes
\* by itself, the item is at the newest revision of them all (_apply_source).
THEOREM SourcesAreNewest == Spec => []SourceIsNewest
<1>1. Init => SourceIsNewest
  BY DEF Init, SourceIsNewest
<1>2. IInv /\ [Next]_vars /\ SourceIsNewest => SourceIsNewest'
  BY SourceStays
<1>3. QED
  BY Inductive, <1>1, <1>2, PTL DEF Spec
=============================================================================
