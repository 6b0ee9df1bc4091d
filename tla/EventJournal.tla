---------------------------- MODULE EventJournal ----------------------------
(***************************************************************************)
(* What the mission graph promises to everyone who submits events to it,  *)
(* with every rule about missions left out: a journal to which deliveries *)
(* are appended one at a time, never rewritten, never the same delivery   *)
(* twice, until an entry closes it.  MissionGraph.tla implements it.      *)
(***************************************************************************)
EXTENDS Sequences, Naturals

CONSTANTS Deliveries    \* what identifies one delivery to the journal

VARIABLES journal,      \* the deliveries accepted so far, in order
          closed        \* has the journal been closed for good?

journalVars == <<journal, closed>>

Init == /\ journal = <<>>
        /\ closed = FALSE

\* Accept one delivery; accepting it may close the journal.
Record(d) ==
  /\ ~closed
  /\ \A i \in 1..Len(journal) : journal[i] # d
  /\ journal' = Append(journal, d)
  /\ closed' \in BOOLEAN

Next == \E d \in Deliveries : Record(d)

Spec == Init /\ [][Next]_journalVars
=============================================================================
