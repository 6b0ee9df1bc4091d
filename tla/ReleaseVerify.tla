--------------------------- MODULE ReleaseVerify ---------------------------
(***************************************************************************)
(* factory verify --strict-release (factoryline/verification.py) beside    *)
(* the assembly line whose receipts it reads: it lists receipts/ once,     *)
(* reads the listed files one after the other, looks at the workspace and  *)
(* at the release contract for the stages to expect, and then reads the    *)
(* contract again to hold the receipts against it.  Runs of the feature,   *)
(* and edits of its contract, go on meanwhile.                             *)
(*                                                                         *)
(* The receipt of one stage is read in one step: a file replaced while it  *)
(* is read makes the answer "not ready", as does an intent trace that the  *)
(* ship stage did not prove; both are choices here.                        *)
(***************************************************************************)
EXTENDS AssemblyLine

VARIABLES
  verdict,   \* the one verification
  moments       \* history: the stages that passed at each moment since the listing

verifyVars == <<verdict, moments>>

\* BASE_REQUIRED: all that the chain does for SpecLine and ForgeLine.
Base == {s \in ChainStages : s.module \in {"specline", "forgeline"}}

NoRow == [ok |-> FALSE, binding |-> None, run |-> None]
Unlisted == [s \in Stages |-> 0]

Last(s) == receipts[s][Len(receipts[s])]

\* The stages whose newest receipt passed under contract c.
Passing(c) ==
  {s \in Stages : receipts[s] # <<>> /\ Last(s).ok /\ Last(s).binding = c}
Moment == {<<c, Passing(c)>> : c \in Contracts}

\* receipt_dir.glob in rollup_receipts
ListReceipts(p) ==
  /\ verdict.pc = "idle"
  /\ verdict' = [verdict EXCEPT !.pc = "reading", !.path = p,
                   !.listed = [s \in Stages |-> Len(receipts[s])],
                   !.truncated = files > MaxFiles]
  /\ UNCHANGED vars

HasRow(s) == s \in Stages /\ verdict.listed[s] > 0
Unread == {s \in Stages : HasRow(s) /\ verdict.rows[s] = NoRow}

\* rollup_receipts: of the files listed for a stage the newest counts.
ReadReceipt(s) ==
  /\ verdict.pc = "reading" /\ s \in Unread
  /\ verdict' = [verdict EXCEPT !.rows[s] = receipts[s][verdict.listed[s]]]
  /\ UNCHANGED vars

Declares(p, s) == file[p] \in Contracts /\ s \in Required[file[p]]

\* _required_stages, with the _release_declares reads of the contract
Expected ==
  Base
    \union {s \in {Score} : work.ui \/ HasRow(s) \/ Declares(verdict.path, s)}
    \union {s \in {Compile} :
              work.decision \/ HasRow(s) \/ Declares(verdict.path, s)}

ExpectStages ==
  /\ verdict.pc = "reading" /\ Unread = {}
  /\ verdict' = [verdict EXCEPT !.pc = "deciding", !.required = Expected]
  /\ UNCHANGED vars

NoneFailed == \A s \in Stages : HasRow(s) => verdict.rows[s].ok

\* Mutation: the receipts are not held against the contract.
PassedAny(s, c) == HasRow(s) /\ verdict.rows[s].ok

\* _module_result and _stage_contract_binding_blockers
PassedFor(s, c) ==
  HasRow(s) /\ verdict.rows[s].ok /\ verdict.rows[s].binding = c

\* verify_feature, from the second reading of the contract on
Ready(c) ==
  /\ c \in bound /\ verdict.required \subseteq Required[c]
  /\ ~verdict.truncated /\ NoneFailed
  /\ \A s \in verdict.required : PassedFor(s, c)

Decide ==
  /\ verdict.pc = "deciding"
  /\ \E traced \in BOOLEAN :
       LET c == file[verdict.path]
           ready == traced /\ c \in Contracts /\ Ready(c)
       IN verdict' = [verdict EXCEPT !.pc = "decided", !.ready = ready,
                        !.contract = IF ready THEN c ELSE None]
  /\ UNCHANGED vars

VerifyStep ==
  \/ \E p \in Paths : ListReceipts(p)
  \/ \E s \in Stages : ReadReceipt(s)
  \/ ExpectStages \/ Decide

VerifyInit ==
  /\ Init
  /\ verdict = [pc |-> "idle", path |-> None, listed |-> Unlisted,
                rows |-> [s \in Stages |-> NoRow], truncated |-> FALSE,
                required |-> {}, ready |-> FALSE, contract |-> None]
  /\ moments = {}

VerifyNext ==
  /\ (Next /\ UNCHANGED verdict) \/ VerifyStep
  /\ moments' = IF verdict'.pc \in {"reading", "deciding"}
             THEN moments \union Moment' ELSE moments

VerifySpec == VerifyInit /\ [][VerifyNext]_<<vars, verifyVars>>

-----------------------------------------------------------------------------
\* release_ready was true of the receipts at one moment of the verification:
\* all stages it expected had then passed, in their newest attempt, under the
\* contract it names, although it read them one by one while a run went on.
ReadyWasAccurate ==
  verdict.ready =>
    \E m \in moments : m[1] = verdict.contract /\ verdict.required \subseteq m[2]

\* "a declared UI/compiler gate cannot be silently omitted while that validation
\* is underway" (verification.py:37): what is ready has passed every stage that
\* its contract requires.
ReadyOmitsNothing ==
  verdict.ready =>
    \A s \in Required[verdict.contract] : PassedFor(s, verdict.contract)

=============================================================================
