-------------------------- MODULE MCReleaseVerify --------------------------
(* Small instances of ReleaseVerify for TLC. *)
EXTENDS ReleaseVerify, MCAssemblyLine

\* Two stages, so that one is read before and one after a step of a run.
ScoredChain == <<Strict, Score>>
BothRequireAll == [c \in {c1, c2} |-> {Strict, Score}]
OneRequiresScore == (c1 :> {Strict, Score}) @@ (c2 :> {Strict})
Unscoped == {[Buildable EXCEPT !.ui = FALSE, !.decision = FALSE]}
ScopedOnly == {[Buildable EXCEPT !.decision = FALSE]}
=============================================================================
