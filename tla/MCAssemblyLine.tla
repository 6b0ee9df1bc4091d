--------------------------- MODULE MCAssemblyLine ---------------------------
(* Small instances of AssemblyLine for TLC. *)
EXTENDS AssemblyLine, TLC

CONSTANTS default, other,   \* contract paths
          c1, c2            \* contracts

Strict == Stage("specline", "strict")

\* A chain with one gate of every kind, and the shortest one.
GatedChain == <<Architect, Review, Score, Compile>>
NoChain == <<>>
ShortChain == <<Strict, Architect>>

RequiresAll == [c \in {c1} |-> {GatedChain[i] : i \in 1..4}]
RequiresNothing == [c \in {c1, c2} |-> {}]

\* The workspace of a feature that is ready to be built.
Buildable == [contracted |-> TRUE, conflict |-> FALSE, spec |-> TRUE, ui |-> TRUE,
          decision |-> TRUE, ssat |-> TRUE, forge |-> "other",
          tools |-> {"specline", "forgeline", "hsf", "prestige"}]

\* It, and what is one author's, tool's or installer's change away from it: every
\* gate finds a workspace it stops at and one it lets through.
Unready ==
  {Buildable} \union {[Buildable EXCEPT !.forge = f] : f \in {"none", "expanded", "scaffolded"}}
    \union {[Buildable EXCEPT !.tools = @ \ {"prestige"}],
            [Buildable EXCEPT !.contracted = FALSE], [Buildable EXCEPT !.conflict = TRUE],
            [Buildable EXCEPT !.spec = FALSE], [Buildable EXCEPT !.ssat = FALSE],
            [Buildable EXCEPT !.ui = FALSE, !.decision = FALSE]}
Conflicting == {Buildable, [Buildable EXCEPT !.conflict = TRUE]}
JustReady == {Buildable}
Scoped == {Buildable, [Buildable EXCEPT !.ui = FALSE]}

RunSymmetry == Permutations(Runs)

\* Contracts whose Oracle and evidence bindings never break.
BindingsHold == bound = Contracts
\* And whose files are there in full, or not at all.
ContractsHold == BindingsHold /\ \A p \in Paths : file[p] # Garbled
=============================================================================
