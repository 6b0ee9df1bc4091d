--------------------------- MODULE MCLoopLedger ---------------------------
(* Small instances of LoopLedger for TLC. *)
EXTENDS LoopLedger

CONSTANTS p1, p2    \* the passport of the run, and that of an edited manifest

MCAmounts == {[iterations |-> 1, tokens |-> n] : n \in 1..2}
MCLimits == (p1 :> [iterations |-> 2, tokens |-> 2])
              @@ (p2 :> [iterations |-> 3, tokens |-> 3])
=============================================================================
