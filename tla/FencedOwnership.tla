--------------------------- MODULE FencedOwnership ---------------------------
(***************************************************************************)
(* What the workflow store promises the owners of an item: each claim gets *)
(* an epoch nobody had before, there is one holder at a time, a fenced     *)
(* holder can no longer act, and only giving up the item makes room for    *)
(* the next holder.                                                        *)
(***************************************************************************)
EXTENDS Integers

CONSTANTS Owners, Handles, None

VARIABLES
  epoch,    \* the newest epoch
  holder    \* the holder of the item, if there is one

vars == <<epoch, holder>>

Holder(o) == [owner |-> o, epoch |-> epoch + 1, handle |-> None, fenced |-> FALSE]

Init == epoch = 0 /\ holder = None

Acquire ==
  /\ holder = None
  /\ \E o \in Owners : holder' = Holder(o)
  /\ epoch' = epoch + 1

\* The holder binds its handle, or an observer of the host finds it, once.
Bind ==
  /\ holder # None /\ holder.handle = None
  /\ holder' # None /\ holder'.handle \in Handles
  /\ holder' = [holder EXCEPT !.handle = holder'.handle]
  /\ UNCHANGED epoch

Fence ==
  /\ holder' = IF holder = None THEN None ELSE [holder EXCEPT !.fenced = TRUE]
  /\ epoch' = epoch + 1

Release ==
  /\ holder # None /\ holder' = None
  /\ epoch' = epoch + 1

Next == Acquire \/ Bind \/ Fence \/ Release

Spec == Init /\ [][Next]_vars
=============================================================================
