---------------------------- MODULE MCPlacement ----------------------------
(* Bounds for model checking WorkPlacement. *)
EXTENDS WorkPlacement

CONSTANTS free, fixed
MCItems == {free, fixed}
MCPin == [a \in MCItems |-> IF a = fixed THEN 0 ELSE Unpinned]
MCPriority == [a \in MCItems |-> IF a = free THEN 1 ELSE 0]

\* What follows an undefined use of an EDF queue or of a deque is not explored.
Untainted == ~raced /\ ~unowned
=============================================================================
