------------------------- MODULE ClaimOrderedChannel -------------------------
(***************************************************************************)
(* What the class comment of DisruptorMpscRing promises its users: a       *)
(* bounded channel in which a sender first claims a position, then fills   *)
(* it, in any order among senders, and the receiver gets the positions in  *)
(* the order of the claims, each once, waiting at a position that is       *)
(* claimed and not filled.  No slot, lap or cursor appears here.           *)
(***************************************************************************)
EXTENDS Integers, Sequences

CONSTANT Capacity

VARIABLES
    claimed,    \* number of positions claimed so far
    filled,     \* positions filled and not yet received
    received    \* the positions received, in order

Init == claimed = 0 /\ filled = {} /\ received = << >>

\* The lowest position the receiver has not received.
Oldest == Len(received)

ClaimPosition ==
    /\ claimed < Oldest + Capacity
    /\ claimed' = claimed + 1
    /\ UNCHANGED <<filled, received>>

Fill ==
    /\ \E n \in (Oldest .. claimed - 1) \ filled : filled' = filled \cup {n}
    /\ UNCHANGED <<claimed, received>>

Receive ==
    /\ Oldest \in filled
    /\ filled' = filled \ {Oldest}
    /\ received' = Append(received, Oldest)
    /\ UNCHANGED claimed

Next == ClaimPosition \/ Fill \/ Receive

Spec == Init /\ [][Next]_<<claimed, filled, received>>
=============================================================================
