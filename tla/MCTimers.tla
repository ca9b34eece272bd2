------------------------------ MODULE MCTimers ------------------------------
(* Instances of Timers for TLC. *)
EXTENDS Timers

CONSTANTS t1, t2, r1

MCJumps == {3, 5}
MCPlans ==
    {[timers |-> {t1}, delays |-> {0, 6, 13}, until |-> 19],
     [timers |-> {t1, t2}, delays |-> {1, 6}, until |-> 9],
     [timers |-> {t1, r1}, delays |-> {1}, until |-> 12],
     [timers |-> {r1}, delays |-> {1, 6}, until |-> 16]}
=============================================================================
