---------------------------- MODULE MCLifecycle ----------------------------
\* Instances of ActorLifecycle for TLC.
EXTENDS ActorLifecycle, TLC

CONSTANTS s1, s2, c, t1, t2, t3

MCTimerOf == [x \in {s1, s2, c} |-> CASE x = s1 -> t1 [] x = s2 -> t2 [] x = c -> t3]
Symmetry == Permutations(Messages) \cup Permutations(Reactivators)
=============================================================================
