---------------------------- MODULE MCDisruptor ----------------------------
\* Instances of DisruptorMailbox for TLC.
EXTENDS DisruptorMailbox, TLC

Symmetry == Permutations(Producers)
=============================================================================
