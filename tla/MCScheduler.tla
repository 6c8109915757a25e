---------------------------- MODULE MCScheduler ----------------------------
EXTENDS SchedulerInv, TLC
CONSTANTS p1, p2, p3, c1, c2, d1
Symmetry == Permutations(Proc) \cup Permutations(CPU)
=============================================================================
