------------------------ MODULE MCSessionRunState ------------------------
\* Instances of SessionRunState for TLC.
EXTENDS SessionRunState, TLC

Symmetry == Permutations(Callers) \cup Permutations(Runners) \cup Permutations(Work)
==========================================================================
