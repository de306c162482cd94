--------------------------- MODULE MCEffectFlock ---------------------------
\* Instances of EffectFlock for TLC.
EXTENDS EffectFlock, TLC

Symmetry == Permutations(Procs)
============================================================================
