---------------------------- MODULE MCEventTimer ----------------------------
EXTENDS EventTimer, TLC
Symmetry == Permutations(Nodes \ Cancelable)
=============================================================================
