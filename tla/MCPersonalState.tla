--------------------------- MODULE MCPersonalState ---------------------------
EXTENDS PersonalState, TLC

Symmetry == Permutations(Clients)
=============================================================================
