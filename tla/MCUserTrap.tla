----------------------------- MODULE MCUserTrap ------------------------------
EXTENDS UserTrap, TLC

Symmetry == Permutations(Tasks) \cup Permutations(Blocks)
=============================================================================
