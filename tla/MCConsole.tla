------------------------------ MODULE MCConsole ------------------------------
EXTENDS Console, TLC

Symmetry == Permutations(Tasks)
=============================================================================
