------------------------- MODULE MCProcess -------------------------
EXTENDS Process, TLC

Symmetry == Permutations(Tasks \ {Root})

=============================================================================
