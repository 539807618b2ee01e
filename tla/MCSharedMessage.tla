-------------------------- MODULE MCSharedMessage --------------------------
EXTENDS SharedMessage, TLC

Symmetry == Permutations(Writers) \cup Permutations(Readers)
=============================================================================
