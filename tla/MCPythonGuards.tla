--------------------------- MODULE MCPythonGuards ---------------------------
EXTENDS PythonGuards, TLC

Symmetry == Permutations(WriteGuards) \cup Permutations(ReadGuards)
=============================================================================
