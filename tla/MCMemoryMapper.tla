--------------------------- MODULE MCMemoryMapper ---------------------------
(* Symmetry for model checking MemoryMapper.                               *)
EXTENDS MemoryMapper, TLC

Symmetry == Permutations(Handles) \cup Permutations(Segments)
=============================================================================
