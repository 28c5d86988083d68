------------------------------ MODULE MCMyList ------------------------------
(***************************************************************************)
(* MyList for TLC: memory and values are interchangeable.                  *)
(***************************************************************************)
EXTENDS MyList

MemoryAndValues == Permutations(Memory) \cup Permutations(Values)
=============================================================================
