--------------------------- MODULE MCComputeNode ---------------------------
(* Finite instances of ComputeNode: runs, units and directories are         *)
(* interchangeable model values, so states are checked up to permutation.   *)
EXTENDS ComputeNode, TLC

Symmetry == Permutations(Runs) \cup Permutations(Units) \cup Permutations(Dirs)

=============================================================================
