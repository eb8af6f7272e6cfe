---------------------------- MODULE MCSshExport ----------------------------
(* Finite instances of SshExport: exporters and references are              *)
(* interchangeable model values, so states are checked up to permutation.   *)
EXTENDS SshExport, TLC

Symmetry == Permutations(Exporters) \cup Permutations(References)

=============================================================================
