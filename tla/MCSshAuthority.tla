--------------------------- MODULE MCSshAuthority ---------------------------
(* Finite instances of SshAuthority: sessions and passphrases are           *)
(* interchangeable model values, so states are checked up to permutation    *)
(* (not in the liveness run, where symmetry would be unsound).              *)
EXTENDS SshAuthorityInv, TLC

Symmetry == Permutations(Sessions) \cup Permutations(Passphrases)

=============================================================================
