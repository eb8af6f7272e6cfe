-------------------------- MODULE MCLocalAuthority --------------------------
(* Finite instances of LocalAuthority: sessions and passphrases are         *)
(* interchangeable model values, so states are checked up to permutation.   *)
EXTENDS LocalAuthority, TLC

Symmetry == Permutations(Sessions) \cup Permutations(Passphrases)

=============================================================================
