---------------------------- MODULE MCDbSession ----------------------------
(* DbSession with two versions to save, one after the other.               *)
EXTENDS DbSession, TLC

Symmetry == Permutations(Versions)

=============================================================================
