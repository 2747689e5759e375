------------------------------ MODULE MCEvents ------------------------------
(* Events with small sets of readers and producers, for TLC. *)
EXTENDS Events, TLC

Symmetry == Permutations(Readers)

=============================================================================
