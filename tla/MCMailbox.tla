----------------------------- MODULE MCMailbox -----------------------------
(* Mailbox with interchangeable callers. *)
EXTENDS Mailbox, TLC

Symmetry == Permutations(Callers)
=============================================================================
