-------------------------- MODULE MCOperationSync --------------------------
(* Small instances of OperationSync for TLC. *)
EXTENDS OperationSync, TLC

\* The two request slots are interchangeable.
RequestSymmetry == Permutations(Requests)
=============================================================================
