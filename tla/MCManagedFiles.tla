---------------------------- MODULE MCManagedFiles ----------------------------
(* Small instances of ManagedFiles for TLC. *)
EXTENDS ManagedFiles
=============================================================================
