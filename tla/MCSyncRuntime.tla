---------------------------- MODULE MCSyncRuntime ----------------------------
(* Small instances of SyncRuntime for TLC. *)
EXTENDS SyncRuntime
=============================================================================
