---------------------------- MODULE MCQueueStore ----------------------------
(* Small instances of QueueStore for TLC. *)
EXTENDS QueueStore
=============================================================================
