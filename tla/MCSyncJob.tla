---------------------------- MODULE MCSyncJob ----------------------------
(* Small instances of SyncJob for TLC. *)
EXTENDS SyncJob
==========================================================================
