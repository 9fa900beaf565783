---------------------------- MODULE MCSyncService ----------------------------
(* SyncService with two task names, so that a second live task would show. *)
EXTENDS SyncService
=============================================================================
