--------------------------- MODULE MCSyncMonitor ---------------------------
(* A small instance of SyncMonitor. *)
EXTENDS SyncMonitor
=============================================================================
