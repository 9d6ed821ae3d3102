-------------------------- MODULE MCProcessLaunch --------------------------
(* A small instance of ProcessLaunch. *)
EXTENDS ProcessLaunch
=============================================================================
