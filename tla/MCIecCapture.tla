---------------------------- MODULE MCIecCapture ----------------------------
(* A small instance of IecCapture. *)
EXTENDS IecCapture
=============================================================================
