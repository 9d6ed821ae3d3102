------------------------- MODULE MCMonitorTransport -------------------------
(* Small instances of MonitorTransport; requests are interchangeable. *)
EXTENDS MonitorTransport, TLC

Symmetry == Permutations(Req)
=============================================================================
