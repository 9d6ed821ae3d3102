----------------------------- MODULE MCBatchRun -----------------------------
(* Small instances of BatchRun. *)
EXTENDS BatchRun

\* The runs without a base port are plain: neither fail_fast nor an event to cancel them by.
MCInit == Init /\ \A r \in Run \ Based : ~failFast[r] /\ cancel[r] = "missing"

MCSpec == MCInit /\ [][Next]_vars
=============================================================================
