----------------------------- MODULE MCLiveMcp -----------------------------
(* Small instances of LiveMcp; requests, ports and tokens are interchangeable. *)
EXTENDS LiveMcp, TLC

LiveSymmetry == Permutations(Request) \cup Permutations(Port) \cup Permutations(Token)
=============================================================================
