---------------------------- MODULE MCSupervisor ----------------------------
(* Small instances of Supervisor; ids, ports, tokens and threads are interchangeable. *)
EXTENDS Supervisor, TLC

Symmetry ==
  Permutations(Thread) \cup Permutations(Ident) \cup Permutations(Port) \cup Permutations(Token)
=============================================================================
