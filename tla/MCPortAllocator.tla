-------------------------- MODULE MCPortAllocator --------------------------
(* Instances of PortAllocator: two processes, one of them with two allocators. *)
EXTENDS PortAllocator, TLC

CONSTANTS a1, a2, a3, p1, p2

MCAllocator == {a1, a2, a3}
MCProcOf == a1 :> p1 @@ a2 :> p1 @@ a3 :> p2

\* Tokens are interchangeable, and so are the allocators of one process.
MCSymmetry == Permutations(Token) \cup Permutations({a1, a2})
=============================================================================
