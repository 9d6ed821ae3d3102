---------------------------- MODULE PortRegistry ----------------------------
(***************************************************************************)
(* What PortAllocator promises its callers (README, "Parallel-session      *)
(* isolation"): seen from outside, all allocators of a host are one atomic *)
(* table of reservations with at most one on a port.  A reservation ends   *)
(* when its holder releases it or its process dies, and for no other       *)
(* reason.                                                                 *)
(***************************************************************************)
CONSTANTS Allocator, Proc, ProcOf, Port, Token

VARIABLE issued  \* the reservations in force

Entry == [by : Allocator, port : Port, tok : Token]

Init == issued = {}

\* reserve() grants a port nobody has.
Grant ==
  \E e \in Entry :
    /\ \A f \in issued : f.port # e.port
    /\ issued' = issued \cup {e}

\* release() by the holder.
Return == \E e \in issued : issued' = issued \ {e}

\* All reservations of a process end with it.
Die(x) == issued' = {e \in issued : ProcOf[e.by] # x}

Next == Grant \/ Return \/ \E x \in Proc : Die(x)

Spec == Init /\ [][Next]_issued
=============================================================================
