------------------------------ MODULE BatchRun ------------------------------
(***************************************************************************)
(* BatchRunner.run and the port functions of src/vice_next_mcp/batch.py.   *)
(*                                                                         *)
(* Runs in several threads share one table of reserved ports under         *)
(* _PORT_LOCK, which is not reentrant.  Each run reserves a port per case, *)
(* executes its cases in a thread pool, collects the futures as they       *)
(* complete, joins the pool, releases the ports and writes results.json.   *)
(* The port allocator is the atomic registry that PortAllocator implements.*)
(***************************************************************************)
EXTENDS Integers, Sequences, FiniteSets, FiniteSetsExt, SequencesExt

CONSTANTS
  Run,      \* calls of BatchRunner.run
  Count,    \* cases of a run: 1 .. Count
  Workers,  \* threads of a run's pool
  MaxPort,  \* the allocator can reserve the ports 1 .. MaxPort
  Based,    \* the runs that have the base port 1; the others take ephemeral ports
  MaxTaken, \* bound: ports that other processes have reserved throughout
  Other,    \* their owner
  None

ASSUME BatchConstants ==
  /\ Count \in Nat /\ Workers \in Nat \ {0}
  /\ {MaxPort, MaxTaken} \subseteq Nat /\ Based \subseteq Run
  /\ None \notin Run /\ Other \notin Run \cup {None}

Case == 1 .. Count
Port == 1 .. MaxPort

VARIABLES
  lock,      \* the run whose thread is inside _PORT_LOCK
  owner,     \* the run a port is reserved for
  pc,        \* per run: where its calling thread is
  ports,     \* per run: "out" of allocate_ports, then "ports"
  fut,       \* per run and case: the future
  results,   \* per run: the cases whose results were collected
  asked,     \* per run: futures the loop of x.cancel() has gone through
  failFast,  \* per run: the argument fail_fast
  cancel     \* per run: the event is missing, clear or set

vars == <<lock, owner, pc, ports, fut, results, asked, failFast, cancel>>

\* At one of these a thread waits for _PORT_LOCK; the value is where it goes on.
Locked == [allocate |-> "reserving", unwind |-> "freeing", release |-> "freeing"]

\* Of the calling thread: collecting, in two steps after a failure under fail_fast, and joining.
Pooled == {"pool", "signal", "cancelling", "join"}

\* Of a future: its function runs, has returned a result, or result() is going to raise.
Busy == {"taken", "handoff", "executing"}
Finished == {"passed", "failed", "skipped"}
Lost == {"notified", "raised"}
Ended == {"done", "raised"}

TypeOK ==
  /\ lock \in Run \cup {None}
  /\ owner \in [Port -> Run \cup {Other, None}]
  /\ pc \in [Run -> {"idle", "reserving", "freeing", "write", "done", "raised"} \cup Pooled
                    \cup DOMAIN Locked]
  /\ ports \in [Run -> UNION {[1 .. n -> Port] : n \in 0 .. Count}]
  /\ fut \in [Run -> [Case -> {"pending", "cancelled"} \cup Busy \cup Finished \cup Lost]]
  /\ results \in [Run -> SUBSET Case]
  /\ \A r \in Run : asked[r] \in Nat /\ (asked[r] # 0 => pc[r] = "cancelling" /\ asked[r] < Count)
  /\ failFast \in [Run -> BOOLEAN]
  /\ cancel \in [Run -> {"missing", "clear", "set"}]

Init ==
  /\ lock = None
  /\ owner \in [Port -> {Other, None}]
  /\ Cardinality({p \in Port : owner[p] = Other}) <= MaxTaken
  /\ pc = [r \in Run |-> "idle"] /\ ports = [r \in Run |-> <<>>]
  /\ fut = [r \in Run |-> [c \in Case |-> "pending"]]
  /\ results = [r \in Run |-> {}] /\ asked = [r \in Run |-> 0]
  /\ failFast \in [Run -> BOOLEAN] /\ cancel \in [Run -> {"missing", "clear"}]

Goto(r, step) == pc' = [pc EXCEPT ![r] = step]
Becomes(r, c, value) == fut' = [fut EXCEPT ![r][c] = value]

-----------------------------------------------------------------------------
(* The calling thread: ports *)

Start(r) ==
  /\ pc[r] = "idle"
  /\ Goto(r, "allocate")
  /\ UNCHANGED <<lock, owner, ports, fut, results, asked, failFast, cancel>>

EnterLock(r) ==
  /\ pc[r] \in DOMAIN Locked /\ lock = None
  /\ lock' = r
  /\ Goto(r, Locked[pc[r]])
  /\ UNCHANGED <<owner, ports, fut, results, asked, failFast, cancel>>

\* What the allocator may give to the i-th case of run r: the first free port from
\* base + i - 1 on, or any free port.
Offered(r, i) ==
  LET free == {p \in Port : owner[p] = None /\ (r \in Based => p >= i)}
  IN {p \in free : r \in Based => \A q \in free : p <= q}

\* Leased ports that no reservation holds bound: those of other processes, and those
\* handed off to a case.
Unbound ==
  {p \in Port : \/ owner[p] = Other
                \/ \E s \in Run, c \in Case :
                     /\ pc[s] \in Pooled \cup {"release", "freeing"} /\ ports[s][c] = p
                     /\ fut[s][c] \in {"executing", "passed", "failed", "raised"}}

\* reserve(p) refuses every p from the base port on.  reserve(0) tries one port, the one
\* the kernel picks: it refuses when that one is leased, however many are free.
Refused(r, i) == Offered(r, i) = {} \/ (r \notin Based /\ Unbound # {})

\* Mutant of Reserve: one port too many.
ReserveOneMore(r) ==
  /\ pc[r] = "reserving" /\ Len(ports[r]) <= Count
  /\ \/ \E p \in Offered(r, Len(ports[r]) + 1) :
          /\ owner' = [owner EXCEPT ![p] = r]
          /\ ports' = [ports EXCEPT ![r] = Append(@, p)]
          /\ UNCHANGED pc
     \/ Refused(r, Len(ports[r]) + 1) /\ Goto(r, "unwind") /\ UNCHANGED <<owner, ports>>
  /\ UNCHANGED <<lock, fut, results, asked, failFast, cancel>>

\* One round of allocate_ports; when the allocator refuses, its except clause calls
\* release_ports, which is going to take the lock this thread holds.
Reserve(r) ==
  /\ pc[r] = "reserving" /\ Len(ports[r]) < Count
  /\ \/ \E p \in Offered(r, Len(ports[r]) + 1) :
          /\ owner' = [owner EXCEPT ![p] = r]
          /\ ports' = [ports EXCEPT ![r] = Append(@, p)]
          /\ UNCHANGED pc
     \/ Refused(r, Len(ports[r]) + 1) /\ Goto(r, "unwind") /\ UNCHANGED <<owner, ports>>
  /\ UNCHANGED <<lock, fut, results, asked, failFast, cancel>>

\* allocate_ports returns and the futures are submitted.
Allocated(r) ==
  /\ pc[r] = "reserving" /\ Len(ports[r]) = Count
  /\ lock' = None
  /\ Goto(r, "pool")
  /\ UNCHANGED <<owner, ports, fut, results, asked, failFast, cancel>>

\* Mutant of Free: the ports are not released in a finally clause.
FreeOnSuccess(r) ==
  /\ pc[r] = "freeing"
  /\ owner' = [p \in Port |-> IF p \in ToSet(ports[r]) /\ results[r] = Case THEN None ELSE owner[p]]
  /\ lock' = None
  /\ Goto(r, IF results[r] = Case THEN "write" ELSE "raised")
  /\ UNCHANGED <<ports, fut, results, asked, failFast, cancel>>

\* release_ports: of the whole list, or of what allocate_ports had got.
Free(r) ==
  /\ pc[r] = "freeing"
  /\ owner' = [p \in Port |-> IF p \in ToSet(ports[r]) THEN None ELSE owner[p]]
  /\ lock' = None
  /\ Goto(r, IF results[r] = Case THEN "write" ELSE "raised")
  /\ UNCHANGED <<ports, fut, results, asked, failFast, cancel>>

-----------------------------------------------------------------------------
(* The calling thread: results *)

\* Mutant of Collect: a failure cancels nothing.
CollectOnly(r, c) ==
  /\ pc[r] = "pool" /\ fut[r][c] \in Finished /\ c \notin results[r]
  /\ results' = [results EXCEPT ![r] = @ \cup {c}]
  /\ UNCHANGED <<lock, owner, pc, ports, fut, asked, failFast, cancel>>

\* as_completed() yields a future that has finished.
Collect(r, c) ==
  /\ pc[r] = "pool" /\ fut[r][c] \in Finished /\ c \notin results[r]
  /\ results' = [results EXCEPT ![r] = @ \cup {c}]
  /\ IF failFast[r] /\ fut[r][c] = "failed" THEN Goto(r, "signal") ELSE UNCHANGED pc
  /\ UNCHANGED <<lock, owner, ports, fut, asked, failFast, cancel>>

\* cancel.set() of fail_fast, when there is an event.
Signal(r) ==
  /\ pc[r] = "signal"
  /\ cancel' = [cancel EXCEPT ![r] = IF @ = "missing" THEN @ ELSE "set"]
  /\ Goto(r, "cancelling")
  /\ UNCHANGED <<lock, owner, ports, fut, results, asked, failFast>>

\* x.cancel() of the next future: it cancels one that no worker has taken.
CancelNext(r) ==
  /\ pc[r] = "cancelling"
  /\ LET c == asked[r] + 1
     IN /\ fut' = [fut EXCEPT ![r][c] = IF @ = "pending" THEN "cancelled" ELSE @]
        /\ asked' = [asked EXCEPT ![r] = IF c = Count THEN 0 ELSE c]
        /\ IF c = Count THEN Goto(r, "pool") ELSE UNCHANGED pc
  /\ UNCHANGED <<lock, owner, ports, results, failFast, cancel>>

\* Mutant of CollectLost: a cancelled future counts as a result.
CollectLostAsResult(r, c) ==
  /\ pc[r] = "pool" /\ fut[r][c] \in Lost
  /\ results' = [results EXCEPT ![r] = @ \cup {c}]
  /\ UNCHANGED <<lock, owner, pc, ports, fut, asked, failFast, cancel>>

\* It yields a future whose result() raises: CancelledError, or what its function raised.
CollectLost(r, c) ==
  /\ pc[r] = "pool" /\ fut[r][c] \in Lost
  /\ Goto(r, "join")
  /\ UNCHANGED <<lock, owner, ports, fut, results, asked, failFast, cancel>>

AllCollected(r) ==
  /\ pc[r] = "pool" /\ results[r] = Case
  /\ Goto(r, "join")
  /\ UNCHANGED <<lock, owner, ports, fut, results, asked, failFast, cancel>>

\* Mutant of Join: the pool is not waited for.
JoinNothing(r) ==
  /\ pc[r] = "join"
  /\ Goto(r, "release")
  /\ UNCHANGED <<lock, owner, ports, fut, results, asked, failFast, cancel>>

\* Mutant of Join: cancelled futures are waited for as well.
JoinFinished(r) ==
  /\ pc[r] = "join"
  /\ \A c \in Case : fut[r][c] \in Finished
  /\ Goto(r, "release")
  /\ UNCHANGED <<lock, owner, ports, fut, results, asked, failFast, cancel>>

\* The pool's __exit__ waits for every submitted future.
Join(r) ==
  /\ pc[r] = "join"
  /\ \A c \in Case : fut[r][c] \in Finished \cup Lost
  /\ Goto(r, "release")
  /\ UNCHANGED <<lock, owner, ports, fut, results, asked, failFast, cancel>>

WriteResults(r) ==
  /\ pc[r] = "write"
  /\ Goto(r, "done")
  /\ UNCHANGED <<lock, owner, ports, fut, results, asked, failFast, cancel>>

-----------------------------------------------------------------------------
(* The pool's threads, and the owner of the cancel event *)

IdleWorker(r) == Cardinality({c \in Case : fut[r][c] \in Busy}) < Workers

\* A worker takes the next pending future in order, which cannot be cancelled any more.
Take(r, c) ==
  /\ pc[r] \in Pooled /\ IdleWorker(r)
  /\ fut[r][c] = "pending" /\ \A d \in 1 .. c - 1 : fut[r][d] # "pending"
  /\ Becomes(r, c, "taken")
  /\ UNCHANGED <<lock, owner, pc, ports, results, asked, failFast, cancel>>

\* one() up to its try block: a case that is no object raises; cancelled before start,
\* it is not executed.
Test(r, c) ==
  /\ fut[r][c] = "taken"
  /\ Becomes(r, c, "raised") \/ Becomes(r, c, IF cancel[r] = "set" THEN "skipped" ELSE "handoff")
  /\ UNCHANGED <<lock, owner, pc, ports, results, asked, failFast, cancel>>

\* A worker drops a cancelled future and notifies its waiters.
Notify(r, c) ==
  /\ pc[r] \in Pooled /\ IdleWorker(r)
  /\ fut[r][c] = "cancelled"
  /\ Becomes(r, c, "notified")
  /\ UNCHANGED <<lock, owner, pc, ports, results, asked, failFast, cancel>>

\* handoff_port under the lock; RuntimeError, a failed case, when the port is not reserved.
Handoff(r, c) ==
  /\ fut[r][c] = "handoff" /\ lock = None
  /\ Becomes(r, c, IF owner[ports[r][c]] # None THEN "executing" ELSE "failed")
  /\ UNCHANGED <<lock, owner, pc, ports, results, asked, failFast, cancel>>

\* execute() returns, raises an Exception, or something that is none and leaves one().
Executed(r, c) ==
  /\ fut[r][c] = "executing"
  /\ \E outcome \in {"passed", "failed", "raised"} : Becomes(r, c, outcome)
  /\ UNCHANGED <<lock, owner, pc, ports, results, asked, failFast, cancel>>

SetCancel(r) ==
  /\ cancel[r] = "clear"
  /\ cancel' = [cancel EXCEPT ![r] = "set"]
  /\ UNCHANGED <<lock, owner, pc, ports, fut, results, asked, failFast>>

-----------------------------------------------------------------------------

Caller(r) ==
  \/ EnterLock(r) \/ Reserve(r) \/ Allocated(r) \/ Free(r)
  \/ Signal(r) \/ CancelNext(r) \/ AllCollected(r) \/ Join(r) \/ WriteResults(r)
  \/ \E c \in Case : Collect(r, c) \/ CollectLost(r, c)

Worker(r) ==
  \E c \in Case :
    Take(r, c) \/ Test(r, c) \/ Notify(r, c) \/ Handoff(r, c) \/ Executed(r, c)

Next == \E r \in Run : Start(r) \/ Caller(r) \/ Worker(r) \/ SetCancel(r)

Spec == Init /\ [][Next]_vars

\* Threads are scheduled, _PORT_LOCK goes to each of its waiters in the end, and
\* execute() returns.
FairSpec ==
  /\ Spec
  /\ \A r \in Run : SF_vars(Caller(r)) /\ \A c \in Case : SF_vars(Handoff(r, c))
  /\ \A r \in Run : WF_vars(Worker(r))

-----------------------------------------------------------------------------
(* Properties *)

\* A case executes on a port that is reserved for its run and that no other executing
\* case of any run uses, also while a run that has raised is being wound up.
PortsIsolated ==
  \A r \in Run, c \in Case : fut[r][c] = "executing" =>
    /\ owner[ports[r][c]] = r
    /\ \A s \in Run, d \in Case :
         fut[s][d] = "executing" /\ ports[s][d] = ports[r][c] => s = r /\ d = c

\* A run that has ended holds no port, whichever way it ended.
PortsReturned ==
  \A r \in Run : pc[r] \in {"write", "done", "raised"} => \A p \in Port : owner[p] # r

\* results.json says of every case how it ended.
ResultsComplete ==
  \A r \in Run : pc[r] = "done" => \A c \in Case : c \in results[r] /\ fut[r][c] \in Finished

FailureSeen(r) == failFast[r] /\ \E d \in results[r] : fut[r][d] = "failed"

\* Once fail_fast has collected a failure and gone through the futures, no worker takes
\* another case; and once it has set the event, those taken meanwhile are not executed.
\* Between the failure and the two, cases still start.
FailFastStops ==
  [][\A r \in Run, c \in Case : FailureSeen(r) /\ pc[r] # "signal" =>
       /\ pc[r] # "cancelling" => ~(fut[r][c] = "pending" /\ fut'[r][c] = "taken")
       /\ cancel[r] # "missing" => ~(fut[r][c] = "taken" /\ fut'[r][c] = "handoff")]_vars

\* The guards of a run's steps: what its calling thread or one of its workers waits for is there.
Waiting(r, c) ==
  \/ fut[r][c] = "cancelled"
  \/ fut[r][c] = "pending" /\ \A d \in 1 .. c - 1 : fut[r][d] # "pending"

CanStep(r) ==
  \/ pc[r] \in {"idle", "freeing", "write", "signal", "cancelling"}
  \/ pc[r] \in DOMAIN Locked /\ lock = None
  \/ pc[r] = "reserving" /\ Len(ports[r]) <= Count
  \/ pc[r] = "pool" /\ \/ results[r] = Case
                       \/ \E c \in Case : \/ fut[r][c] \in Finished /\ c \notin results[r]
                                          \/ fut[r][c] \in Lost
  \/ pc[r] = "join" /\ \A c \in Case : fut[r][c] \in Finished \cup Lost
  \/ pc[r] \in Pooled /\ IdleWorker(r) /\ \E c \in Case : Waiting(r, c)
  \/ \E c \in Case : fut[r][c] \in {"taken", "executing"} \/ (fut[r][c] = "handoff" /\ lock = None)

NoneStuck ==
  \/ \E r \in Run : CanStep(r)
  \/ \A r \in Run : pc[r] \in Ended
  \/ \E r \in Run : pc[r] = "unwind" /\ lock = r

\* The one thing that stops the runs short of their ends is a run that was refused a
\* port: its thread waits for the lock it holds. Failing cases, cancelled futures,
\* contention for the lock and the winding up of the pools do not. No step is ever
\* undone, so runs that cannot get stuck end.
StuckOnlyExhausted ==
  NoneStuck /\ \A r \in Run : CanStep(r) => ENABLED (Start(r) \/ Caller(r) \/ Worker(r))

\* Every run ends.
RunsEnd == \A r \in Run : pc[r] = "allocate" ~> pc[r] \in Ended
=============================================================================
