---------------------------- MODULE ProcessLaunch ----------------------------
(***************************************************************************)
(* ProcessController.launch and ViceProcess.stop of                        *)
(* src/vice_next_mcp/process.py: asyncio tasks that each launch a VICE and *)
(* then stop any VICE that was launched.                                   *)
(*                                                                         *)
(* An action is the code between two awaits.  A task may be cancelled at   *)
(* each of them; VICE may fail to start, exit at any moment, refuse its    *)
(* monitor connection or accept it without answering, and ignore SIGTERM.  *)
(* The port allocator is the atomic registry that PortAllocator implements.*)
(***************************************************************************)
EXTENDS Naturals

CONSTANTS
  Task,       \* tasks; the VICE a task launches has the task's name
  Key,        \* pairs of an instance id and a generation
  Port,       \* ports of the allocator
  MaxCancel,  \* bound: cancellations
  None

\* What launch() raises after it has torn down what it had built.
Failure == {"exists", "no port", "not spawned", "exited", "not ready"}
\* How else it may end: with the ViceProcess, or leaving something behind.
Outcome == Failure \cup {"item", "no digest", "cancelled"}

ASSUME LaunchConstants == MaxCancel \in Nat /\ None \notin Port \cup Task \cup Outcome

VARIABLES
  dirs,     \* the keys whose directories exist
  pc,       \* per task: the await it is suspended at
  cur,      \* per task: the VICE whose stop() it is in
  outcome,  \* per task: how its launch() ended
  claim,    \* per VICE: the port its reservation holds
  proc,     \* per VICE: its process
  pumping,  \* per VICE: its output is read
  stray,    \* per VICE: a connection of a failed probe is open
  cancels   \* cancellations so far

viceVars == <<claim, proc, pumping, stray>>
vars == <<dirs, pc, cur, outcome, viceVars, cancels>>

Resting == {"new", "idle", "cancelled"}

TypeOK ==
  /\ dirs \subseteq Key
  /\ pc \in [Task -> Resting \cup {"spawning", "probing", "sleeping", "gathering",
                                   "terminating", "killing", "reaping", "unwinding"}]
  /\ cur \in [Task -> Task \cup {None}]
  /\ outcome \in [Task -> Outcome \cup {None}]
  /\ claim \in [Task -> Port \cup {None}]
  /\ proc \in [Task -> {"none", "alive", "dead"}]
  /\ pumping \in [Task -> BOOLEAN] /\ stray \in [Task -> BOOLEAN]
  /\ cancels \in 0 .. MaxCancel

Init ==
  /\ dirs = {} /\ cancels = 0
  /\ pc = [t \in Task |-> "new"] /\ cur = [t \in Task |-> None]
  /\ outcome = [t \in Task |-> None] /\ claim = [t \in Task |-> None]
  /\ proc = [t \in Task |-> "none"]
  /\ pumping = [t \in Task |-> FALSE] /\ stray = [t \in Task |-> FALSE]

Goto(t, step) == pc' = [pc EXCEPT ![t] = step]
Set(f, t, value) == [f EXCEPT ![t] = value]

\* launch() returns or raises; the task goes on with something else.
Ends(t, how) == Goto(t, "idle") /\ outcome' = Set(outcome, t, how)

-----------------------------------------------------------------------------
(* stop() *)

\* The finally clause, up to the gather() of the cancelled pumps.
Finally(t, l, step) ==
  /\ claim' = Set(claim, l, None) /\ pumping' = Set(pumping, l, FALSE)
  /\ Goto(t, step) /\ cur' = Set(cur, t, l)

\* SIGTERM to a process that has not exited.
StartStop(t, l) ==
  \/ /\ proc[l] = "alive"
     /\ Goto(t, "terminating") /\ cur' = Set(cur, t, l)
     /\ UNCHANGED <<claim, pumping>>
  \/ proc[l] = "dead" /\ Finally(t, l, "reaping")

\* Whoever has the item stops it, for the first time or again.
CallStop(t) ==
  /\ pc[t] = "idle"
  /\ \E l \in Task : outcome[l] = "item" /\ StartStop(t, l)
  /\ UNCHANGED <<dirs, outcome, proc, stray, cancels>>

Exited(t) ==
  /\ pc[t] = "terminating" /\ proc[cur[t]] = "dead"
  /\ Finally(t, cur[t], "reaping")
  /\ UNCHANGED <<dirs, outcome, proc, stray, cancels>>

\* Mutant of Kill: the process is killed and not waited for.
KillUnwaited(t) ==
  /\ pc[t] = "terminating"
  /\ Finally(t, cur[t], "reaping")
  /\ UNCHANGED <<dirs, outcome, proc, stray, cancels>>

\* The timeout passes: SIGKILL.
Kill(t) ==
  /\ pc[t] = "terminating"
  /\ Goto(t, "killing")
  /\ UNCHANGED <<dirs, cur, outcome, viceVars, cancels>>

Killed(t) ==
  /\ pc[t] = "killing"
  /\ proc' = Set(proc, cur[t], "dead") /\ stray' = Set(stray, cur[t], FALSE)
  /\ Finally(t, cur[t], "reaping")
  /\ UNCHANGED <<dirs, outcome, cancels>>

\* The pumps have ended.  A stop() that launch() has called makes it raise.
Reaped(t) ==
  /\ pc[t] = "reaping"
  /\ IF outcome[t] = None THEN Ends(t, "not ready") ELSE Goto(t, "idle") /\ UNCHANGED outcome
  /\ cur' = Set(cur, t, None)
  /\ UNCHANGED <<dirs, viceVars, cancels>>

-----------------------------------------------------------------------------
(* launch() *)

\* Up to create_subprocess_exec(): the directories are made, a port is reserved.
Launch(t) ==
  /\ pc[t] = "new"
  /\ \E k \in Key :
       \/ k \in dirs /\ Ends(t, "exists") /\ UNCHANGED <<dirs, claim>>
       \/ /\ k \notin dirs /\ dirs' = dirs \cup {k}
          /\ LET free == Port \ {claim[s] : s \in Task}
             IN \/ free = {} /\ Ends(t, "no port") /\ UNCHANGED claim
                \/ \E p \in free :
                     claim' = Set(claim, t, p) /\ Goto(t, "spawning") /\ UNCHANGED outcome
  /\ UNCHANGED <<cur, proc, pumping, stray, cancels>>

NotSpawned(t) ==
  /\ pc[t] = "spawning"
  /\ claim' = Set(claim, t, None) /\ Ends(t, "not spawned")
  /\ UNCHANGED <<dirs, cur, proc, pumping, stray, cancels>>

\* The process runs.  digest() reads the executable again and may fail; else the pumps
\* are created and the first probe starts.
Spawned(t) ==
  /\ pc[t] = "spawning"
  /\ proc' = Set(proc, t, "alive")
  /\ \/ Ends(t, "no digest") /\ UNCHANGED pumping
     \/ pumping' = Set(pumping, t, TRUE) /\ Goto(t, "probing") /\ UNCHANGED outcome
  /\ UNCHANGED <<dirs, cur, claim, stray, cancels>>

\* connect(), negotiate() and close() succeed.
Ready(t) ==
  /\ pc[t] = "probing" /\ proc[t] = "alive"
  /\ Ends(t, "item")
  /\ UNCHANGED <<dirs, cur, viceVars, cancels>>

\* One of them raises; when it is negotiate(), the connection stays open for as long as
\* VICE keeps it.
ProbeFails(t) ==
  /\ Goto(t, "sleeping")
  /\ \/ UNCHANGED stray
     \/ proc[t] = "alive" /\ stray' = Set(stray, t, TRUE)

NotReady(t) ==
  /\ pc[t] = "probing" /\ ProbeFails(t)
  /\ UNCHANGED <<dirs, cur, outcome, claim, proc, pumping, cancels>>

\* The next round of the loop, before the deadline.
Round(t) ==
  /\ pc[t] = "sleeping"
  /\ Goto(t, IF proc[t] = "dead" THEN "gathering" ELSE "probing")
  /\ UNCHANGED <<dirs, cur, outcome, viceVars, cancels>>

\* Mutant of Deadline: launch() raises without stop().
DeadlineAlone(t) ==
  /\ pc[t] = "sleeping"
  /\ Ends(t, "not ready")
  /\ UNCHANGED <<dirs, cur, viceVars, cancels>>

\* Mutant of Deadline: only an exit ends the loop.
DeadlineAtExit(t) ==
  /\ pc[t] = "sleeping" /\ proc[t] = "dead"
  /\ StartStop(t, t)
  /\ UNCHANGED <<dirs, outcome, proc, stray, cancels>>

\* The deadline has passed.
Deadline(t) ==
  /\ pc[t] = "sleeping"
  /\ StartStop(t, t)
  /\ UNCHANGED <<dirs, outcome, proc, stray, cancels>>

\* VICE had exited and its output has been read to the end.
Gathered(t) ==
  /\ pc[t] = "gathering"
  /\ claim' = Set(claim, t, None) /\ pumping' = Set(pumping, t, FALSE)
  /\ Ends(t, "exited")
  /\ UNCHANGED <<dirs, cur, proc, stray, cancels>>

-----------------------------------------------------------------------------
(* Cancellation and VICE *)

\* The task ends with CancelledError.
Raises(t) ==
  /\ Goto(t, "cancelled")
  /\ outcome' = IF outcome[t] = None THEN Set(outcome, t, "cancelled") ELSE outcome

\* CancelledError is raised at the await t is suspended at: create_subprocess_exec ends
\* the child and the port is released; a probe takes it for a failure; sleep() and
\* gather() raise out of launch(); stop() runs its finally clause.
Cancel(t) ==
  /\ cancels < MaxCancel /\ cancels' = cancels + 1
  /\ \/ /\ pc[t] = "spawning" /\ Raises(t)
        /\ claim' = Set(claim, t, None) /\ UNCHANGED <<cur, pumping, stray>>
     \/ pc[t] = "probing" /\ ProbeFails(t) /\ UNCHANGED <<cur, outcome, claim, pumping>>
     \/ pc[t] = "sleeping" /\ Raises(t) /\ UNCHANGED <<cur, claim, pumping, stray>>
     \/ /\ pc[t] = "gathering" /\ Raises(t)
        /\ pumping' = Set(pumping, t, FALSE) /\ UNCHANGED <<cur, claim, stray>>
     \/ /\ pc[t] \in {"terminating", "killing"}
        /\ Finally(t, cur[t], "unwinding") /\ UNCHANGED <<outcome, stray>>
     \/ pc[t] \in {"reaping", "unwinding"} /\ Raises(t) /\ UNCHANGED <<cur, claim, pumping, stray>>
  /\ UNCHANGED <<dirs, proc>>

Unwound(t) ==
  /\ pc[t] = "unwinding"
  /\ Raises(t)
  /\ UNCHANGED <<dirs, cur, viceVars, cancels>>

\* VICE exits; its connections are closed.
Dies(l) ==
  /\ proc[l] = "alive"
  /\ proc' = Set(proc, l, "dead") /\ stray' = Set(stray, l, FALSE)
  /\ UNCHANGED <<dirs, pc, cur, outcome, claim, pumping, cancels>>

-----------------------------------------------------------------------------

LaunchStep(t) ==
  NotSpawned(t) \/ Spawned(t) \/ Ready(t) \/ NotReady(t) \/ Round(t) \/ Deadline(t) \/ Gathered(t)
StopStep(t) == Exited(t) \/ Kill(t) \/ Killed(t) \/ Reaped(t) \/ Unwound(t)

Next ==
  \E t \in Task :
    Launch(t) \/ LaunchStep(t) \/ CallStop(t) \/ StopStep(t) \/ Cancel(t) \/ Dies(t)

Spec == Init /\ [][Next]_vars

\* Spawning and probing end, timers fire, SIGKILL takes effect; since time passes, the
\* loop comes to find its deadline passed.
FairSpec ==
  /\ Spec
  /\ \A t \in Task : WF_vars(LaunchStep(t)) /\ WF_vars(StopStep(t)) /\ SF_vars(Deadline(t))

-----------------------------------------------------------------------------
(* Properties *)

\* A launch that fails leaves nothing behind: no process, port, pump or connection,
\* whatever VICE did meanwhile and even if a cancellation was taken for a failed probe.
FailureLeavesNothing ==
  \A t \in Task : outcome[t] \in Failure =>
    proc[t] # "alive" /\ claim[t] = None /\ ~pumping[t] /\ ~stray[t]

\* A stop() of l was cancelled while it waited for the process.
CutShort(l) == \E t \in Task : cur[t] = l /\ pc[t] \in {"unwinding", "cancelled"}

\* A VICE that runs keeps its port and has its output read, so that it never blocks on
\* a full pipe and nobody is given its port: however launches and stops of several
\* tasks interleave, only a stop() cut short takes them from it.
RunningIsServed ==
  \A l \in Task : proc[l] = "alive" =>
    \/ claim[l] # None /\ (pumping[l] \/ outcome[l] = "no digest")
    \/ CutShort(l)

\* What t may rely on at each of its awaits.
Located(t) ==
  /\ pc[t] \in {"new", "spawning"} => proc[t] = "none" /\ ~pumping[t]
  /\ proc[t] = "none" => pc[t] \in {"new", "spawning"} \/ (outcome[t] # "item" /\ ~pumping[t])
  /\ pc[t] \in {"new", "spawning", "probing", "sleeping", "gathering"} =>
       outcome[t] = None /\ cur[t] = None
  /\ pc[t] = "idle" => outcome[t] # None /\ cur[t] = None
  /\ pc[t] = "spawning" => claim[t] # None
  /\ pc[t] \in {"probing", "sleeping"} => proc[t] # "none"
  /\ pc[t] = "gathering" => proc[t] = "dead"
  /\ pc[t] \in {"terminating", "killing", "reaping", "unwinding"} =>
       cur[t] # None /\ proc[cur[t]] # "none" /\ (outcome[t] = None => cur[t] = t)
  /\ pc[t] = "reaping" => proc[cur[t]] = "dead" /\ claim[cur[t]] = None /\ ~pumping[cur[t]]
  /\ stray[t] => proc[t] = "alive"
  /\ claim[t] # None => pc[t] # "new"

\* The inductive invariant: once stop() has come to its gather() the process is down and
\* everything is given back, whichever task called it.
Inductive ==
  /\ TypeOK
  /\ \A t \in Task : Located(t)
  /\ FailureLeavesNothing
  /\ RunningIsServed

\* Every launch() and stop() ends, cancelled or not.
CallsEnd == \A t \in Task : pc[t] \notin Resting ~> pc[t] \in Resting
=============================================================================
