----------------------------- MODULE Supervisor -----------------------------
(***************************************************************************)
(* Supervisor of src/vice_next_mcp/supervisor.py: it spawns VICE processes *)
(* on reserved ports, registers them under an instance id and generation,  *)
(* stops, restarts and leases them.                                        *)
(*                                                                         *)
(* Threads call it concurrently: only get(), lease() and release() take    *)
(* its lock, so create(), stop(), restart() and close() interleave between *)
(* their steps.  VICE may die at any moment, ignore SIGTERM, fail to       *)
(* start, or accept a connection without answering on it.  The port        *)
(* allocator is the atomic registry that PortAllocator implements.         *)
(***************************************************************************)
EXTENDS Integers, FiniteSets

CONSTANTS
  Thread,     \* callers of the supervisor
  Ident,      \* instance ids
  MaxObject,  \* bound: Instance objects ever made are 1 .. MaxObject
  Port,       \* ports of the allocator
  Token,      \* lease tokens; their number bounds the leases
  SlowKill,   \* whether a process may outlive SIGKILL by the two seconds waited for it
  None

ASSUME SupervisorConstants ==
  /\ IsFiniteSet(Thread) /\ MaxObject \in Nat /\ SlowKill \in BOOLEAN
  /\ None \notin Port \cup Token \cup Ident \cup Thread

Object == 1 .. MaxObject  \* 0 stands for no object

VARIABLES
  made,      \* objects made so far, those of unfinished create() calls included
  registry,  \* _instances
  id, gen, state, proc, mon,  \* per object: fields of Instance
  hasPort,   \* per object: port_reservation is not None
  claim,     \* per object: the port whose lease its reservation holds
  token,     \* per object: lease_token
  used,      \* lease tokens handed out
  pc, ident, cur, new, nextGen, then, todo  \* per thread: locals of its call

objectVars == <<id, gen, state, proc, mon, hasPort, claim>>
leaseVars == <<token, used>>
localVars == <<ident, cur, new, nextGen, then, todo>>
vars == <<made, registry, objectVars, leaseVars, pc, localVars>>

CreateSteps == {"reserve", "spawn", "probe", "kill", "abandon", "register"}
StopSteps ==
  {"get", "disconnect", "terminate", "wait", "release", "give", "clear", "stopped"}

TypeOK ==
  /\ made \in 0 .. MaxObject
  /\ registry \in [Ident -> 0 .. MaxObject]
  /\ id \in [Object -> Ident \cup {None}]
  /\ gen \in [Object -> 0 .. MaxObject]
  /\ state \in [Object -> {"none", "starting", "running", "failed", "stopped"}]
  /\ proc \in [Object -> {"none", "alive", "dead"}]
  /\ mon \in [Object -> {"none", "open", "closed"}]
  /\ hasPort \in [Object -> BOOLEAN]
  /\ claim \in [Object -> Port \cup {None}]
  /\ token \in [Object -> Token \cup {None}] /\ used \subseteq Token
  /\ pc \in [Thread -> {"idle", "next"} \cup CreateSteps \cup StopSteps]
  /\ ident \in [Thread -> Ident \cup {None}]
  /\ cur \in [Thread -> 0 .. MaxObject] /\ new \in [Thread -> 0 .. MaxObject]
  /\ nextGen \in [Thread -> 0 .. MaxObject]
  /\ then \in [Thread -> {"idle", "restart", "next"}]
  /\ todo \in [Thread -> SUBSET Object]

Init ==
  /\ made = 0 /\ registry = [x \in Ident |-> 0]
  /\ id = [h \in Object |-> None] /\ gen = [h \in Object |-> 0]
  /\ state = [h \in Object |-> "none"] /\ proc = [h \in Object |-> "none"]
  /\ mon = [h \in Object |-> "none"] /\ hasPort = [h \in Object |-> FALSE]
  /\ claim = [h \in Object |-> None]
  /\ token = [h \in Object |-> None] /\ used = {}
  /\ pc = [t \in Thread |-> "idle"] /\ ident = [t \in Thread |-> None]
  /\ cur = [t \in Thread |-> 0] /\ new = [t \in Thread |-> 0]
  /\ nextGen = [t \in Thread |-> 0] /\ then = [t \in Thread |-> "idle"]
  /\ todo = [t \in Thread |-> {}]

Goto(t, step) == pc' = [pc EXCEPT ![t] = step]

\* The call returns or raises: its locals are gone.
Leave(t) ==
  /\ Goto(t, "idle")
  /\ ident' = [ident EXCEPT ![t] = None]
  /\ cur' = [cur EXCEPT ![t] = 0] /\ new' = [new EXCEPT ![t] = 0]
  /\ nextGen' = [nextGen EXCEPT ![t] = 0] /\ then' = [then EXCEPT ![t] = "idle"]
  /\ todo' = [todo EXCEPT ![t] = {}]

\* Bound: a call that makes an object starts only while there is one to be made.
RoomToCreate ==
  made + Cardinality({s \in Thread : nextGen[s] # 0 /\ new[s] = 0}) < MaxObject

-----------------------------------------------------------------------------
(* create() *)

\* A new instance gets a random id, one that nobody has.
CallCreate(t) ==
  /\ pc[t] = "idle" /\ RoomToCreate
  /\ \E x \in Ident :
       /\ registry[x] = 0 /\ \A s \in Thread : ident[s] # x
       /\ ident' = [ident EXCEPT ![t] = x]
  /\ nextGen' = [nextGen EXCEPT ![t] = 1]
  /\ Goto(t, "reserve")
  /\ UNCHANGED <<made, registry, objectVars, leaseVars, cur, new, then, todo>>

\* _port(): a port without a lease, or LaunchError.
Reserve(t) ==
  /\ pc[t] = "reserve"
  /\ LET free == {p \in Port : \A h \in Object : claim[h] # p}
     IN \/ \E p \in free :
             /\ made' = made + 1 /\ new' = [new EXCEPT ![t] = made']
             /\ id' = [id EXCEPT ![made'] = ident[t]]
             /\ gen' = [gen EXCEPT ![made'] = nextGen[t]]
             /\ state' = [state EXCEPT ![made'] = "starting"]
             /\ claim' = [claim EXCEPT ![made'] = p]
             /\ Goto(t, "spawn")
             /\ UNCHANGED <<ident, cur, nextGen, then, todo>>
        \/ free = {} /\ Leave(t) /\ UNCHANGED <<made, id, gen, state, claim>>
  /\ UNCHANGED <<registry, proc, mon, hasPort, leaseVars>>

\* mkdir() of the trace directory raises before the try block, or Popen something else
\* than an OSError: nothing is registered, and the reservation is lost with the call.
Escapes(t) ==
  /\ pc[t] = "spawn"
  /\ Leave(t)
  /\ UNCHANGED <<made, registry, objectVars, leaseVars>>

Spawn(t) ==
  /\ pc[t] = "spawn"
  /\ proc' = [proc EXCEPT ![new[t]] = "alive"]
  /\ Goto(t, "probe")
  /\ UNCHANGED <<made, registry, id, gen, state, mon, hasPort, claim, leaseVars, localVars>>

\* Mutant of Abandon: the reservation of a failed start is not released.
AbandonLeased(t) ==
  /\ pc[t] \in {"spawn", "abandon"}
  /\ state' = [state EXCEPT ![new[t]] = "failed"]
  /\ registry' = [registry EXCEPT ![ident[t]] = new[t]]
  /\ Leave(t)
  /\ UNCHANGED <<made, id, gen, proc, mon, hasPort, claim, leaseVars>>

\* Popen raises OSError, or the start was given up: a FAILED instance is registered.
Abandon(t) ==
  /\ pc[t] \in {"spawn", "abandon"}
  /\ claim' = [claim EXCEPT ![new[t]] = None]
  /\ state' = [state EXCEPT ![new[t]] = "failed"]
  /\ registry' = [registry EXCEPT ![ident[t]] = new[t]]
  /\ Leave(t)
  /\ UNCHANGED <<made, id, gen, proc, mon, hasPort, leaseVars>>

\* One round of the startup loop: VICE accepts the connection, and may answer.
Connect(t) ==
  /\ pc[t] = "probe" /\ proc[new[t]] = "alive"
  /\ mon' = [mon EXCEPT ![new[t]] = "open"]
  /\ Goto(t, "register") \/ UNCHANGED pc
  /\ UNCHANGED <<made, registry, id, gen, state, proc, hasPort, claim, leaseVars, localVars>>

\* The deadline has passed or VICE has exited; a connection is enough to go on with.
StopProbing(t) ==
  /\ pc[t] = "probe"
  /\ Goto(t, IF mon[new[t]] = "none" THEN "kill" ELSE "register")
  /\ UNCHANGED <<made, registry, objectVars, leaseVars, localVars>>

\* terminate(), wait(), and if need be kill() and wait(), whose TimeoutExpired
\* leaves create() with nothing registered and nothing released.
Kill(t) ==
  /\ pc[t] = "kill"
  /\ \/ /\ proc' = [proc EXCEPT ![new[t]] = "dead"]
        /\ Goto(t, "abandon")
        /\ UNCHANGED localVars
     \/ SlowKill /\ Leave(t) /\ UNCHANGED proc
  /\ UNCHANGED <<made, registry, id, gen, state, mon, hasPort, claim, leaseVars>>

\* The instance is registered.  What follows in create(), the autostart command, may
\* still raise and changes nothing here: the call has no other part in what happens.
Register(t) ==
  /\ pc[t] = "register"
  /\ state' = [state EXCEPT ![new[t]] = "running"]
  /\ hasPort' = [hasPort EXCEPT ![new[t]] = TRUE]
  /\ registry' = [registry EXCEPT ![ident[t]] = new[t]]
  /\ Leave(t)
  /\ UNCHANGED <<made, id, gen, proc, mon, claim, leaseVars>>

-----------------------------------------------------------------------------
(* stop(), restart(), close() *)

CallStop(t) ==
  /\ pc[t] = "idle"
  /\ \E x \in Ident : registry[x] # 0 /\ ident' = [ident EXCEPT ![t] = x]
  /\ Goto(t, "get")
  /\ UNCHANGED <<made, registry, objectVars, leaseVars, cur, new, nextGen, then, todo>>

Restarts(t, increment, step) ==
  /\ pc[t] = "idle" /\ RoomToCreate
  /\ \E x \in Ident :
       /\ registry[x] # 0
       /\ ident' = [ident EXCEPT ![t] = x]
       /\ nextGen' = [nextGen EXCEPT ![t] = gen[registry[x]] + increment]
  /\ then' = [then EXCEPT ![t] = "restart"]
  /\ Goto(t, step)
  /\ UNCHANGED <<made, registry, objectVars, leaseVars, cur, new, todo>>

\* Mutant of CallRestart: the generation is incremented by restart() and by create().
CallRestartTwice(t) == Restarts(t, 2, "get")

\* Mutant of CallRestart: the generation is not incremented.
CallRestartSame(t) == Restarts(t, 0, "get")

\* Mutant of CallRestart: restart() does not stop the instance.
CallRestartAlone(t) == Restarts(t, 1, "reserve")

\* restart() reads the generation, stops the instance, and creates its successor.
CallRestart(t) == Restarts(t, 1, "get")

\* close() walks over the instances registered now.
CallClose(t) ==
  /\ pc[t] = "idle"
  /\ todo' = [todo EXCEPT ![t] = {registry[x] : x \in Ident} \ {0}]
  /\ then' = [then EXCEPT ![t] = "next"]
  /\ Goto(t, "next")
  /\ UNCHANGED <<made, registry, objectVars, leaseVars, ident, cur, new, nextGen>>

\* The next instance of close(): skipped when stopped, else stop(i.id).
NextToClose(t) ==
  /\ pc[t] = "next"
  /\ \/ todo[t] = {} /\ Leave(t)
     \/ \E h \in todo[t] :
          /\ todo' = [todo EXCEPT ![t] = @ \ {h}]
          /\ IF state[h] = "stopped"
             THEN UNCHANGED <<pc, ident>>
             ELSE ident' = [ident EXCEPT ![t] = id[h]] /\ Goto(t, "get")
          /\ UNCHANGED <<cur, new, nextGen, then>>
  /\ UNCHANGED <<made, registry, objectVars, leaseVars>>

Get(t) ==
  /\ pc[t] = "get"
  /\ cur' = [cur EXCEPT ![t] = registry[ident[t]]]
  /\ Goto(t, "disconnect")
  /\ UNCHANGED <<made, registry, objectVars, leaseVars, ident, new, nextGen, then, todo>>

Disconnect(t) ==
  /\ pc[t] = "disconnect"
  /\ mon' = [mon EXCEPT ![cur[t]] = IF @ = "open" THEN "closed" ELSE @]
  /\ Goto(t, "terminate")
  /\ UNCHANGED <<made, registry, id, gen, state, proc, hasPort, claim, leaseVars, localVars>>

\* Mutant of Terminate: stop() does not wait for the process.
TerminateUnwaited(t) ==
  /\ pc[t] = "terminate"
  /\ Goto(t, "release")
  /\ UNCHANGED <<made, registry, objectVars, leaseVars, localVars>>

\* poll(), then SIGTERM to a process that is running.
Terminate(t) ==
  /\ pc[t] = "terminate"
  /\ Goto(t, IF proc[cur[t]] = "alive" THEN "wait" ELSE "release")
  /\ UNCHANGED <<made, registry, objectVars, leaseVars, localVars>>

\* wait(), kill() and wait() again; the second wait may time out as well and its
\* TimeoutExpired leaves stop() and whatever called it.
Wait(t) ==
  /\ pc[t] = "wait"
  /\ \/ /\ proc' = [proc EXCEPT ![cur[t]] = "dead"]
        /\ Goto(t, "release")
        /\ UNCHANGED localVars
     \/ SlowKill /\ Leave(t) /\ UNCHANGED proc
  /\ UNCHANGED <<made, registry, id, gen, state, mon, hasPort, claim, leaseVars>>

\* Mutant of Release: the reservation is dropped, not released.
ReleaseForgotten(t) ==
  /\ pc[t] = "release"
  /\ hasPort' = [hasPort EXCEPT ![cur[t]] = FALSE]
  /\ Goto(t, "stopped")
  /\ UNCHANGED <<made, registry, id, gen, state, proc, mon, claim, leaseVars, localVars>>

\* Whether the instance has a reservation.
Release(t) ==
  /\ pc[t] = "release"
  /\ Goto(t, IF hasPort[cur[t]] THEN "give" ELSE "stopped")
  /\ UNCHANGED <<made, registry, objectVars, leaseVars, localVars>>

\* The allocator takes it back.  It is read again: when another stop() has cleared it,
\* release(None) raises AttributeError, which leaves stop() and whatever called it.
GiveBack(t) ==
  /\ pc[t] = "give"
  /\ IF hasPort[cur[t]]
     THEN /\ claim' = [claim EXCEPT ![cur[t]] = None]
          /\ Goto(t, "clear") /\ UNCHANGED localVars
     ELSE Leave(t) /\ UNCHANGED claim
  /\ UNCHANGED <<made, registry, id, gen, state, proc, mon, hasPort, leaseVars>>

Clear(t) ==
  /\ pc[t] = "clear"
  /\ hasPort' = [hasPort EXCEPT ![cur[t]] = FALSE]
  /\ Goto(t, "stopped")
  /\ UNCHANGED <<made, registry, id, gen, state, proc, mon, claim, leaseVars, localVars>>

Stopped(t) ==
  /\ pc[t] = "stopped"
  /\ state' = [state EXCEPT ![cur[t]] = "stopped"]
  /\ IF then[t] = "idle"
     THEN Leave(t)
     ELSE /\ Goto(t, IF then[t] = "restart" THEN "reserve" ELSE "next")
          /\ UNCHANGED localVars
  /\ UNCHANGED <<made, registry, id, gen, proc, mon, hasPort, claim, leaseVars>>

-----------------------------------------------------------------------------
(* lease(), release(), and VICE *)

Lease(x) ==
  /\ registry[x] # 0 /\ token[registry[x]] = None
  /\ \E k \in Token \ used :
       used' = used \cup {k} /\ token' = [token EXCEPT ![registry[x]] = k]
  /\ UNCHANGED <<made, registry, objectVars, pc, localVars>>

\* The holder of token k releases it; RuntimeError when it is not the lease's.
ReleaseLease(x, k) ==
  /\ registry[x] # 0 /\ token[registry[x]] = k
  /\ token' = [token EXCEPT ![registry[x]] = None]
  /\ UNCHANGED <<made, registry, objectVars, used, pc, localVars>>

Dies(h) ==
  /\ proc[h] = "alive"
  /\ proc' = [proc EXCEPT ![h] = "dead"]
  /\ UNCHANGED <<made, registry, id, gen, state, mon, hasPort, claim, leaseVars, pc,
                 localVars>>

-----------------------------------------------------------------------------

Create(t) ==
  \/ CallCreate(t) \/ Reserve(t) \/ Escapes(t) \/ Spawn(t) \/ Abandon(t) \/ Connect(t)
  \/ StopProbing(t) \/ Kill(t) \/ Register(t)

Stop(t) ==
  \/ CallStop(t) \/ CallRestart(t) \/ CallClose(t) \/ NextToClose(t) \/ Get(t)
  \/ Disconnect(t) \/ Terminate(t) \/ Wait(t) \/ Release(t) \/ GiveBack(t) \/ Clear(t)
  \/ Stopped(t)

Next ==
  \/ \E t \in Thread : Create(t) \/ Stop(t)
  \/ \E x \in Ident : Lease(x) \/ \E k \in Token : ReleaseLease(x, k)
  \/ \E h \in Object : Dies(h)

Spec == Init /\ [][Next]_vars

-----------------------------------------------------------------------------
(* Properties *)

\* A VICE process has its port leased for as long as it runs, through every
\* interleaving of stop, restart, close and failed starts.
PortLeasedWhileRunning == \A h \in Object : proc[h] = "alive" => claim[h] # None

\* "stopped" is said of an instance only when it is down for good: no process, no
\* monitor connection, no port.
StoppedIsDown ==
  \A h \in Object : state[h] = "stopped" =>
    proc[h] # "alive" /\ mon[h] # "open" /\ claim[h] = None

Registered(h) == \E x \in Ident : registry[x] = h
BeingMade(h) == \E t \in Thread : new[t] = h

\* Each running VICE is owned: registered, or the subject of a create() in progress.
\* Only then can close() or a restart reach it.
ProcessesOwned ==
  \A h \in Object : proc[h] = "alive" => Registered(h) \/ BeingMade(h)

\* A create() that raised half way, by an exception that it does not expect or with a
\* process that outlived SIGKILL, lost the reservation: nothing in the program has it.
Stranded(h) == state[h] = "starting" /\ ~BeingMade(h)

\* But for those, a port whose user is gone is not kept: the lease of a registered
\* instance can be released through it, and no instance is replaced while it has one.
ClaimsReachable ==
  \A h \in Object : claim[h] # None =>
    BeingMade(h) \/ (Registered(h) /\ hasPort[h]) \/ Stranded(h)

\* The generation of an id grows with every child exposed under it.
GenerationGrows ==
  [][\A x \in Ident : registry[x] # 0 /\ registry'[x] # registry[x]
       => gen[registry'[x]] > gen[registry[x]]]_vars

\* After close() has returned normally nothing it found registered is left running.
CloseStopsAll ==
  [][\A t \in Thread : pc[t] = "next" /\ pc'[t] = "idle"
       => \A x \in Ident : registry[x] # 0 => proc[registry[x]] # "alive"]_vars

-----------------------------------------------------------------------------
(* What callers must see to for the last four to hold: the lock does not. *)

\* No two calls in progress are about the same id; a close() is about one id after the other.
About(t) == pc[t] \notin {"idle", "next"}
Separate == \A s, t \in Thread : s # t /\ About(s) /\ About(t) => ident[s] # ident[t]

\* No create() and no restart() is in progress during a close().
Quiet == \A s, t \in Thread : then[t] = "next" => nextGen[s] = 0
=============================================================================
