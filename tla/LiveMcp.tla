------------------------------ MODULE LiveMcp ------------------------------
(***************************************************************************)
(* Requests of MCP clients against supervised instances: McpServer.handle  *)
(* (server.py), SupervisorResolver and SupervisorTransport (live_mcp.py),  *)
(* invoke (operations.py) and BinaryMonitorTransport                       *)
(* (transport_runtime.py), composed with the Supervisor they share.        *)
(*                                                                         *)
(* A request is admitted in one turn of the event loop and handed to a     *)
(* worker thread in the next.  The worker looks the instance up again,     *)
(* makes one monitor call or several and may write the instance's state;   *)
(* meanwhile the event loop may answer TIMEOUT, and the supervisor's       *)
(* callers may stop, restart and re-lease the instance.                    *)
(***************************************************************************)
EXTENDS Supervisor

CONSTANTS
  Request,  \* requests the clients send, each once
  MaxCalls  \* bound: monitor calls of an operation

\* internal is JSON-RPC's -32603, refused an error with a code that rules an effect out.
Reply == {"ok", "internal", "refused", "CANCELLED", "TIMEOUT"}

ASSUME LiveMcpConstants == None \notin Request \cup Reply /\ MaxCalls \in Nat \ {0}

VARIABLES
  initialized,  \* of the server
  phase,        \* per request: where the handler is
  op, target,   \* per request: the operation, once dispatched, and the instance named
  cancelled,    \* per request: its cancel event is set
  worker,       \* per request: where the worker thread is
  held,         \* per request: the object the worker thread has looked up
  calls,        \* per request: commands its operation consists of
  asked, done,  \* per request: those sent, those carried out
  reply,        \* per request: the answer
  effectMay     \* per request: effect_may_have_occurred of an error envelope

answerVars == <<phase, reply, effectMay>>
workVars == <<worker, held, asked, done>>
requestVars == <<initialized, answerVars, op, target, cancelled, workVars, calls>>
supervisorVars == <<made, registry, objectVars, leaseVars, pc, localVars>>
liveVars == <<vars, requestVars>>

\* The operations by what they do: read observes; run and step, which stands for pause too,
\* write Instance.state as a plain str; change stands for those that alter the machine and
\* not that field.  Those of the IEC trace do not call the monitor: capture starts or stops
\* one, events reads.
Operation == {"read", "run", "step", "change", "capture", "events"}
OfTrace == {"capture", "events"}

\* As the catalogue says; it says so of reading events as well, which consumes them.
Mutating(o) == o \notin {"read", "events"}

\* step.instruction and keyboard.matrix repeat their command, registers.set sends several;
\* keyboard.matrix takes a count of frames below 1 as well, and then sends nothing.
CallsOf(o) ==
  CASE o = "change" -> 0 .. MaxCalls
    [] o \in {"step", "read"} -> 1 .. MaxCalls
    [] OTHER -> {1}

\* Mutant of Written: the lifecycle name of a machine held in its monitor is written.
WrittenLifecycle == [run |-> "str_running", step |-> "monitor-active"]

Written == [run |-> "str_running", step |-> "str_paused"]
PlainStates == {"str_running", "str_paused"}

Target == [id : Ident, gen : 1 .. MaxObject, token : Token \cup {None}]

LiveTypeOK ==
  /\ state \in [Object -> {"none", "starting", "running", "failed", "stopped"} \cup PlainStates]
  /\ initialized \in BOOLEAN
  /\ phase \in [Request -> {"idle", "dispatched", "executing", "observing", "answered"}]
  /\ op \in [Request -> Operation \cup {None}]
  /\ target \in [Request -> Target \cup {None}]
  /\ cancelled \in [Request -> BOOLEAN]
  /\ worker \in [Request -> {"none", "submitted", "fetched", "calling", "writing",
                             "returned", "raised", "refused", "timedout"}]
  /\ held \in [Request -> 0 .. MaxObject]
  /\ calls \in [Request -> 0 .. MaxCalls] /\ asked \in [Request -> 0 .. MaxCalls]
  /\ \A r \in Request : done[r] \in 0 .. asked[r] /\ asked[r] <= calls[r]
  /\ reply \in [Request -> Reply \cup {None}]
  /\ effectMay \in [Request -> BOOLEAN]

LiveInit ==
  /\ Init /\ initialized = FALSE
  /\ phase = [r \in Request |-> "idle"] /\ op = [r \in Request |-> None]
  /\ target = [r \in Request |-> None] /\ cancelled = [r \in Request |-> FALSE]
  /\ worker = [r \in Request |-> "none"] /\ held = [r \in Request |-> 0]
  /\ calls = [r \in Request |-> 0] /\ asked = [r \in Request |-> 0]
  /\ done = [r \in Request |-> 0] /\ reply = [r \in Request |-> None]
  /\ effectMay = [r \in Request |-> FALSE]

Answer(r, answer, may) ==
  /\ phase' = [phase EXCEPT ![r] = "answered"]
  /\ reply' = [reply EXCEPT ![r] = answer]
  /\ effectMay' = [effectMay EXCEPT ![r] = may]

Proceed(r, to) == phase' = [phase EXCEPT ![r] = to] /\ UNCHANGED <<reply, effectMay>>

-----------------------------------------------------------------------------
(* The event loop *)

\* initialize, or notifications/initialized.
Initialize ==
  /\ ~initialized /\ initialized' = TRUE
  /\ UNCHANGED <<supervisorVars, answerVars, op, target, cancelled, workVars, calls>>

\* The server is not initialized, or the message is not a valid call of a tool.
Refuse(r) ==
  /\ phase[r] = "idle"
  /\ Answer(r, "refused", FALSE)
  /\ UNCHANGED <<supervisorVars, initialized, op, target, cancelled, workVars, calls>>

\* The target names a registered instance, its generation and its lease token.
Addresses(g) ==
  /\ registry[g.id] # 0
  /\ g.gen = gen[registry[g.id]] /\ g.token = token[registry[g.id]]

\* resolve() returns an McpInstance.  The three checks of Addresses raise KeyError
\* and ValueError; item.state.value raises AttributeError when the state is a str.
Resolves(g) == Addresses(g) /\ state[registry[g.id]] \notin PlainStates

\* handle() up to transport.execute().  A FAILED instance keeps the default
\* capabilities, none of which names an operation of the catalogue; such an instance
\* has no monitor.
Handle(r) ==
  /\ phase[r] = "idle" /\ initialized
  /\ \E g \in Target :
       /\ g.token \in used \cup {None} /\ g.gen <= made
       /\ target' = [target EXCEPT ![r] = g]
       /\ \/ ~Resolves(g) /\ Answer(r, "internal", FALSE) /\ UNCHANGED <<op, calls>>
          \/ /\ Resolves(g) /\ mon[registry[g.id]] = "none"
             /\ Answer(r, "refused", FALSE) /\ UNCHANGED <<op, calls>>
          \/ /\ Resolves(g) /\ mon[registry[g.id]] # "none"
             /\ Proceed(r, "dispatched")
             /\ \E o \in Operation : \E n \in CallsOf(o) :
                  op' = [op EXCEPT ![r] = o] /\ calls' = [calls EXCEPT ![r] = n]
  /\ UNCHANGED <<supervisorVars, initialized, cancelled, workVars>>

InProgress(r) == phase[r] \in {"dispatched", "executing", "observing"}

\* notifications/cancelled for a request in progress.
Cancel(r) ==
  /\ InProgress(r) /\ ~cancelled[r]
  /\ cancelled' = [cancelled EXCEPT ![r] = TRUE]
  /\ UNCHANGED <<supervisorVars, initialized, answerVars, op, target, workVars, calls>>

\* execute() of the transport, a task of its own, starts the worker thread.
Submit(r) ==
  /\ phase[r] = "dispatched"
  /\ \/ cancelled[r] /\ Answer(r, "internal", FALSE) /\ UNCHANGED worker
     \/ /\ ~cancelled[r] /\ Proceed(r, "executing")
        /\ worker' = [worker EXCEPT ![r] = "submitted"]
  /\ UNCHANGED <<supervisorVars, initialized, op, target, cancelled, held, asked, done, calls>>

\* The RuntimeErrors of a capture are errors with a code, any other exception but a
\* TimeoutError, be it the socket's or that of wait_for, is an internal error.
Fails(r) ==
  \/ worker[r] = "refused" /\ Answer(r, "refused", FALSE)
  \/ worker[r] = "raised" /\ Answer(r, "internal", FALSE)
  \/ worker[r] = "timedout" /\ Answer(r, "TIMEOUT", Mutating(op[r]))

\* transport.execute() has returned, or raised.
Executed(r) ==
  /\ phase[r] = "executing"
  /\ \/ Fails(r)
     \/ worker[r] = "returned" /\ cancelled[r] /\ Answer(r, "CANCELLED", Mutating(op[r]))
     \/ worker[r] = "returned" /\ ~cancelled[r] /\ Proceed(r, "observing")
  /\ UNCHANGED <<supervisorVars, initialized, op, target, cancelled, workVars, calls>>

\* observe_effect() has sent its progress notification, or could not send it.
Observed(r) ==
  /\ phase[r] = "observing"
  /\ \/ Answer(r, "internal", FALSE)
     \/ cancelled[r] /\ Answer(r, "CANCELLED", Mutating(op[r]))
     \/ ~cancelled[r] /\ Answer(r, "ok", FALSE)
  /\ UNCHANGED <<supervisorVars, initialized, op, target, cancelled, workVars, calls>>

TimesOut(r, may) ==
  /\ InProgress(r) /\ Answer(r, "TIMEOUT", may)
  /\ UNCHANGED <<supervisorVars, initialized, op, target, cancelled, workVars, calls>>

\* Mutant of Timeout: TIMEOUT does not say that an effect may have occurred.
TimeoutUnwarned(r) == TimesOut(r, FALSE)

\* Mutant of Timeout: the deadline waits for the worker thread.
TimeoutJoining(r) ==
  worker[r] \in {"returned", "raised", "refused", "timedout"} /\ TimesOut(r, Mutating(op[r]))

\* The deadline passes; the worker thread goes on.
Timeout(r) == TimesOut(r, Mutating(op[r]))

-----------------------------------------------------------------------------
(* The worker thread, and VICE *)

Goes(r, to) ==
  /\ worker' = [worker EXCEPT ![r] = to]
  /\ UNCHANGED <<initialized, answerVars, op, target, cancelled, calls>>

\* The next command of the operation; after the last one it writes the state, or returns.
NextStage(r) ==
  IF asked[r] < calls[r] THEN "fetched"
  ELSE IF op[r] \in DOMAIN Written THEN "writing" ELSE "returned"

\* supervisor.get() and i.monitor.  No monitor, an operation of the catalogue that execute()
\* does not know, and arguments it cannot convert raise.
Fetch(r) ==
  /\ worker[r] = "submitted"
  /\ held' = [held EXCEPT ![r] = registry[target[r].id]]
  /\ (mon[held'[r]] # "none" /\ Goes(r, NextStage(r))) \/ Goes(r, "raised")
  /\ UNCHANGED <<supervisorVars, asked, done>>

\* An operation of the IEC trace: done, or refused in the state its capture is in.
Trace(r) ==
  /\ worker[r] = "fetched" /\ op[r] \in OfTrace
  /\ \/ /\ Goes(r, "returned")
        /\ asked' = [asked EXCEPT ![r] = 1] /\ done' = [done EXCEPT ![r] = 1]
     \/ Goes(r, "refused") /\ UNCHANGED <<asked, done>>
  /\ UNCHANGED <<supervisorVars, held>>

\* The next command, on a connection that stop() may have closed.
Transmit(r) ==
  /\ worker[r] = "fetched" /\ op[r] \notin OfTrace
  /\ \/ /\ mon[held[r]] = "open" /\ Goes(r, "calling")
        /\ asked' = [asked EXCEPT ![r] = @ + 1]
     \/ mon[held[r]] # "open" /\ Goes(r, "raised") /\ UNCHANGED asked
  /\ UNCHANGED <<supervisorVars, held, done>>

\* VICE carries out the command, even one whose caller has stopped waiting.
Perform(r) ==
  /\ done[r] < asked[r] /\ proc[held[r]] = "alive"
  /\ done' = [done EXCEPT ![r] = @ + 1]
  /\ UNCHANGED <<supervisorVars, initialized, answerVars, op, target, cancelled, worker, held,
                 asked, calls>>

CallEndsWhen(r, answered) ==
  /\ worker[r] = "calling"
  /\ (answered /\ Goes(r, NextStage(r))) \/ Goes(r, "raised") \/ Goes(r, "timedout")
  /\ UNCHANGED <<supervisorVars, held, asked, done>>

\* Mutant of CallEnds: the response is not waited for.
CallEndsUnanswered(r) == CallEndsWhen(r, TRUE)

\* The response is read, the connection is lost, or VICE does not answer in time.
CallEnds(r) == CallEndsWhen(r, done[r] = asked[r])

\* i.state = "running" or "paused", whatever has become of the instance.
WriteState(r) ==
  /\ worker[r] = "writing"
  /\ state' = [state EXCEPT ![held[r]] = Written[op[r]]]
  /\ Goes(r, "returned")
  /\ UNCHANGED <<made, registry, id, gen, proc, mon, hasPort, claim, leaseVars, pc, localVars,
                 held, asked, done>>

-----------------------------------------------------------------------------

LoopStep(r) ==
  \/ Refuse(r) \/ Handle(r) \/ Cancel(r) \/ Submit(r) \/ Executed(r) \/ Observed(r) \/ Timeout(r)
WorkerStep(r) ==
  Fetch(r) \/ Trace(r) \/ Transmit(r) \/ Perform(r) \/ CallEnds(r) \/ WriteState(r)

LiveNext ==
  \/ Next /\ UNCHANGED requestVars
  \/ Initialize
  \/ \E r \in Request : LoopStep(r) \/ WorkerStep(r)

LiveSpec == LiveInit /\ [][LiveNext]_liveVars

\* The event loop's timer fires.
FairLiveSpec == LiveSpec /\ \A r \in Request : WF_liveVars(Timeout(r))

-----------------------------------------------------------------------------
(* Properties *)

\* An answer that rules an effect out is never followed or preceded by one: TIMEOUT
\* and CANCELLED warn of the effect of a mutating operation however the worker thread,
\* VICE and the event loop interleave, and a refused operation is never performed.
EffectNotHidden ==
  \A r \in Request :
    done[r] > 0 /\ Mutating(op[r]) /\ reply[r] \notin {None, "ok", "internal"} => effectMay[r]

\* "ok" is said of an operation VICE has carried out to its last command, on the instance
\* the request names or a later generation of it, and once the worker thread is through.
OkWasPerformed ==
  \A r \in Request : reply[r] = "ok" =>
    /\ done[r] = calls[r] /\ worker[r] = "returned"
    /\ id[held[r]] = target[r].id /\ gen[held[r]] >= target[r].gen

\* A request that names a live instance by its generation and token is not refused.
AddressedIsAdmitted ==
  [][\A r \in Request : phase[r] = "idle" /\ phase'[r] # "idle" /\ target'[r] # None
       => (Addresses(target'[r]) => reply'[r] # "internal")]_liveVars

\* What the catalogue calls mutating and a lease admitted is carried out only while that
\* lease stands, and the instance is of the generation it was resolved to.
MutationsLeased ==
  [][\A r \in Request : done'[r] > done[r] /\ Mutating(op[r]) /\ target[r].token # None
       => Addresses(target[r])]_liveVars

\* Every admitted request is answered.
RequestsAnswered ==
  \A r \in Request : phase[r] = "dispatched" ~> phase[r] = "answered"
=============================================================================
