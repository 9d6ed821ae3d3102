--------------------------- MODULE LiveMcpProofs ---------------------------
(* Proofs about LiveMcp, for any set of requests, callers, instances and ports. *)
EXTENDS LiveMcp, SupervisorProofs, TLAPS

-----------------------------------------------------------------------------
(* The inductive invariant speaks of one request at a time: *)

\* its fields have their domains;
RequestFields ==
  /\ phase \in [Request -> {"idle", "dispatched", "executing", "observing", "answered"}]
  /\ worker \in [Request -> {"none", "submitted", "fetched", "calling", "writing",
                             "returned", "raised", "refused", "timedout"}]
  /\ reply \in [Request -> Reply \cup {None}]
  /\ effectMay \in [Request -> BOOLEAN] /\ cancelled \in [Request -> BOOLEAN]
  /\ asked \in [Request -> Nat] /\ done \in [Request -> Nat]
  /\ calls \in [Request -> Nat] /\ DOMAIN op = Request

\* until it is answered it has no reply, until it is submitted no worker thread;
Located(r) ==
  /\ phase[r] # "answered" => reply[r] = None
  /\ phase[r] \in {"idle", "dispatched"} => worker[r] = "none"
  /\ phase[r] = "observing" => worker[r] = "returned"

\* VICE carries out what it is asked, no more than the operation consists of is asked,
\* and nothing before the worker thread has
\* fetched the instance, nor by an operation that is refused;
Bounded(r) ==
  /\ done[r] <= asked[r] /\ asked[r] <= calls[r]
  /\ worker[r] \in {"none", "submitted", "refused"} => asked[r] = 0
  /\ worker[r] = "fetched" /\ op[r] \in OfTrace => asked[r] = 0

\* the worker thread comes to an end without an error after the last command only;
Complete(r) ==
  /\ phase[r] = "dispatched" \/ worker[r] # "none" => calls[r] \in CallsOf(op[r])
  /\ worker[r] = "fetched" => asked[r] < calls[r]
  /\ worker[r] = "calling" => asked[r] <= calls[r]
  /\ worker[r] \in {"writing", "returned"} => done[r] = asked[r] /\ asked[r] = calls[r]

\* and the answer fits what may have been done.
Truthful(r) ==
  /\ reply[r] \in {"TIMEOUT", "CANCELLED"} => effectMay[r] = Mutating(op[r])
  /\ reply[r] = "refused" => worker[r] \in {"none", "refused"}
  /\ reply[r] = "ok" => worker[r] = "returned"

Consistent(r) == Located(r) /\ Bounded(r) /\ Complete(r) /\ Truthful(r)

LiveInductive == RequestFields /\ \A r \in Request : Consistent(r)

-----------------------------------------------------------------------------

LoopVars(r) == <<phase[r], reply[r], effectMay[r], op[r], calls[r], cancelled[r]>>
WorkVars(r) == <<worker[r], asked[r], done[r]>>

\* What has been said of a request holds for as long as its fields do not change.
LEMMA RequestFrame ==
  ASSUME NEW s \in Request, Consistent(s), LoopVars(s)' = LoopVars(s), WorkVars(s)' = WorkVars(s)
  PROVE  Consistent(s)'
  BY DEF Consistent, Located, Bounded, Complete, Truthful, LoopVars, WorkVars, CallsOf, Mutating

\* The calls of an operation are counted, and those of an operation on the trace are one.
LEMMA CallsCounted == ASSUME NEW o PROVE CallsOf(o) \subseteq Nat /\ (o \in OfTrace => CallsOf(o) = {1})
  BY LiveMcpConstants DEF CallsOf, OfTrace

\* An answer that fits what has been done keeps the invariant.
LEMMA Answering ==
  ASSUME LiveInductive, NEW r \in Request, NEW answer \in Reply, NEW may \in BOOLEAN,
         Answer(r, answer, may), UNCHANGED <<op, cancelled, workVars, calls>>,
         phase[r] # "dispatched" \/ worker[r] = "none",
         answer \in {"TIMEOUT", "CANCELLED"} => may = Mutating(op[r]),
         answer = "refused" => worker[r] \in {"none", "refused"},
         answer = "ok" => worker[r] = "returned"
  PROVE  LiveInductive'
<1>0. RequestFields /\ Consistent(r)
  BY DEF LiveInductive
<1>1. RequestFields'
  BY <1>0 DEF Answer, RequestFields, workVars
<1>2. phase'[r] = "answered" /\ reply'[r] = answer /\ effectMay'[r] = may
  BY <1>0 DEF Answer, RequestFields
<1>3. Located(r)' /\ Bounded(r)'
  BY <1>0, <1>2 DEF Consistent, Located, Bounded, workVars
<1>4. Complete(r)'
  BY <1>0, <1>2 DEF Consistent, Complete, CallsOf, workVars
<1>5. Truthful(r)'
  BY <1>2 DEF Truthful, Mutating, workVars
<1>6. ASSUME NEW s \in Request \ {r} PROVE Consistent(s)'
  BY <1>0, <1>6, RequestFrame DEF Answer, LiveInductive, RequestFields, LoopVars, WorkVars, workVars
<1> QED BY <1>1, <1>3, <1>4, <1>5, <1>6 DEF LiveInductive, Consistent

\* A step of the event loop keeps the invariant.
LEMMA LoopKeeps ==
  ASSUME LiveInductive, NEW r \in Request, LoopStep(r) PROVE LiveInductive'
<1> USE DEF LiveInductive
<1>0. RequestFields /\ Consistent(r)
  OBVIOUS
<1>1. CASE Refuse(r)
  BY <1>0, <1>1, Answering DEF Refuse, Consistent, Located, Reply
<1>2. CASE Handle(r)
  <2>1. CASE phase'[r] = "answered"
    <3>1. PICK answer \in {"internal", "refused"} :
            Answer(r, answer, FALSE) /\ UNCHANGED <<op, calls, cancelled, workVars>> /\ phase[r] = "idle"
      BY <1>0, <1>2, <2>1 DEF Handle, Proceed, RequestFields
    <3> QED BY <1>0, <3>1, Answering DEF Consistent, Located, Reply
  <2>2. CASE phase'[r] # "answered"
    <3>1. PICK o, n :
            /\ o \in Operation /\ n \in CallsOf(o)
            /\ op' = [op EXCEPT ![r] = o] /\ calls' = [calls EXCEPT ![r] = n]
            /\ phase' = [phase EXCEPT ![r] = "dispatched"] /\ phase[r] = "idle"
            /\ UNCHANGED <<reply, effectMay, cancelled, workVars>>
      BY <1>0, <1>2, <2>2 DEF Handle, Answer, Proceed, RequestFields
    <3>2. RequestFields'
      BY <1>0, <3>1, CallsCounted DEF RequestFields, workVars
    <3>3. /\ phase'[r] = "dispatched" /\ op'[r] = o /\ calls'[r] = n
          /\ worker[r] = "none" /\ reply[r] = None /\ asked[r] = 0 /\ n \in Nat
      BY <1>0, <3>1, CallsCounted DEF RequestFields, Consistent, Located, Bounded
    <3>4. Located(r)' /\ Bounded(r)'
      BY <1>0, <3>1, <3>3 DEF Consistent, Located, Bounded, workVars
    <3>5. Complete(r)'
      BY <3>1, <3>3 DEF Complete, workVars, CallsOf
    <3>6. Truthful(r)'
      BY <3>1, <3>3, LiveMcpConstants DEF Truthful, Reply
    <3>7. ASSUME NEW s \in Request \ {r} PROVE Consistent(s)'
      BY <1>0, <3>1, <3>7, RequestFrame DEF RequestFields, workVars, LoopVars, WorkVars
    <3> QED BY <3>2, <3>4, <3>5, <3>6, <3>7 DEF Consistent
  <2> QED BY <2>1, <2>2
<1>3. CASE Cancel(r)
  <2>1. RequestFields'
    BY <1>0, <1>3 DEF Cancel, RequestFields, answerVars, workVars
  <2>2. ASSUME NEW s \in Request PROVE Consistent(s)'
    BY <1>3 DEF Cancel, answerVars, workVars, Consistent, Located, Bounded, Complete, Truthful, CallsOf, Mutating
  <2> QED BY <2>1, <2>2
<1>4. CASE Submit(r)
  <2>1. CASE cancelled[r]
    <3>1. phase[r] = "dispatched" /\ worker[r] = "none"
      BY <1>0, <1>4 DEF Submit, Consistent, Located
    <3> QED BY <1>4, <2>1, <3>1, Answering DEF Submit, Reply, workVars
  <2>2. CASE ~cancelled[r]
    <3>1. /\ phase[r] = "dispatched" /\ phase' = [phase EXCEPT ![r] = "executing"]
          /\ worker' = [worker EXCEPT ![r] = "submitted"]
          /\ UNCHANGED <<reply, effectMay, op, cancelled, asked, done, calls>>
      BY <1>4, <2>2 DEF Submit, Proceed
    <3>2. reply[r] = None /\ worker[r] = "none"
      BY <1>0, <3>1 DEF Consistent, Located
    <3>3. RequestFields'
      BY <1>0, <3>1 DEF RequestFields
    <3>4. phase'[r] = "executing" /\ worker'[r] = "submitted"
      BY <1>0, <3>1 DEF RequestFields
    <3>5. Located(r)' /\ Bounded(r)'
      BY <1>0, <3>1, <3>2, <3>4 DEF Consistent, Located, Bounded
    <3>6. Complete(r)'
      BY <1>0, <3>1, <3>4 DEF Consistent, Complete, CallsOf
    <3>7. Truthful(r)'
      BY <3>1, <3>2, LiveMcpConstants DEF Truthful, Reply
    <3>8. ASSUME NEW s \in Request \ {r} PROVE Consistent(s)'
      BY <1>0, <3>1, <3>8, RequestFrame DEF RequestFields, LoopVars, WorkVars
    <3> QED BY <3>3, <3>5, <3>6, <3>7, <3>8 DEF Consistent
  <2> QED BY <2>1, <2>2
<1>m. Mutating(op[r]) \in BOOLEAN
  BY DEF Mutating
<1>5. CASE Executed(r)
  <2>1. phase[r] = "executing" /\ UNCHANGED <<op, cancelled, workVars, calls>>
    BY <1>5 DEF Executed
  <2>2. CASE Fails(r) \/ Answer(r, "CANCELLED", Mutating(op[r]))
    BY <1>m, <2>1, <2>2, Answering DEF Fails, Reply
  <2>3. CASE worker[r] = "returned" /\ Proceed(r, "observing")
    <3>1. RequestFields' /\ phase'[r] = "observing"
      BY <1>0, <2>1, <2>3 DEF Proceed, RequestFields, workVars
    <3>2. Located(r)'
      BY <1>0, <2>1, <2>3, <3>1 DEF Proceed, Consistent, Located, workVars
    <3>3. Bounded(r)' /\ Complete(r)' /\ Truthful(r)'
      BY <1>0, <2>1, <2>3, <3>1 DEF Proceed, Consistent, Bounded, Complete, Truthful, CallsOf, Mutating,
        workVars
    <3>4. ASSUME NEW s \in Request \ {r} PROVE Consistent(s)'
      BY <1>0, <2>1, <2>3, <3>4, RequestFrame DEF Proceed, RequestFields, LoopVars, WorkVars, workVars
    <3> QED BY <3>1, <3>2, <3>3, <3>4 DEF Consistent
  <2> QED BY <1>5, <2>2, <2>3 DEF Executed
<1>6. CASE Observed(r)
  <2>1. phase[r] = "observing" /\ worker[r] = "returned" /\ UNCHANGED <<op, cancelled, workVars, calls>>
    BY <1>0, <1>6 DEF Observed, Consistent, Located
  <2> QED BY <1>6, <1>m, <2>1, Answering DEF Observed, Reply
<1>7. CASE Timeout(r)
  <2>1. phase[r] # "dispatched" \/ worker[r] = "none"
    BY <1>0 DEF Consistent, Located
  <2> QED BY <1>7, <1>m, <2>1, Answering DEF Timeout, TimesOut, Reply
<1> QED BY <1>1, <1>2, <1>3, <1>4, <1>5, <1>6, <1>7 DEF LoopStep

\* So does a step of the worker thread or of VICE.
LEMMA WorkerKeeps ==
  ASSUME LiveInductive, NEW r \in Request, WorkerStep(r) PROVE LiveInductive'
<1> USE DEF LiveInductive
<1>0. RequestFields /\ Consistent(r) /\ CallsOf(op[r]) \subseteq Nat /\ (op[r] \in OfTrace => CallsOf(op[r]) = {1})
  BY CallsCounted
<1>a. UNCHANGED <<answerVars, op, cancelled, calls>>
  BY DEF WorkerStep, Fetch, Trace, Transmit, Perform, CallEnds, CallEndsWhen, WriteState, Goes
<1>b. ASSUME NEW s \in Request \ {r}, WorkVars(s)' = WorkVars(s) PROVE Consistent(s)'
  BY <1>a, <1>b, RequestFrame DEF LoopVars, answerVars
<1>1. CASE Fetch(r)
  <2>1. RequestFields' /\ Consistent(r)'
    BY <1>0, <1>1, <1>a DEF Fetch, NextStage, Goes, RequestFields, Consistent, Located, Bounded, Complete,
      Truthful, answerVars
  <2>2. ASSUME NEW s \in Request \ {r} PROVE WorkVars(s)' = WorkVars(s)
    BY <1>0, <1>1, <2>2 DEF Fetch, Goes, RequestFields, WorkVars
  <2> QED BY <2>1, <2>2, <1>b
<1>2. CASE Trace(r)
  <2>1. RequestFields' /\ Consistent(r)'
    BY <1>0, <1>2, <1>a DEF Trace, Goes, RequestFields, Consistent, Located, Bounded, Complete, Truthful, answerVars
  <2>2. ASSUME NEW s \in Request \ {r} PROVE WorkVars(s)' = WorkVars(s)
    BY <1>0, <1>2, <2>2 DEF Trace, Goes, RequestFields, WorkVars
  <2> QED BY <2>1, <2>2, <1>b
<1>3. CASE Transmit(r)
  <2>1. RequestFields' /\ Consistent(r)'
    BY <1>0, <1>3, <1>a DEF Transmit, Goes, RequestFields, Consistent, Located, Bounded, Complete, Truthful, answerVars
  <2>2. ASSUME NEW s \in Request \ {r} PROVE WorkVars(s)' = WorkVars(s)
    BY <1>0, <1>3, <2>2 DEF Transmit, Goes, RequestFields, WorkVars
  <2> QED BY <2>1, <2>2, <1>b
<1>4. CASE Perform(r)
  <2>1. RequestFields' /\ Consistent(r)'
    BY <1>0, <1>4, <1>a DEF Perform, RequestFields, Consistent, Located, Bounded, Complete, Truthful, answerVars
  <2>2. ASSUME NEW s \in Request \ {r} PROVE WorkVars(s)' = WorkVars(s)
    BY <1>0, <1>4, <2>2 DEF Perform, RequestFields, WorkVars
  <2> QED BY <2>1, <2>2, <1>b
<1>5. CASE CallEnds(r)
  <2>1. RequestFields' /\ Consistent(r)'
    BY <1>0, <1>5, <1>a DEF CallEnds, CallEndsWhen, NextStage, Goes, RequestFields, Consistent, Located, Bounded, Complete,
      Truthful, answerVars
  <2>2. ASSUME NEW s \in Request \ {r} PROVE WorkVars(s)' = WorkVars(s)
    BY <1>0, <1>5, <2>2 DEF CallEnds, CallEndsWhen, Goes, RequestFields, WorkVars
  <2> QED BY <2>1, <2>2, <1>b
<1>6. CASE WriteState(r)
  <2>1. RequestFields' /\ Consistent(r)'
    BY <1>0, <1>6, <1>a DEF WriteState, Goes, RequestFields, Consistent, Located, Bounded, Complete, Truthful, answerVars
  <2>2. ASSUME NEW s \in Request \ {r} PROVE WorkVars(s)' = WorkVars(s)
    BY <1>0, <1>6, <2>2 DEF WriteState, Goes, RequestFields, WorkVars
  <2> QED BY <2>1, <2>2, <1>b
<1> QED BY <1>1, <1>2, <1>3, <1>4, <1>5, <1>6 DEF WorkerStep

\* A step that leaves the requests alone.
LEMMA RestKeeps ==
  ASSUME LiveInductive, UNCHANGED requestVars \/ Initialize PROVE LiveInductive'
<1>1. UNCHANGED <<answerVars, op, cancelled, workVars, calls>>
  BY DEF requestVars, Initialize
<1>2. RequestFields'
  BY <1>1 DEF LiveInductive, RequestFields, answerVars, workVars
<1>3. ASSUME NEW s \in Request PROVE Consistent(s)'
  BY <1>1, RequestFrame DEF LiveInductive, LoopVars, WorkVars, answerVars, workVars
<1> QED BY <1>2, <1>3 DEF LiveInductive

-----------------------------------------------------------------------------

\* The invariant holds of every request at every moment, whatever the supervisor's callers,
\* VICE and the other requests do.
THEOREM LiveInvariance == LiveSpec => []LiveInductive
<1>1. LiveInit => LiveInductive
  <2> SUFFICES ASSUME LiveInit PROVE LiveInductive
    OBVIOUS
  <2>1. RequestFields
    BY DEF LiveInit, RequestFields
  <2>2. ASSUME NEW r \in Request PROVE Consistent(r)
    <3>1. phase[r] = "idle" /\ worker[r] = "none" /\ reply[r] = None /\ done[r] = 0 /\ asked[r] = 0
          /\ calls[r] = 0
      BY <2>2 DEF LiveInit
    <3>2. Located(r) /\ Bounded(r) /\ Complete(r)
      BY <3>1 DEF Located, Bounded, Complete
    <3>3. Truthful(r)
      BY <3>1, LiveMcpConstants DEF Truthful, Reply
    <3> QED BY <3>2, <3>3 DEF Consistent
  <2> QED BY <2>1, <2>2 DEF LiveInductive
<1>2. LiveInductive /\ [LiveNext]_liveVars => LiveInductive'
  <2> SUFFICES ASSUME LiveInductive, [LiveNext]_liveVars PROVE LiveInductive'
    OBVIOUS
  <2>1. CASE UNCHANGED liveVars
    BY <2>1, RestKeeps DEF liveVars
  <2>2. CASE LiveNext
    BY <2>2, RestKeeps, LoopKeeps, WorkerKeeps DEF LiveNext
  <2> QED BY <2>1, <2>2
<1> QED BY <1>1, <1>2, PTL DEF LiveSpec

\* TIMEOUT and CANCELLED warn of the effect of a mutating operation however the worker
\* thread, VICE and the event loop interleave, and a refused operation is never performed.
THEOREM EffectsTold == LiveSpec => []EffectNotHidden
<1>1. LiveInductive => EffectNotHidden
  BY DEF LiveInductive, RequestFields, Consistent, Bounded, Truthful, EffectNotHidden, Reply
<1> QED BY <1>1, LiveInvariance, PTL

\* "ok" is said once VICE has carried out every command of the operation and the worker
\* thread is through.
THEOREM OkIsComplete == LiveSpec => [](\A r \in Request : reply[r] = "ok" => done[r] = calls[r] /\ worker[r] = "returned")
<1>1. LiveInductive => \A r \in Request : reply[r] = "ok" => done[r] = calls[r] /\ worker[r] = "returned"
  BY DEF LiveInductive, RequestFields, Consistent, Complete, Truthful
<1> QED BY <1>1, LiveInvariance, PTL

-----------------------------------------------------------------------------
(* The requests and the supervisor.  A request is about what its id was registered with when
   it was dispatched, and nothing that has been registered is unregistered: *)

AddressFields ==
  /\ initialized \in BOOLEAN
  /\ op \in [Request -> Operation \cup {None}] /\ target \in [Request -> Target \cup {None}]
  /\ held \in [Request -> 0 .. MaxObject] /\ calls \in [Request -> 0 .. MaxCalls]

\* its id names an object for good, and the worker thread holds one that was made for it.
Resolved(r) ==
  /\ phase[r] = "dispatched" \/ worker[r] # "none" =>
       op[r] \in Operation /\ target[r] \in Target /\ registry[target[r].id] # 0
  /\ worker[r] = "writing" => op[r] \in DOMAIN Written
  /\ worker[r] \notin {"none", "submitted"} =>
       held[r] \in 1 .. made /\ id[held[r]] = target[r].id /\ state[held[r]] # "starting"

Addressed == SupervisorInductive /\ AddressFields /\ \A r \in Request : Resolved(r)

\* What the supervisor does to the objects: the made ones keep their id and their generation,
\* none of them starts again, and an id that is registered stays so.
Onward ==
  /\ made <= made'
  /\ \A x \in Ident : registry[x] # 0 => registry'[x] # 0
  /\ \A h \in 1 .. made :
       id'[h] = id[h] /\ gen'[h] = gen[h] /\ (state[h] # "starting" => state'[h] # "starting")

LEMMA SupervisorOnward == ASSUME SupervisorInductive, Next PROVE Onward
<1>0. Fields /\ Calls /\ made \in Nat /\ \A h \in 1 .. made : h \in Object
  BY MadeAreObjects DEF SupervisorInductive
<1>1. ASSUME NEW t \in Thread, Reserve(t) PROVE Onward
  <2>1. /\ registry' = registry
        /\ \/ UNCHANGED <<made, id, gen, state>>
           \/ /\ made' = made + 1 /\ id' = [id EXCEPT ![made + 1] = ident[t]]
              /\ gen' = [gen EXCEPT ![made + 1] = nextGen[t]]
              /\ state' = [state EXCEPT ![made + 1] = "starting"]
    BY <1>1 DEF Reserve
  <2>2. ASSUME NEW h \in 1 .. made PROVE id'[h] = id[h] /\ gen'[h] = gen[h] /\ state'[h] = state[h]
    <3>1. h \in Object /\ h # made + 1
      BY <1>0
    <3> QED BY <1>0, <2>1, <3>1 DEF Fields
  <2> QED BY <1>0, <2>1, <2>2 DEF Onward
<1>2. ASSUME NEW t \in Thread, Abandon(t) \/ Register(t) PROVE Onward
  <2>1. Maker(t) /\ pc[t] \in Making
    BY <1>0, <1>2 DEF Calls, Local, Abandon, Register, Making
  <2>2. UNCHANGED <<made, id, gen>> /\ registry' = [registry EXCEPT ![ident[t]] = new[t]]
    BY <1>2 DEF Abandon, Register
  <2>3. \E v \in {"failed", "running"} : state' = [state EXCEPT ![new[t]] = v]
    BY <1>2 DEF Abandon, Register
  <2>4. new[t] # 0 /\ made \in Nat
    BY <1>0, <2>1 DEF Maker, Fields
  <2>5. \A x \in Ident : registry[x] # 0 => registry'[x] # 0
    BY <1>0, <2>2, <2>4 DEF Fields
  <2>6. \A h \in Object : state[h] # "starting" => state'[h] # "starting"
    BY <1>0, <2>3 DEF Fields
  <2> QED BY <1>0, <2>2, <2>4, <2>5, <2>6 DEF Onward
<1>3. ASSUME NEW t \in Thread, Stopped(t) PROVE Onward
  <2>1. UNCHANGED <<made, id, gen, registry>> /\ state' = [state EXCEPT ![cur[t]] = "stopped"]
    BY <1>3 DEF Stopped
  <2>2. \A h \in Object : state[h] # "starting" => state'[h] # "starting"
    BY <1>0, <2>1 DEF Fields
  <2> QED BY <1>0, <2>1, <2>2 DEF Onward
<1>4. CASE UNCHANGED <<made, id, gen, registry, state>>
  BY <1>0, <1>4 DEF Onward, Fields
<1>5. CASE ~\E t \in Thread : Reserve(t) \/ Abandon(t) \/ Register(t) \/ Stopped(t)
  <2>1. UNCHANGED <<made, id, gen, registry, state>>
    BY <1>5 DEF Next, objectVars, Create, Stop, CallCreate, Escapes, Spawn, Connect, StopProbing, Kill, CallStop,
      CallRestart, Restarts, CallClose, NextToClose, Get, Disconnect, Terminate, Wait, Release, GiveBack,
      Clear, Lease, ReleaseLease, Dies
  <2> QED BY <2>1, <1>4
<1> QED BY <1>1, <1>2, <1>3, <1>5

\* A worker thread writes the state of an object that is not being made.
LEMMA WriteKeeps ==
  ASSUME SupervisorInductive, NEW h \in 1 .. made, state[h] # "starting", NEW v \in PlainStates,
         state' = [state EXCEPT ![h] = v],
         UNCHANGED <<made, registry, id, gen, proc, mon, hasPort, claim, leaseVars, pc, localVars>>
  PROVE  SupervisorInductive' /\ Onward
<1> USE DEF leaseVars, localVars, Object, PlainStates
<1>0. Fields /\ Calls /\ Objects /\ Entries
  BY DEF SupervisorInductive
<1>1. h \in Object /\ v \notin {"none", "starting", "stopped"}
  BY MadeAreObjects
<1>2. Fields'
  BY <1>0, <1>1 DEF Fields
<1>3. ASSUME NEW i \in Object PROVE state'[i] = IF i = h THEN v ELSE state[i]
  BY <1>0, <1>3 DEF Fields
<1>4. ASSUME NEW t \in Thread PROVE Local(t)'
  <2>0. Local(t)
    BY <1>0 DEF Calls
  <2>1. Maker(t)'
    <3>1. pc[t] \in Making => new[t] \in Object /\ new[t] # h
      BY <1>0, <2>0 DEF Local, Maker, Fields
    <3> QED BY <1>3, <2>0, <3>1 DEF Local, Maker
  <2>2. Stopper(t)'
    <3>1. pc[t] \in Stopping => cur[t] \in Object
      BY <1>0, <2>0 DEF Local, Stopper, Fields
    <3> QED BY <1>1, <1>3, <2>0, <3>1 DEF Local, Stopper
  <2>3. Caller(t)' /\ Fresh(t)' /\ Walker(t)'
    BY <2>0 DEF Local, Caller, Fresh, Walker
  <2> QED BY <2>1, <2>2, <2>3 DEF Local
<1>5. ASSUME NEW i \in Object PROVE Sound(i)'
  <2>1. Sound(i) /\ (i = h => ~(i > made))
    BY <1>0 DEF Objects, Fields
  <2> QED BY <1>1, <1>3, <2>1 DEF Sound
<1>6. ASSUME NEW x \in Ident PROVE Entry(x)'
  <2>1. Entry(x) /\ (registry[x] # 0 => registry[x] \in Object)
    BY <1>0 DEF Entries, Fields
  <2> QED BY <1>1, <1>3, <2>1 DEF Entry
<1>7. Distinct' /\ Room'
  BY DEF SupervisorInductive, Distinct, Room, Pending
<1>8. Onward
  BY <1>0, <1>1, <1>3 DEF Onward, Fields
<1> QED BY <1>2, <1>4, <1>5, <1>6, <1>7, <1>8 DEF SupervisorInductive, Calls, Objects, Entries

\* Nothing becomes of the supervisor.
LEMMA SupervisorRests ==
  ASSUME SupervisorInductive, UNCHANGED supervisorVars PROVE SupervisorInductive' /\ Onward
<1>1. SupervisorInductive'
  BY LeaseKeeps DEF supervisorVars
<1>2. Onward
  BY DEF supervisorVars, objectVars, SupervisorInductive, Fields, Onward
<1> QED BY <1>1, <1>2

\* What has been said of a request stays true whatever the supervisor does, and as the worker
\* thread goes on with the object it holds.
LEMMA ResolvedFrame ==
  ASSUME SupervisorInductive, SupervisorInductive', Onward, AddressFields, NEW s \in Request, Resolved(s),
         phase'[s] = "dispatched" => phase[s] = "dispatched",
         op'[s] = op[s], target'[s] = target[s], held'[s] = held[s],
         \/ worker'[s] = worker[s]
         \/ /\ worker[s] \notin {"none", "submitted"} /\ worker'[s] \notin {"none", "submitted"}
            /\ worker'[s] = "writing" => op[s] \in DOMAIN Written
  PROVE  Resolved(s)'
<1>1. phase'[s] = "dispatched" \/ worker'[s] # "none" =>
        op'[s] \in Operation /\ target'[s] \in Target /\ registry'[target'[s].id] # 0
  BY DEF Resolved, Onward, Target
<1>2. worker'[s] = "writing" => op'[s] \in DOMAIN Written
  BY DEF Resolved
<1>3. ASSUME worker'[s] \notin {"none", "submitted"}
      PROVE  held'[s] \in 1 .. made' /\ id'[held'[s]] = target'[s].id /\ state'[held'[s]] # "starting"
  <2>1. held[s] \in 1 .. made /\ id[held[s]] = target[s].id /\ state[held[s]] # "starting"
    BY <1>3 DEF Resolved
  <2>2. made \in Nat /\ made' \in Int /\ made <= made'
    BY MadeAreObjects DEF Onward, SupervisorInductive, Fields
  <2> QED BY <2>1, <2>2 DEF Onward
<1> QED BY <1>1, <1>2, <1>3 DEF Resolved

\* A step of the event loop keeps a request addressed.
LEMMA LoopAddresses ==
  ASSUME LiveInductive, Addressed, NEW r \in Request, LoopStep(r) PROVE Addressed'
<1>0. RequestFields /\ Consistent(r) /\ AddressFields /\ SupervisorInductive
      /\ \A s \in Request : Resolved(s)
  BY DEF LiveInductive, Addressed
<1>1. UNCHANGED <<supervisorVars, held>>
  BY DEF LoopStep, Refuse, Handle, Cancel, Submit, Executed, Observed, Timeout, TimesOut, workVars
<1>2. SupervisorInductive' /\ Onward /\ made' = made
  BY <1>0, <1>1, SupervisorRests DEF supervisorVars
<1>3. CASE Handle(r)
  <2>1. /\ phase[r] = "idle" /\ worker' = worker
        /\ \E g \in Target : target' = [target EXCEPT ![r] = g]
        /\ phase' = [phase EXCEPT ![r] = "answered"] \/ phase' = [phase EXCEPT ![r] = "dispatched"]
    BY <1>3 DEF Handle, Answer, Proceed, workVars
  <2>2. \/ UNCHANGED <<op, calls>> /\ phase' = [phase EXCEPT ![r] = "answered"]
        \/ \E o, n : /\ o \in Operation /\ n \in CallsOf(o) /\ op' = [op EXCEPT ![r] = o]
                     /\ calls' = [calls EXCEPT ![r] = n] /\ Resolves(target'[r])
    BY <1>0, <1>3 DEF Handle, Answer, Proceed, AddressFields
  <2>3. ASSUME NEW o, NEW n \in CallsOf(o) PROVE n \in 0 .. MaxCalls
    BY LiveMcpConstants DEF CallsOf
  <2>4. AddressFields'
    BY <1>0, <1>1, <1>3, <2>1, <2>2, <2>3 DEF AddressFields, Handle
  <2>5. worker'[r] = "none"
    BY <1>0, <2>1 DEF Consistent, Located
  <2>6. Resolved(r)'
    <3>1. CASE phase'[r] = "dispatched"
      <4>1. op'[r] \in Operation /\ target'[r] \in Target /\ registry[target'[r].id] # 0
        BY <1>0, <2>1, <2>2, <3>1 DEF AddressFields, RequestFields, Resolves, Addresses
      <4> QED BY <1>1, <2>5, <4>1 DEF Resolved, supervisorVars
    <3>2. CASE phase'[r] # "dispatched"
      BY <2>5, <3>2 DEF Resolved
    <3> QED BY <3>1, <3>2
  <2>7. ASSUME NEW s \in Request \ {r} PROVE Resolved(s)'
    <3>1. phase'[s] = phase[s] /\ worker'[s] = worker[s] /\ op'[s] = op[s] /\ target'[s] = target[s]
          /\ held'[s] = held[s]
      BY <1>0, <1>1, <2>1, <2>2, <2>7 DEF AddressFields, RequestFields
    <3> QED BY <1>0, <1>2, <3>1, ResolvedFrame
  <2> QED BY <1>2, <2>4, <2>6, <2>7 DEF Addressed
<1>4. CASE Submit(r) /\ ~cancelled[r]
  <2>1. /\ phase[r] = "dispatched" /\ phase' = [phase EXCEPT ![r] = "executing"]
        /\ worker' = [worker EXCEPT ![r] = "submitted"]
        /\ UNCHANGED <<initialized, op, target, held, calls>>
    BY <1>4 DEF Submit, Proceed
  <2>2. AddressFields'
    BY <1>0, <2>1 DEF AddressFields
  <2>3. worker'[r] = "submitted" /\ registry' = registry
    BY <1>0, <1>1, <2>1 DEF RequestFields, supervisorVars
  <2>4. Resolved(r)'
    BY <1>0, <2>1, <2>3 DEF Resolved
  <2>5. ASSUME NEW s \in Request \ {r} PROVE Resolved(s)'
    <3>1. phase'[s] = phase[s] /\ worker'[s] = worker[s]
      BY <1>0, <2>1, <2>5 DEF RequestFields
    <3> QED BY <1>0, <1>2, <2>1, <3>1, ResolvedFrame
  <2> QED BY <1>2, <2>2, <2>4, <2>5 DEF Addressed
<1>5. CASE ~Handle(r) /\ ~(Submit(r) /\ ~cancelled[r])
  <2>1. UNCHANGED <<initialized, op, target, held, calls, worker>>
    BY <1>5 DEF LoopStep, Refuse, Cancel, Submit, Executed, Observed, Timeout, TimesOut, workVars
  <2>2. phase' = phase \/ \E to \in {"answered", "observing"} : phase' = [phase EXCEPT ![r] = to]
    BY <1>5 DEF LoopStep, Refuse, Cancel, Submit, Executed, Observed, Timeout, TimesOut, Fails, Answer,
      Proceed, answerVars
  <2>3. AddressFields'
    BY <1>0, <2>1 DEF AddressFields
  <2>4. ASSUME NEW s \in Request PROVE Resolved(s)'
    <3>1. phase'[s] = "dispatched" => phase[s] = "dispatched"
      BY <1>0, <2>2 DEF RequestFields
    <3> QED BY <1>0, <1>2, <2>1, <3>1, ResolvedFrame
  <2> QED BY <1>2, <2>3, <2>4 DEF Addressed
<1> QED BY <1>3, <1>4, <1>5

\* So does a step of the worker thread or of VICE.
LEMMA WorkerAddresses ==
  ASSUME LiveInductive, Addressed, NEW r \in Request, WorkerStep(r) PROVE Addressed' /\ Onward
<1>0. RequestFields /\ Consistent(r) /\ AddressFields /\ SupervisorInductive
      /\ \A s \in Request : Resolved(s)
  BY DEF LiveInductive, Addressed
<1>1. UNCHANGED <<initialized, phase, op, target, calls>>
  BY DEF WorkerStep, Fetch, Trace, Transmit, Perform, CallEnds, CallEndsWhen, WriteState, Goes, answerVars
<1>2. SupervisorInductive' /\ Onward
  <2>1. CASE WriteState(r)
    <3>1. worker[r] = "writing" /\ op[r] \in DOMAIN Written
      BY <1>0, <2>1 DEF WriteState, Resolved
    <3>2. held[r] \in 1 .. made /\ state[held[r]] # "starting"
      BY <1>0, <3>1 DEF Resolved
    <3>3. Written[op[r]] \in PlainStates
      BY <3>1 DEF Written, PlainStates
    <3> QED BY <1>0, <2>1, <3>2, <3>3, WriteKeeps DEF WriteState
  <2>2. CASE ~WriteState(r)
    BY <1>0, <2>2, SupervisorRests DEF WorkerStep, Fetch, Trace, Transmit, Perform, CallEnds, CallEndsWhen
  <2> QED BY <2>1, <2>2
<1>3. CASE Fetch(r)
  <2>1. /\ worker[r] = "submitted" /\ held' = [held EXCEPT ![r] = registry[target[r].id]]
        /\ worker' = [worker EXCEPT ![r] = NextStage(r)] \/ worker' = [worker EXCEPT ![r] = "raised"]
        /\ UNCHANGED <<made, registry, id, state>>
    BY <1>3 DEF Fetch, Goes, supervisorVars, objectVars
  <2>2. target[r] \in Target /\ registry[target[r].id] # 0 /\ op[r] \in Operation
    BY <1>0, <2>1 DEF Resolved
  <2>3. target[r].id \in Ident /\ registry[target[r].id] \in 1 .. made
    BY <1>0, <2>2 DEF Target, SupervisorInductive, Fields, Entries, Entry
  <2>4. /\ held'[r] = registry[target[r].id] /\ worker'[r] \in {NextStage(r), "raised"}
        /\ NextStage(r) = "writing" => op[r] \in DOMAIN Written
    BY <1>0, <2>1 DEF AddressFields, RequestFields, NextStage
  <2>5. AddressFields'
    <3>1. registry[target[r].id] \in 0 .. MaxObject
      BY <1>0, <2>3 DEF SupervisorInductive, Fields
    <3> QED BY <1>0, <1>1, <2>1, <3>1 DEF AddressFields
  <2>6. Resolved(r)'
    <3>1. Entry(target[r].id)
      BY <1>0, <2>3 DEF SupervisorInductive, Entries
    <3> QED BY <1>1, <2>1, <2>2, <2>3, <2>4, <3>1 DEF Resolved, Entry
  <2>7. ASSUME NEW s \in Request \ {r} PROVE Resolved(s)'
    <3>1. worker'[s] = worker[s] /\ held'[s] = held[s]
      BY <1>0, <2>1, <2>7 DEF AddressFields, RequestFields
    <3> QED BY <1>0, <1>1, <1>2, <3>1, ResolvedFrame
  <2> QED BY <1>2, <2>5, <2>6, <2>7 DEF Addressed
<1>4. CASE ~Fetch(r)
  <2>1. UNCHANGED held
    BY <1>4 DEF WorkerStep, Trace, Transmit, Perform, CallEnds, CallEndsWhen, WriteState
  <2>2. \/ worker' = worker
        \/ /\ worker[r] \notin {"none", "submitted"}
           /\ \E to : /\ worker' = [worker EXCEPT ![r] = to] /\ to \notin {"none", "submitted"}
                      /\ to = "writing" => op[r] \in DOMAIN Written
    <3>1. CASE Perform(r)
      BY <3>1 DEF Perform
    <3>2. CASE CallEnds(r)
      BY <3>2 DEF CallEnds, CallEndsWhen, Goes, NextStage
    <3>3. CASE Trace(r) \/ Transmit(r) \/ WriteState(r)
      BY <3>3 DEF Trace, Transmit, WriteState, Goes
    <3> QED BY <1>4, <3>1, <3>2, <3>3 DEF WorkerStep
  <2>3. AddressFields'
    BY <1>0, <1>1, <2>1 DEF AddressFields
  <2>4. ASSUME NEW s \in Request PROVE Resolved(s)'
    <3>1. \/ worker'[s] = worker[s]
          \/ /\ worker[s] \notin {"none", "submitted"} /\ worker'[s] \notin {"none", "submitted"}
             /\ worker'[s] = "writing" => op[s] \in DOMAIN Written
      BY <1>0, <2>2 DEF RequestFields
    <3> QED BY <1>0, <1>1, <1>2, <2>1, <3>1, ResolvedFrame
  <2> QED BY <1>2, <2>3, <2>4 DEF Addressed
<1> QED BY <1>2, <1>3, <1>4

\* And so does whatever the requests have no part in.
LEMMA RestAddresses ==
  ASSUME Addressed, (Next /\ UNCHANGED requestVars) \/ Initialize \/ UNCHANGED liveVars
  PROVE  Addressed' /\ Onward
<1>0. AddressFields /\ SupervisorInductive /\ \A s \in Request : Resolved(s)
  BY DEF Addressed
<1>1. UNCHANGED <<phase, op, target, worker, held, calls>> /\ initialized' \in {initialized, TRUE}
  BY DEF requestVars, Initialize, liveVars, answerVars, workVars
<1>2. SupervisorInductive' /\ Onward
  <2>1. CASE Next
    BY <1>0, <2>1, SupervisorKeeps, SupervisorOnward
  <2>2. CASE Initialize \/ UNCHANGED liveVars
    BY <1>0, <2>2, SupervisorRests DEF Initialize, liveVars, vars, supervisorVars
  <2> QED BY <2>1, <2>2
<1>3. AddressFields'
  BY <1>0, <1>1 DEF AddressFields
<1>4. ASSUME NEW s \in Request PROVE Resolved(s)'
  BY <1>0, <1>1, <1>2, ResolvedFrame
<1> QED BY <1>2, <1>3, <1>4 DEF Addressed

\* Nothing but the state names of objects that are not being made is written by requests, so
\* that every request is about an instance that was registered under its id.
THEOREM AddressedInvariance == LiveSpec => []Addressed
<1>1. LiveInit => Addressed
  <2> SUFFICES ASSUME LiveInit PROVE Addressed
    OBVIOUS
  <2>1. SupervisorInductive
    BY SupervisorBegins DEF LiveInit
  <2>2. AddressFields
    <3>1. 0 \in 0 .. MaxObject /\ 0 \in 0 .. MaxCalls
      BY SupervisorConstants, LiveMcpConstants
    <3> QED BY <3>1 DEF LiveInit, AddressFields
  <2>3. ASSUME NEW r \in Request PROVE Resolved(r)
    BY <2>3 DEF LiveInit, Resolved
  <2> QED BY <2>1, <2>2, <2>3 DEF Addressed
<1>2. LiveInductive /\ Addressed /\ [LiveNext]_liveVars => Addressed'
  <2> SUFFICES ASSUME LiveInductive, Addressed, [LiveNext]_liveVars PROVE Addressed'
    OBVIOUS
  <2>1. CASE UNCHANGED liveVars
    BY <2>1, RestAddresses
  <2>2. CASE LiveNext
    BY <2>2, RestAddresses, LoopAddresses, WorkerAddresses DEF LiveNext
  <2> QED BY <2>1, <2>2
<1> QED BY <1>1, <1>2, LiveInvariance, PTL DEF LiveSpec

\* Every variable of the requests keeps its type, and so does the field of the instances that
\* worker threads write; VICE is never asked for more than the operation consists of.
THEOREM LiveTyping == LiveSpec => []LiveTypeOK
<1>1. LiveInductive /\ Addressed => LiveTypeOK
  <2> SUFFICES ASSUME LiveInductive, Addressed PROVE LiveTypeOK
    OBVIOUS
  <2>1. RequestFields /\ AddressFields /\ Fields
    BY DEF LiveInductive, Addressed, SupervisorInductive
  <2>2. ASSUME NEW r \in Request PROVE done[r] \in 0 .. asked[r] /\ asked[r] <= calls[r]
    BY <2>1 DEF LiveInductive, Consistent, Bounded, RequestFields
  <2>3. ASSUME NEW r \in Request PROVE asked[r] \in 0 .. MaxCalls
    BY <2>1, <2>2, LiveMcpConstants DEF AddressFields, RequestFields
  <2>4. asked \in [Request -> 0 .. MaxCalls]
    BY <2>1, <2>3 DEF RequestFields
  <2>5. state \in [Object -> {"none", "starting", "running", "failed", "stopped"} \cup PlainStates]
    BY <2>1 DEF Fields, PlainStates
  <2> QED BY <2>1, <2>2, <2>4, <2>5 DEF RequestFields, AddressFields, LiveTypeOK
<1> QED BY <1>1, LiveInvariance, AddressedInvariance, PTL

\* Worker threads that write the state of instances take no port from a VICE that runs,
\* whichever calls of the supervisor overlap.
THEOREM LivePortsLeased == LiveSpec => []PortLeasedWhileRunning
<1>1. Addressed => PortLeasedWhileRunning
  BY DEF Addressed, SupervisorInductive, Objects, Sound, PortLeasedWhileRunning
<1> QED BY <1>1, AddressedInvariance, PTL

\* Nor do they bring up again what is called stopped.
THEOREM LiveStoppedStaysDown == LiveSpec => []StoppedIsDown
<1>1. Addressed => StoppedIsDown
  BY DEF Addressed, SupervisorInductive, Objects, Sound, StoppedIsDown
<1> QED BY <1>1, AddressedInvariance, PTL

\* Requests in progress change nothing about the ports: the server too uses them as
\* PortAllocator lets it, and no two of its VICE processes have the same one.
THEOREM LivePortsApart == LiveSpec => Ports!Spec /\ []Unshared
<1>1. LiveInit => Ports!Init /\ Unshared
  BY DEF LiveInit, Init, Leased, Ports!Init, Unshared
<1>2. Addressed /\ [LiveNext]_liveVars => Takes \/ GivesBack \/ claim' = claim
  <2> SUFFICES ASSUME Addressed, [LiveNext]_liveVars PROVE Takes \/ GivesBack \/ claim' = claim
    OBVIOUS
  <2>1. Next => Takes \/ GivesBack \/ claim' = claim
    BY ClaimStep DEF Addressed
  <2>2. LiveNext /\ ~Next => claim' = claim
    BY DEF LiveNext, Initialize, LoopStep, Refuse, Handle, Cancel, Submit, Executed, Observed,
      Timeout, TimesOut, WorkerStep, Fetch, Trace, Transmit, Perform, CallEnds, CallEndsWhen,
      WriteState, supervisorVars, vars, objectVars
  <2>3. UNCHANGED liveVars => claim' = claim
    BY DEF liveVars, supervisorVars, vars, objectVars
  <2> QED BY <2>1, <2>2, <2>3
<1>3. Addressed /\ (Takes \/ GivesBack \/ claim' = claim) => [Ports!Next]_Leased
  BY LeasedStep DEF Addressed
<1>4. Addressed /\ Unshared /\ (Takes \/ GivesBack \/ claim' = claim) => Unshared'
  BY UnsharedKept DEF Addressed
<1> QED BY <1>1, <1>2, <1>3, <1>4, AddressedInvariance, PTL DEF LiveSpec, Ports!Spec

\* What a request asks of VICE, however it is answered or if it never is, it asks of an
\* instance of the id it names, even after a restart.
THEOREM PerformedOnTarget ==
  LiveSpec => [](\A r \in Request : asked[r] > 0 => held[r] \in Object /\ id[held[r]] = target[r].id)
<1>1. LiveInductive /\ Addressed
        => \A r \in Request : asked[r] > 0 => held[r] \in Object /\ id[held[r]] = target[r].id
  <2> SUFFICES ASSUME LiveInductive, Addressed, NEW r \in Request, asked[r] > 0
               PROVE  held[r] \in Object /\ id[held[r]] = target[r].id
    OBVIOUS
  <2>1. worker[r] \notin {"none", "submitted"}
    BY DEF LiveInductive, Consistent, Bounded
  <2>2. held[r] \in 1 .. made /\ id[held[r]] = target[r].id
    BY <2>1 DEF Addressed, Resolved
  <2> QED BY <2>2, MadeAreObjects DEF Addressed, SupervisorInductive
<1> QED BY <1>1, LiveInvariance, AddressedInvariance, PTL

-----------------------------------------------------------------------------
(* The requests, and calls of the supervisor that do not overlap *)

\* A request is about the generation it names, or a later one.
Followed(r) ==
  /\ phase[r] = "dispatched" \/ worker[r] # "none" =>
       gen[registry[target[r].id]] >= target[r].gen
  /\ worker[r] \notin {"none", "submitted"} => gen[held[r]] >= target[r].gen

LiveSeparate == SeparateInductive /\ \A r \in Request : Followed(r)

\* What has been said stays true as ids get later generations and the worker thread goes on.
LEMMA FollowedFrame ==
  ASSUME SupervisorInductive, SupervisorInductive', Onward, GenerationsRise,
         NEW s \in Request, Resolved(s), Followed(s),
         phase'[s] = "dispatched" => phase[s] = "dispatched",
         target'[s] = target[s], held'[s] = held[s],
         \/ worker'[s] = worker[s]
         \/ worker[s] \notin {"none", "submitted"} /\ worker'[s] \notin {"none", "submitted"}
  PROVE  Followed(s)'
<1>0. Fields /\ Fields'
  BY DEF SupervisorInductive
<1>1. ASSUME phase'[s] = "dispatched" \/ worker'[s] # "none"
      PROVE  gen'[registry'[target[s].id]] >= target[s].gen
  <2>1. /\ target[s].id \in Ident /\ target[s].gen \in Int /\ registry[target[s].id] # 0
        /\ gen[registry[target[s].id]] >= target[s].gen
    BY <1>1 DEF Resolved, Followed, Target
  <2>2. registry[target[s].id] \in Object /\ registry'[target[s].id] \in Object
    BY <1>0, <2>1 DEF Fields, Onward, Object
  <2>3. gen'[registry[target[s].id]] \in Int /\ gen'[registry'[target[s].id]] \in Int
    BY <1>0, <2>2 DEF Fields
  <2>4. /\ gen'[registry[target[s].id]] = gen[registry[target[s].id]]
        /\ \/ registry'[target[s].id] = registry[target[s].id]
           \/ gen'[registry'[target[s].id]] > gen'[registry[target[s].id]]
    BY <2>1 DEF GenerationsRise
  <2> QED BY <2>1, <2>3, <2>4
<1>2. ASSUME worker'[s] \notin {"none", "submitted"} PROVE gen'[held[s]] >= target[s].gen
  <2>1. held[s] \in 1 .. made /\ gen[held[s]] >= target[s].gen
    BY <1>2 DEF Resolved, Followed
  <2> QED BY <2>1 DEF Onward
<1> QED BY <1>1, <1>2 DEF Followed

\* Ids and generations that do not change are as good.
LEMMA RestRises == ASSUME UNCHANGED <<registry, gen>> PROVE GenerationsRise
  BY DEF GenerationsRise

\* A step of the event loop: a request is admitted to the generation it names.
LEMMA LoopFollows ==
  ASSUME LiveInductive, Addressed, SupervisorInductive', LiveSeparate, NEW r \in Request, LoopStep(r)
  PROVE  LiveSeparate'
<1>0. RequestFields /\ Consistent(r) /\ AddressFields /\ SupervisorInductive /\ SeparateInductive
      /\ \A s \in Request : Resolved(s) /\ Followed(s)
  BY DEF LiveInductive, Addressed, LiveSeparate
<1>1. UNCHANGED <<supervisorVars, held>>
  BY DEF LoopStep, Refuse, Handle, Cancel, Submit, Executed, Observed, Timeout, TimesOut, workVars
<1>2. Onward /\ GenerationsRise /\ SeparateInductive'
  BY <1>0, <1>1, SupervisorRests, RestRises, LeaseOwns DEF supervisorVars, objectVars, Starting
<1>3. CASE Handle(r)
  <2>1. /\ phase[r] = "idle" /\ worker' = worker
        /\ \E g \in Target : target' = [target EXCEPT ![r] = g]
        /\ \/ phase' = [phase EXCEPT ![r] = "answered"]
           \/ phase' = [phase EXCEPT ![r] = "dispatched"] /\ Resolves(target'[r])
    BY <1>0, <1>3 DEF Handle, Answer, Proceed, workVars, AddressFields
  <2>2. worker'[r] = "none"
    BY <1>0, <2>1 DEF Consistent, Located
  <2>3. Followed(r)'
    <3>1. CASE phase'[r] = "dispatched"
      <4>1. target'[r] \in Target /\ Resolves(target'[r])
        BY <1>0, <2>1, <3>1 DEF AddressFields, RequestFields
      <4>2. target'[r].gen \in Int /\ target'[r].gen = gen[registry[target'[r].id]]
        BY <4>1 DEF Target, Resolves, Addresses
      <4> QED BY <1>1, <2>2, <4>2 DEF Followed, supervisorVars, objectVars
    <3>2. CASE phase'[r] # "dispatched"
      BY <2>2, <3>2 DEF Followed
    <3> QED BY <3>1, <3>2
  <2>4. ASSUME NEW s \in Request \ {r} PROVE Followed(s)'
    <3>1. phase'[s] = phase[s] /\ worker'[s] = worker[s] /\ target'[s] = target[s] /\ held'[s] = held[s]
      BY <1>0, <1>1, <2>1, <2>4 DEF AddressFields, RequestFields
    <3> QED BY <1>0, <1>2, <3>1, FollowedFrame
  <2> QED BY <1>2, <2>3, <2>4 DEF LiveSeparate
<1>4. CASE Submit(r) /\ ~cancelled[r]
  <2>1. /\ phase[r] = "dispatched" /\ phase' = [phase EXCEPT ![r] = "executing"]
        /\ worker' = [worker EXCEPT ![r] = "submitted"] /\ UNCHANGED <<target, held>>
    BY <1>4 DEF Submit, Proceed
  <2>2. Followed(r)'
    BY <1>0, <1>1, <2>1 DEF Followed, RequestFields, supervisorVars, objectVars
  <2>3. ASSUME NEW s \in Request \ {r} PROVE Followed(s)'
    <3>1. phase'[s] = phase[s] /\ worker'[s] = worker[s]
      BY <1>0, <2>1, <2>3 DEF RequestFields
    <3> QED BY <1>0, <1>2, <2>1, <3>1, FollowedFrame
  <2> QED BY <1>2, <2>2, <2>3 DEF LiveSeparate
<1>5. CASE ~Handle(r) /\ ~(Submit(r) /\ ~cancelled[r])
  <2>1. UNCHANGED <<target, held, worker>>
    BY <1>5 DEF LoopStep, Refuse, Cancel, Submit, Executed, Observed, Timeout, TimesOut, workVars
  <2>2. phase' = phase \/ \E to \in {"answered", "observing"} : phase' = [phase EXCEPT ![r] = to]
    BY <1>5 DEF LoopStep, Refuse, Cancel, Submit, Executed, Observed, Timeout, TimesOut, Fails, Answer,
      Proceed, answerVars
  <2>3. ASSUME NEW s \in Request PROVE Followed(s)'
    <3>1. phase'[s] = "dispatched" => phase[s] = "dispatched"
      BY <1>0, <2>2 DEF RequestFields
    <3> QED BY <1>0, <1>2, <2>1, <3>1, FollowedFrame
  <2> QED BY <1>2, <2>3 DEF LiveSeparate
<1> QED BY <1>3, <1>4, <1>5

\* A step of the worker thread, which looks up the generation registered now.
LEMMA WorkerFollows ==
  ASSUME LiveInductive, Addressed, SupervisorInductive', LiveSeparate, NEW r \in Request, WorkerStep(r)
  PROVE  LiveSeparate'
<1>0. RequestFields /\ AddressFields /\ SupervisorInductive /\ SeparateInductive
      /\ \A s \in Request : Resolved(s) /\ Followed(s)
  BY DEF LiveInductive, Addressed, LiveSeparate
<1>1. UNCHANGED <<phase, target, made, registry, id, gen, proc, mon, hasPort, claim, pc, localVars>>
  BY DEF WorkerStep, Fetch, Trace, Transmit, Perform, CallEnds, CallEndsWhen, WriteState, Goes, answerVars,
    supervisorVars, objectVars
<1>2. Onward /\ GenerationsRise /\ SeparateInductive'
  <2>1. ASSUME WriteState(r) PROVE Starting
    <3>1. worker[r] = "writing" /\ state' = [state EXCEPT ![held[r]] = Written[op[r]]]
      BY <2>1 DEF WriteState
    <3>2. state[held[r]] # "starting"
      BY <1>0, <3>1 DEF Resolved
    <3> QED BY <1>0, <3>1, <3>2 DEF Starting, SupervisorInductive, Fields
  <2>2. ASSUME ~WriteState(r) PROVE Starting
    BY <2>2 DEF WorkerStep, Fetch, Trace, Transmit, Perform, CallEnds, CallEndsWhen, supervisorVars,
      objectVars, Starting
  <2>3. Starting
    BY <2>1, <2>2
  <2> QED BY <1>0, <1>1, <2>3, WorkerAddresses, RestRises, LeaseOwns
<1>3. CASE Fetch(r)
  <2>1. /\ worker[r] = "submitted" /\ held' = [held EXCEPT ![r] = registry[target[r].id]]
        /\ worker' = [worker EXCEPT ![r] = NextStage(r)] \/ worker' = [worker EXCEPT ![r] = "raised"]
    BY <1>3 DEF Fetch, Goes
  <2>2. Followed(r)'
    BY <1>0, <1>1, <2>1 DEF Followed, AddressFields, RequestFields
  <2>3. ASSUME NEW s \in Request \ {r} PROVE Followed(s)'
    <3>1. worker'[s] = worker[s] /\ held'[s] = held[s]
      BY <1>0, <2>1, <2>3 DEF AddressFields, RequestFields
    <3> QED BY <1>0, <1>1, <1>2, <3>1, FollowedFrame
  <2> QED BY <1>2, <2>2, <2>3 DEF LiveSeparate
<1>4. CASE ~Fetch(r)
  <2>1. UNCHANGED held
    BY <1>4 DEF WorkerStep, Trace, Transmit, Perform, CallEnds, CallEndsWhen, WriteState
  <2>2. \/ worker' = worker
        \/ /\ worker[r] \notin {"none", "submitted"}
           /\ \E to : worker' = [worker EXCEPT ![r] = to] /\ to \notin {"none", "submitted"}
    BY <1>4 DEF WorkerStep, Perform, CallEnds, CallEndsWhen, NextStage, Trace, Transmit, WriteState, Goes
  <2>3. ASSUME NEW s \in Request PROVE Followed(s)'
    <3>1. \/ worker'[s] = worker[s]
          \/ worker[s] \notin {"none", "submitted"} /\ worker'[s] \notin {"none", "submitted"}
      BY <1>0, <2>2 DEF RequestFields
    <3> QED BY <1>0, <1>1, <1>2, <2>1, <3>1, FollowedFrame
  <2> QED BY <1>2, <2>3 DEF LiveSeparate
<1> QED BY <1>3, <1>4

\* A step the requests have no part in.
LEMMA RestFollows ==
  ASSUME Addressed, SupervisorInductive', LiveSeparate, Separate,
         (Next /\ UNCHANGED requestVars) \/ Initialize \/ UNCHANGED liveVars
  PROVE  LiveSeparate'
<1>0. SupervisorInductive /\ SeparateInductive /\ \A s \in Request : Resolved(s) /\ Followed(s)
  BY DEF Addressed, LiveSeparate
<1>1. UNCHANGED <<phase, target, worker, held>>
  BY DEF requestVars, Initialize, liveVars, answerVars, workVars
<1>2. Onward
  BY RestAddresses
<1>3. SeparateInductive' /\ GenerationsRise
  <2>1. CASE Next
    BY <1>0, <2>1, SeparateKeeps, Rising
  <2>2. CASE Initialize \/ UNCHANGED liveVars
    BY <1>0, <2>2, LeaseOwns, RestRises DEF Initialize, liveVars, vars, supervisorVars, objectVars, Starting
  <2> QED BY <2>1, <2>2
<1>4. ASSUME NEW s \in Request PROVE Followed(s)'
  BY <1>0, <1>1, <1>2, <1>3, FollowedFrame
<1> QED BY <1>3, <1>4 DEF LiveSeparate

\* Calls of the supervisor about different instances, and requests that run beside them: the
\* supervisor keeps its invariant, and a request the generation it names.
THEOREM LiveSeparateInvariance == LiveSpec /\ []Separate => []LiveSeparate
<1>1. LiveInit => LiveSeparate
  <2> SUFFICES ASSUME LiveInit PROVE LiveSeparate
    OBVIOUS
  <2>1. SeparateInductive
    BY SeparateInit DEF LiveInit
  <2>2. ASSUME NEW r \in Request PROVE Followed(r)
    BY <2>2 DEF LiveInit, Followed
  <2> QED BY <2>1, <2>2 DEF LiveSeparate
<1>2. LiveInductive /\ Addressed /\ Addressed' /\ Separate /\ LiveSeparate /\ [LiveNext]_liveVars
        => LiveSeparate'
  <2> SUFFICES ASSUME LiveInductive, Addressed, Addressed', Separate, LiveSeparate, [LiveNext]_liveVars
               PROVE  LiveSeparate'
    OBVIOUS
  <2>0. SupervisorInductive'
    BY DEF Addressed
  <2>1. CASE UNCHANGED liveVars
    BY <2>0, <2>1, RestFollows
  <2>2. CASE LiveNext
    BY <2>0, <2>2, RestFollows, LoopFollows, WorkerFollows DEF LiveNext
  <2> QED BY <2>1, <2>2
<1> QED BY <1>1, <1>2, LiveInvariance, AddressedInvariance, PTL DEF LiveSpec

\* "ok" is said of an operation VICE has carried out to its last command, on the instance the
\* request names or a later generation of it, and once the worker thread is through.
THEOREM OkPerformed == LiveSpec /\ []Separate => []OkWasPerformed
<1>1. LiveInductive /\ Addressed /\ LiveSeparate => OkWasPerformed
  <2> SUFFICES ASSUME LiveInductive, Addressed, LiveSeparate, NEW r \in Request, reply[r] = "ok"
               PROVE  /\ done[r] = calls[r] /\ worker[r] = "returned"
                      /\ id[held[r]] = target[r].id /\ gen[held[r]] >= target[r].gen
    BY DEF OkWasPerformed
  <2>1. Truthful(r) /\ Complete(r) /\ Resolved(r) /\ Followed(r)
    BY DEF LiveInductive, Consistent, Addressed, LiveSeparate
  <2> QED BY <2>1 DEF Truthful, Complete, Resolved, Followed
<1> QED BY <1>1, LiveInvariance, AddressedInvariance, LiveSeparateInvariance, PTL

\* Calls about different instances lose no VICE, whatever requests do beside them.
THEOREM LiveProcessesOwned == ASSUME ~SlowKill PROVE LiveSpec /\ []Separate => []ProcessesOwned
<1>1. LiveSeparate => ProcessesOwned
  BY DEF LiveSeparate, SeparateInductive, Reachable
<1> QED BY <1>1, LiveSeparateInvariance, PTL

\* Nor a port, but for those of the create() calls that raised half way.
THEOREM LiveClaimsReachable == LiveSpec /\ []Separate => []ClaimsReachable
<1>1. LiveSeparate => ClaimsReachable
  BY DEF LiveSeparate, SeparateInductive, Reachable
<1> QED BY <1>1, LiveSeparateInvariance, PTL

\* Beside requests too the generation of an id grows with every child exposed under it.
THEOREM LiveGenerationGrows == LiveSpec /\ []Separate => GenerationGrows
<1> DEFINE Grows == \A x \in Ident : registry[x] # 0 /\ registry'[x] # registry[x]
                      => gen[registry'[x]] > gen[registry[x]]
<1>1. Addressed /\ LiveSeparate /\ [LiveNext]_liveVars => [Grows]_vars
  <2> SUFFICES ASSUME Addressed, LiveSeparate, [LiveNext]_liveVars, NEW x \in Ident,
                      registry[x] # 0, registry'[x] # registry[x]
               PROVE  gen[registry'[x]] > gen[registry[x]]
    OBVIOUS
  <2>1. Next
    BY DEF LiveNext, liveVars, vars, Initialize, LoopStep, Refuse, Handle, Cancel, Submit, Executed, Observed,
      Timeout, TimesOut, WorkerStep, Fetch, Trace, Transmit, Perform, CallEnds, CallEndsWhen, WriteState,
      supervisorVars
  <2>2. GenerationsRise
    BY <2>1, Rising DEF Addressed, LiveSeparate
  <2>3. gen' = gen
    BY <2>1 DEF Next, objectVars, Create, Stop, CallCreate, Reserve, Escapes, Spawn, Abandon, Connect, StopProbing,
      Kill, Register, CallStop, CallRestart, Restarts, CallClose, NextToClose, Get, Disconnect, Terminate,
      Wait, Release, GiveBack, Clear, Stopped, Lease, ReleaseLease, Dies
  <2> QED BY <2>2, <2>3 DEF GenerationsRise
<1> QED BY <1>1, LiveSeparateInvariance, AddressedInvariance, PTL DEF LiveSpec, GenerationGrows

\* Nor do requests run or register anything behind a close().
THEOREM LiveQuietInvariance == LiveSpec /\ []Quiet => []Closers
<1>1. LiveInit => Closers
  BY DEF LiveInit, Init, Closers, Closing
<1>2. Addressed /\ Quiet /\ Closers /\ [LiveNext]_liveVars => Closers'
  <2> SUFFICES ASSUME Addressed, Quiet, Closers, [LiveNext]_liveVars PROVE Closers'
    OBVIOUS
  <2>1. CASE Next
    BY <2>1, QuietKeeps DEF Addressed
  <2>2. CASE UNCHANGED <<registry, proc, pc, localVars>>
    BY <2>2, RestCloses DEF Addressed
  <2>3. ASSUME ~Next PROVE UNCHANGED <<registry, proc, pc, localVars>>
    BY <2>3 DEF LiveNext, liveVars, vars, objectVars, Initialize, LoopStep, Refuse, Handle, Cancel, Submit,
      Executed, Observed, Timeout, TimesOut, WorkerStep, Fetch, Trace, Transmit, Perform, CallEnds,
      CallEndsWhen, WriteState, supervisorVars
  <2> QED BY <2>1, <2>2, <2>3
<1> QED BY <1>1, <1>2, AddressedInvariance, PTL DEF LiveSpec

\* So that a close() during which nothing is created or restarted leaves nothing that is
\* registered running, whatever requests do meanwhile.
THEOREM LiveCloseStopsAll == LiveSpec /\ []Quiet => CloseStopsAll
<1>1. Addressed /\ Closers /\ [LiveNext]_liveVars => [Closes]_vars
  <2> SUFFICES ASSUME Addressed, Closers, [LiveNext]_liveVars PROVE Next => Closes
    <3>1. ASSUME ~Next, LiveNext \/ UNCHANGED liveVars PROVE pc' = pc
      BY <3>1 DEF LiveNext, liveVars, vars, Initialize, LoopStep, Refuse, Handle, Cancel, Submit, Executed,
        Observed, Timeout, TimesOut, WorkerStep, Fetch, Trace, Transmit, Perform, CallEnds, CallEndsWhen,
        WriteState, supervisorVars
    <3> QED BY <3>1 DEF Closes
  <2> QED BY ClosingEnds DEF Addressed
<1> QED BY <1>1, LiveQuietInvariance, AddressedInvariance, PTL DEF LiveSpec, CloseStopsAll, Closes
=============================================================================
