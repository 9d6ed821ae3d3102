--------------------------- MODULE SupervisorProofs ---------------------------
(* Proofs about Supervisor, for any set of callers, instance ids, ports and objects. *)
EXTENDS Supervisor, FiniteSetTheorems, TLAPS

-----------------------------------------------------------------------------
(* The inductive invariant *)

\* What TypeOK says; of the states, the last two are those that LiveMcp's worker threads write.
Fields ==
  /\ made \in 0 .. MaxObject
  /\ registry \in [Ident -> 0 .. MaxObject]
  /\ id \in [Object -> Ident \cup {None}]
  /\ gen \in [Object -> 0 .. MaxObject]
  /\ state \in [Object -> {"none", "starting", "running", "failed", "stopped",
                           "str_running", "str_paused"}]
  /\ proc \in [Object -> {"none", "alive", "dead"}]
  /\ mon \in [Object -> {"none", "open", "closed"}]
  /\ hasPort \in [Object -> BOOLEAN]
  /\ claim \in [Object -> Port \cup {None}]
  /\ token \in [Object -> Token \cup {None}] /\ used \subseteq Token
  /\ pc \in [Thread -> {"idle", "next"} \cup CreateSteps \cup StopSteps]
  /\ ident \in [Thread -> Ident \cup {None}]
  /\ cur \in [Thread -> 0 .. MaxObject] /\ new \in [Thread -> 0 .. MaxObject]
  /\ nextGen \in [Thread -> 0 .. MaxObject]
  /\ then \in [Thread -> {"idle", "restart", "next"}]
  /\ todo \in [Thread -> SUBSET Object]

Making == {"spawn", "probe", "kill", "abandon", "register"}
Stopping == {"disconnect", "terminate", "wait", "release", "give", "clear", "stopped"}

\* A create() alone knows the object it makes, which keeps its lease until it is registered.
Maker(t) ==
  pc[t] \in Making =>
    /\ new[t] \in 1 .. made /\ state[new[t]] = "starting"
    /\ claim[new[t]] # None /\ ~hasPort[new[t]]
    /\ ident[t] \in Ident /\ id[new[t]] = ident[t]
    /\ pc[t] = "spawn" => proc[new[t]] = "none"
    /\ pc[t] = "abandon" => proc[new[t]] # "alive"

\* A stop() is about an object that was registered, and gets it down step by step, whatever
\* the others do to it.
Stopper(t) ==
  /\ pc[t] = "get" \/ pc[t] \in Stopping => ident[t] \in Ident /\ registry[ident[t]] # 0
  /\ pc[t] \in Stopping => cur[t] \in 1 .. made /\ state[cur[t]] # "starting"
  /\ pc[t] \in Stopping \ {"disconnect"} => mon[cur[t]] # "open"
  /\ pc[t] \in {"release", "give", "clear", "stopped"} => proc[cur[t]] # "alive"
  /\ pc[t] \in {"clear", "stopped"} => claim[cur[t]] = None

\* The locals of a call.
Caller(t) ==
  /\ new[t] # 0 => pc[t] \in Making
  /\ pc[t] = "idle" => nextGen[t] = 0 /\ then[t] = "idle"
  /\ pc[t] = "reserve" => ident[t] \in Ident
  /\ pc[t] \in {"reserve"} \cup Making => nextGen[t] # 0
  /\ then[t] = "restart" => nextGen[t] # 0

\* The generation it will give has not been reached.
Fresh(t) == nextGen[t] <= made + 1

\* A close() walks over objects that have been made and registered.
Walker(t) == \A h \in todo[t] : h <= made /\ id[h] \in Ident /\ registry[id[h]] # 0

\* No two calls make the same object.
Distinct == \A s, t \in Thread : s # t /\ new[s] # 0 => new[s] # new[t]

\* An object not made yet has nothing; one that is not being made holds a lease by its
\* reservation only; a process has a lease, and what is stopped is down.
Sound(h) ==
  /\ h > made => state[h] = "none" /\ proc[h] = "none" /\ claim[h] = None /\ ~hasPort[h]
  /\ state[h] # "starting" /\ ~hasPort[h] => claim[h] = None
  /\ gen[h] <= made
  /\ proc[h] = "alive" => claim[h] # None
  /\ state[h] = "stopped" => proc[h] # "alive" /\ mon[h] # "open" /\ claim[h] = None

\* What is registered has been made.
Entry(x) ==
  registry[x] # 0 => registry[x] <= made /\ id[registry[x]] = x /\ state[registry[x]] # "starting"

\* There is room for the object of each call that has yet to make one.
Pending == {s \in Thread : nextGen[s] # 0 /\ new[s] = 0}
Room == made + Cardinality(Pending) <= MaxObject

Local(t) == Maker(t) /\ Stopper(t) /\ Caller(t) /\ Fresh(t) /\ Walker(t)

Calls == \A t \in Thread : Local(t)
Objects == \A h \in Object : Sound(h)
Entries == \A x \in Ident : Entry(x)

SupervisorInductive == Fields /\ Calls /\ Distinct /\ Objects /\ Entries /\ Room

-----------------------------------------------------------------------------

\* A thread or an id is never taken for None.
LEMMA Apart == None \notin Port \cup Token \cup Ident \cup Thread
  BY SupervisorConstants

\* What has been made are objects.
LEMMA MadeAreObjects == ASSUME SupervisorInductive PROVE made \in Nat /\ \A h \in 1 .. made : h \in Object
  BY SupervisorConstants DEF SupervisorInductive, Fields, Object

\* The calls that are counted are finitely many, and one more or less counts as one.
LEMMA Counting ==
  /\ Cardinality(Pending) \in Nat
  /\ \A t : t \notin Pending => Cardinality(Pending \cup {t}) = Cardinality(Pending) + 1
  /\ \A t : /\ Cardinality(Pending \ {t}) \in Nat
            /\ Cardinality(Pending \ {t}) <= Cardinality(Pending)
            /\ t \in Pending => Cardinality(Pending \ {t}) = Cardinality(Pending) - 1
<1>1. IsFiniteSet(Pending) /\ Cardinality(Pending) \in Nat
  BY SupervisorConstants, FS_Subset, FS_CardinalityType DEF Pending
<1>2. ASSUME NEW t,
      t \notin Pending PROVE Cardinality(Pending \cup {t}) = Cardinality(Pending) + 1
  BY <1>1, <1>2, FS_AddElement
<1>3. ASSUME NEW t PROVE IsFiniteSet(Pending \ {t}) /\ Cardinality(Pending \ {t}) \in Nat
  BY <1>1, FS_RemoveElement, FS_CardinalityType
<1>4. ASSUME NEW t PROVE Cardinality(Pending \ {t}) <= Cardinality(Pending)
  BY <1>1, FS_Subset
<1>5. ASSUME NEW t, t \in Pending PROVE Cardinality(Pending \ {t}) = Cardinality(Pending) - 1
  BY <1>1, <1>5, FS_RemoveElement
<1> QED BY <1>1, <1>2, <1>3, <1>4, <1>5

\* A call returns or raises.
LEMMA LeaveKeeps ==
  ASSUME SupervisorInductive, NEW t \in Thread, Leave(t),
         UNCHANGED <<made, registry, objectVars, leaseVars>>
  PROVE  SupervisorInductive'
<1> USE Apart, SupervisorConstants DEF SupervisorInductive, Local, Object, Goto, Leave,
      objectVars, leaseVars, localVars
<1>0. Local(t)
  BY DEF Calls
<1>1. Fields'
  BY <1>0 DEF Fields, CreateSteps, StopSteps, Maker, Stopper, Caller, Making, Stopping
<1>2. ASSUME NEW s \in Thread PROVE Local(s)'
  <2>0. Local(s) /\ (s # t /\ new[s] # 0 => new[s] # new[t])
    BY DEF Calls, Distinct
  <2>1. CASE s = t
    BY <1>0, <2>1 DEF Fields, Objects, Entries, Sound, Entry, Maker, Stopper, Caller, Fresh,
      Walker, Making, Stopping
  <2>2. CASE s # t
    BY <1>0, <2>0, <2>2 DEF Fields, Maker, Stopper, Caller, Fresh, Walker, Making, Stopping
  <2> QED BY <2>1, <2>2
<1>3. Distinct'
  BY <1>0 DEF Fields, Distinct, Calls, Maker, Caller, Making
<1>4. ASSUME NEW h \in Object PROVE Sound(h)'
  BY <1>4 DEF Fields, Objects, Sound, Calls, Maker, Stopper, Caller, Making, Stopping
<1>5. ASSUME NEW x \in Ident PROVE Entry(x)'
  BY <1>5 DEF Fields, Entries, Entry, Calls, Maker, Stopper, Caller, Making, Stopping
<1>6. Room'
  <2>1. Pending' = Pending \ {t}
    BY <1>0 DEF Pending, Fields
  <2>2. Cardinality(Pending') \in Nat /\ Cardinality(Pending') <= Cardinality(Pending)
    BY <2>1, Counting
  <2> QED BY <2>2, Counting DEF Room, Fields
<1> QED BY <1>1, <1>2, <1>3, <1>4, <1>5, <1>6 DEF Calls, Objects, Entries

\* A create() begins.
LEMMA CallCreateKeeps ==
  ASSUME SupervisorInductive, NEW t \in Thread, CallCreate(t) PROVE SupervisorInductive'
<1> USE Apart, SupervisorConstants DEF SupervisorInductive, Local, Object, Goto, CallCreate,
      objectVars, leaseVars, localVars
<1>0. Local(t)
  BY DEF Calls
<1>r. made + Cardinality(Pending) < MaxObject /\ made < MaxObject /\ Cardinality(Pending) \in Nat
  <2>1. made + Cardinality(Pending) < MaxObject
    BY DEF RoomToCreate, Pending
  <2> QED BY <2>1, Counting DEF Fields
<1>1. Fields'
  BY <1>0, <1>r DEF Fields, CreateSteps, StopSteps, Maker, Stopper, Caller, Making, Stopping,
    Objects, Sound
<1>2. ASSUME NEW s \in Thread PROVE Local(s)'
  <2>0. Local(s) /\ (s # t /\ new[s] # 0 => new[s] # new[t])
    BY DEF Calls, Distinct
  <2>1. CASE s = t
    BY <1>0, <2>1, <1>r DEF Fields, Objects, Entries, Sound, Entry, Maker, Stopper, Caller,
      Fresh, Walker, Making, Stopping
  <2>2. CASE s # t
    BY <1>0, <2>0, <2>2, <1>r DEF Fields, Maker, Stopper, Caller, Fresh, Walker, Making,
      Stopping
  <2> QED BY <2>1, <2>2
<1>3. Distinct'
  BY <1>0, <1>r DEF Fields, Distinct, Calls, Maker, Caller, Making
<1>4. ASSUME NEW h \in Object PROVE Sound(h)'
  BY <1>4, <1>r DEF Fields, Objects, Sound, Calls, Maker, Stopper, Caller, Making, Stopping
<1>5. ASSUME NEW x \in Ident PROVE Entry(x)'
  BY <1>5, <1>r DEF Fields, Entries, Entry, Calls, Maker, Stopper, Caller, Making, Stopping
<1>6. Room'
  <2>1. Pending' = Pending \cup {t} /\ t \notin Pending
    BY <1>0 DEF Pending, Fields, Caller, Making
  <2>2. Cardinality(Pending') = Cardinality(Pending) + 1
    BY <2>1, Counting
  <2> QED BY <1>r, <2>2, Counting DEF Room, Fields
<1> QED BY <1>1, <1>2, <1>3, <1>4, <1>5, <1>6 DEF Calls, Objects, Entries

\* VICE is started.
LEMMA SpawnKeeps ==
  ASSUME SupervisorInductive, NEW t \in Thread, Spawn(t) PROVE SupervisorInductive'
<1> USE Apart, SupervisorConstants DEF SupervisorInductive, Local, Object, Goto, Spawn,
      objectVars, leaseVars, localVars
<1>0. Local(t)
  BY DEF Calls
<1>1. Fields'
  BY <1>0 DEF Fields, CreateSteps, StopSteps, Maker, Stopper, Caller, Making, Stopping
<1>2. ASSUME NEW s \in Thread PROVE Local(s)'
  <2>0. Local(s) /\ (s # t /\ new[s] # 0 => new[s] # new[t])
    BY DEF Calls, Distinct
  <2>1. CASE s = t
    BY <1>0, <2>1 DEF Fields, Objects, Entries, Sound, Entry, Maker, Stopper, Caller, Fresh,
      Walker, Making, Stopping
  <2>2. CASE s # t
    <3>1. Maker(s)'
      BY <1>0, <2>0, <2>2 DEF Fields, Maker, Stopper, Making, Stopping
    <3>2. Stopper(s)'
      BY <1>0, <2>0, <2>2 DEF Fields, Stopper, Maker, Making, Stopping
    <3>3. Caller(s)'
      BY <1>0, <2>0, <2>2 DEF Fields, Caller, Making
    <3>4. Fresh(s)'
      BY <1>0, <2>0, <2>2 DEF Fields, Fresh, Maker, Making
    <3>5. Walker(s)'
      BY <1>0, <2>0, <2>2 DEF Fields, Walker, Maker, Making
    <3> QED BY <3>1, <3>2, <3>3, <3>4, <3>5
  <2> QED BY <2>1, <2>2
<1>3. Distinct'
  BY <1>0 DEF Fields, Distinct, Calls, Maker, Caller, Making
<1>4. ASSUME NEW h \in Object PROVE Sound(h)'
  BY <1>4 DEF Fields, Objects, Sound, Calls, Maker, Stopper, Caller, Making, Stopping
<1>5. ASSUME NEW x \in Ident PROVE Entry(x)'
  BY <1>5 DEF Fields, Entries, Entry, Calls, Maker, Stopper, Caller, Making, Stopping
<1>6. Room'
  <2>1. Pending' = Pending
    BY <1>0 DEF Pending, Fields
  <2> QED BY <2>1 DEF Room
<1> QED BY <1>1, <1>2, <1>3, <1>4, <1>5, <1>6 DEF Calls, Objects, Entries

\* A failed start is registered and its port released.
LEMMA AbandonKeeps ==
  ASSUME SupervisorInductive, NEW t \in Thread, Abandon(t) PROVE SupervisorInductive'
<1> USE Apart, SupervisorConstants DEF SupervisorInductive, Local, Object, Goto, Abandon,
      Leave, objectVars, leaseVars, localVars
<1>0. Local(t)
  BY DEF Calls
<1>1. Fields'
  <2>1. new[t] \in Object /\ ident[t] \in Ident
    BY <1>0 DEF Fields, Maker, Making
  <2> QED BY <2>1 DEF Fields, CreateSteps
<1>2. ASSUME NEW s \in Thread PROVE Local(s)'
  <2>0. Local(s) /\ (s # t /\ new[s] # 0 => new[s] # new[t])
    BY DEF Calls, Distinct
  <2>1. CASE s = t
    BY <1>0, <2>1 DEF Fields, Objects, Entries, Sound, Entry, Maker, Stopper, Caller, Fresh,
      Walker, Making, Stopping
  <2>2. CASE s # t
    <3>1. Maker(s)'
      BY <1>0, <2>0, <2>2 DEF Fields, Maker, Stopper, Making, Stopping
    <3>2. Stopper(s)'
      BY <1>0, <2>0, <2>2 DEF Fields, Stopper, Maker, Making, Stopping
    <3>3. Caller(s)'
      BY <1>0, <2>0, <2>2 DEF Fields, Caller, Making
    <3>4. Fresh(s)'
      BY <1>0, <2>0, <2>2 DEF Fields, Fresh, Maker, Making
    <3>5. Walker(s)'
      BY <1>0, <2>0, <2>2 DEF Fields, Walker, Maker, Making
    <3> QED BY <3>1, <3>2, <3>3, <3>4, <3>5
  <2> QED BY <2>1, <2>2
<1>3. Distinct'
  BY <1>0 DEF Fields, Distinct, Calls, Maker, Caller, Making
<1>4. ASSUME NEW h \in Object PROVE Sound(h)'
  BY <1>4 DEF Fields, Objects, Sound, Calls, Maker, Stopper, Caller, Making, Stopping
<1>5. ASSUME NEW x \in Ident PROVE Entry(x)'
  BY <1>5 DEF Fields, Entries, Entry, Calls, Maker, Stopper, Caller, Making, Stopping
<1>6. Room'
  <2>1. Pending' = Pending \ {t}
    BY <1>0 DEF Pending, Fields
  <2>2. Cardinality(Pending') \in Nat /\ Cardinality(Pending') <= Cardinality(Pending)
    BY <2>1, Counting
  <2> QED BY <2>2, Counting DEF Room, Fields
<1> QED BY <1>1, <1>2, <1>3, <1>4, <1>5, <1>6 DEF Calls, Objects, Entries

\* VICE accepts the connection.
LEMMA ConnectKeeps ==
  ASSUME SupervisorInductive, NEW t \in Thread, Connect(t) PROVE SupervisorInductive'
<1> USE Apart, SupervisorConstants DEF SupervisorInductive, Local, Object, Goto, Connect,
      objectVars, leaseVars, localVars
<1>0. Local(t)
  BY DEF Calls
<1>1. Fields'
  BY <1>0 DEF Fields, CreateSteps, StopSteps, Maker, Stopper, Caller, Making, Stopping
<1>2. ASSUME NEW s \in Thread PROVE Local(s)'
  <2>0. Local(s) /\ (s # t /\ new[s] # 0 => new[s] # new[t])
    BY DEF Calls, Distinct
  <2>1. CASE s = t
    BY <1>0, <2>1 DEF Fields, Objects, Entries, Sound, Entry, Maker, Stopper, Caller, Fresh,
      Walker, Making, Stopping
  <2>2. CASE s # t
    <3>1. Maker(s)'
      BY <1>0, <2>0, <2>2 DEF Fields, Maker, Stopper, Making, Stopping
    <3>2. Stopper(s)'
      BY <1>0, <2>0, <2>2 DEF Fields, Stopper, Maker, Making, Stopping
    <3>3. Caller(s)'
      BY <1>0, <2>0, <2>2 DEF Fields, Caller, Making
    <3>4. Fresh(s)'
      BY <1>0, <2>0, <2>2 DEF Fields, Fresh, Maker, Making
    <3>5. Walker(s)'
      BY <1>0, <2>0, <2>2 DEF Fields, Walker, Maker, Making
    <3> QED BY <3>1, <3>2, <3>3, <3>4, <3>5
  <2> QED BY <2>1, <2>2
<1>3. Distinct'
  BY <1>0 DEF Fields, Distinct, Calls, Maker, Caller, Making
<1>4. ASSUME NEW h \in Object PROVE Sound(h)'
  BY <1>4 DEF Fields, Objects, Sound, Calls, Maker, Stopper, Caller, Making, Stopping
<1>5. ASSUME NEW x \in Ident PROVE Entry(x)'
  BY <1>5 DEF Fields, Entries, Entry, Calls, Maker, Stopper, Caller, Making, Stopping
<1>6. Room'
  <2>1. Pending' = Pending
    BY <1>0 DEF Pending, Fields
  <2> QED BY <2>1 DEF Room
<1> QED BY <1>1, <1>2, <1>3, <1>4, <1>5, <1>6 DEF Calls, Objects, Entries

\* The startup loop gives up.
LEMMA StopProbingKeeps ==
  ASSUME SupervisorInductive, NEW t \in Thread, StopProbing(t) PROVE SupervisorInductive'
<1> USE Apart, SupervisorConstants DEF SupervisorInductive, Local, Object, Goto, StopProbing,
      objectVars, leaseVars, localVars
<1>0. Local(t)
  BY DEF Calls
<1>1. Fields'
  BY <1>0 DEF Fields, CreateSteps, StopSteps, Maker, Stopper, Caller, Making, Stopping
<1>2. ASSUME NEW s \in Thread PROVE Local(s)'
  <2>0. Local(s) /\ (s # t /\ new[s] # 0 => new[s] # new[t])
    BY DEF Calls, Distinct
  <2>1. CASE s = t
    BY <1>0, <2>1 DEF Fields, Objects, Entries, Sound, Entry, Maker, Stopper, Caller, Fresh,
      Walker, Making, Stopping
  <2>2. CASE s # t
    <3>1. Maker(s)'
      BY <1>0, <2>0, <2>2 DEF Fields, Maker, Stopper, Making, Stopping
    <3>2. Stopper(s)'
      BY <1>0, <2>0, <2>2 DEF Fields, Stopper, Maker, Making, Stopping
    <3>3. Caller(s)'
      BY <1>0, <2>0, <2>2 DEF Fields, Caller, Making
    <3>4. Fresh(s)'
      BY <1>0, <2>0, <2>2 DEF Fields, Fresh, Maker, Making
    <3>5. Walker(s)'
      BY <1>0, <2>0, <2>2 DEF Fields, Walker, Maker, Making
    <3> QED BY <3>1, <3>2, <3>3, <3>4, <3>5
  <2> QED BY <2>1, <2>2
<1>3. Distinct'
  BY <1>0 DEF Fields, Distinct, Calls, Maker, Caller, Making
<1>4. ASSUME NEW h \in Object PROVE Sound(h)'
  BY <1>4 DEF Fields, Objects, Sound, Calls, Maker, Stopper, Caller, Making, Stopping
<1>5. ASSUME NEW x \in Ident PROVE Entry(x)'
  BY <1>5 DEF Fields, Entries, Entry, Calls, Maker, Stopper, Caller, Making, Stopping
<1>6. Room'
  <2>1. Pending' = Pending
    BY <1>0 DEF Pending, Fields
  <2> QED BY <2>1 DEF Room
<1> QED BY <1>1, <1>2, <1>3, <1>4, <1>5, <1>6 DEF Calls, Objects, Entries

\* The new instance is registered.
LEMMA RegisterKeeps ==
  ASSUME SupervisorInductive, NEW t \in Thread, Register(t) PROVE SupervisorInductive'
<1> USE Apart, SupervisorConstants DEF SupervisorInductive, Local, Object, Goto, Register,
      Leave, objectVars, leaseVars, localVars
<1>0. Local(t)
  BY DEF Calls
<1>1. Fields'
  <2>1. new[t] \in Object /\ ident[t] \in Ident
    BY <1>0 DEF Fields, Maker, Making
  <2> QED BY <2>1 DEF Fields, CreateSteps
<1>2. ASSUME NEW s \in Thread PROVE Local(s)'
  <2>0. Local(s) /\ (s # t /\ new[s] # 0 => new[s] # new[t])
    BY DEF Calls, Distinct
  <2>1. CASE s = t
    BY <1>0, <2>1 DEF Fields, Objects, Entries, Sound, Entry, Maker, Stopper, Caller, Fresh,
      Walker, Making, Stopping
  <2>2. CASE s # t
    <3>1. Maker(s)'
      BY <1>0, <2>0, <2>2 DEF Fields, Maker, Stopper, Making, Stopping
    <3>2. Stopper(s)'
      BY <1>0, <2>0, <2>2 DEF Fields, Stopper, Maker, Making, Stopping
    <3>3. Caller(s)'
      BY <1>0, <2>0, <2>2 DEF Fields, Caller, Making
    <3>4. Fresh(s)'
      BY <1>0, <2>0, <2>2 DEF Fields, Fresh, Maker, Making
    <3>5. Walker(s)'
      BY <1>0, <2>0, <2>2 DEF Fields, Walker, Maker, Making
    <3> QED BY <3>1, <3>2, <3>3, <3>4, <3>5
  <2> QED BY <2>1, <2>2
<1>3. Distinct'
  BY <1>0 DEF Fields, Distinct, Calls, Maker, Caller, Making
<1>4. ASSUME NEW h \in Object PROVE Sound(h)'
  BY <1>4 DEF Fields, Objects, Sound, Calls, Maker, Stopper, Caller, Making, Stopping
<1>5. ASSUME NEW x \in Ident PROVE Entry(x)'
  BY <1>5 DEF Fields, Entries, Entry, Calls, Maker, Stopper, Caller, Making, Stopping
<1>6. Room'
  <2>1. Pending' = Pending \ {t}
    BY <1>0 DEF Pending, Fields
  <2>2. Cardinality(Pending') \in Nat /\ Cardinality(Pending') <= Cardinality(Pending)
    BY <2>1, Counting
  <2> QED BY <2>2, Counting DEF Room, Fields
<1> QED BY <1>1, <1>2, <1>3, <1>4, <1>5, <1>6 DEF Calls, Objects, Entries

\* A stop() begins.
LEMMA CallStopKeeps ==
  ASSUME SupervisorInductive, NEW t \in Thread, CallStop(t) PROVE SupervisorInductive'
<1> USE Apart, SupervisorConstants DEF SupervisorInductive, Local, Object, Goto, CallStop,
      objectVars, leaseVars, localVars
<1>0. Local(t)
  BY DEF Calls
<1>1. Fields'
  BY <1>0 DEF Fields, CreateSteps, StopSteps, Maker, Stopper, Caller, Making, Stopping
<1>2. ASSUME NEW s \in Thread PROVE Local(s)'
  <2>0. Local(s) /\ (s # t /\ new[s] # 0 => new[s] # new[t])
    BY DEF Calls, Distinct
  <2>1. CASE s = t
    BY <1>0, <2>1 DEF Fields, Objects, Entries, Sound, Entry, Maker, Stopper, Caller, Fresh,
      Walker, Making, Stopping
  <2>2. CASE s # t
    BY <1>0, <2>0, <2>2 DEF Fields, Maker, Stopper, Caller, Fresh, Walker, Making, Stopping
  <2> QED BY <2>1, <2>2
<1>3. Distinct'
  BY <1>0 DEF Fields, Distinct, Calls, Maker, Caller, Making
<1>4. ASSUME NEW h \in Object PROVE Sound(h)'
  BY <1>4 DEF Fields, Objects, Sound, Calls, Maker, Stopper, Caller, Making, Stopping
<1>5. ASSUME NEW x \in Ident PROVE Entry(x)'
  BY <1>5 DEF Fields, Entries, Entry, Calls, Maker, Stopper, Caller, Making, Stopping
<1>6. Room'
  <2>1. Pending' = Pending
    BY <1>0 DEF Pending, Fields
  <2> QED BY <2>1 DEF Room
<1> QED BY <1>1, <1>2, <1>3, <1>4, <1>5, <1>6 DEF Calls, Objects, Entries

\* A restart() begins.
LEMMA CallRestartKeeps ==
  ASSUME SupervisorInductive, NEW t \in Thread, CallRestart(t) PROVE SupervisorInductive'
<1> USE Apart, SupervisorConstants DEF SupervisorInductive, Local, Object, Goto, CallRestart,
      Restarts, objectVars, leaseVars, localVars
<1>0. Local(t)
  BY DEF Calls
<1>r. made + Cardinality(Pending) < MaxObject /\ made < MaxObject /\ Cardinality(Pending) \in Nat
  <2>1. made + Cardinality(Pending) < MaxObject
    BY DEF RoomToCreate, Pending
  <2> QED BY <2>1, Counting DEF Fields
<1>g. \A x \in Ident : registry[x] # 0 =>
        gen[registry[x]] + 1 \in 1 .. MaxObject /\ gen[registry[x]] + 1 <= made + 1
  BY <1>r DEF Fields, Objects, Sound
<1>1. Fields'
  BY <1>0, <1>g DEF Fields, CreateSteps, StopSteps, Maker, Stopper, Caller, Making, Stopping
<1>2. ASSUME NEW s \in Thread PROVE Local(s)'
  <2>0. Local(s) /\ (s # t /\ new[s] # 0 => new[s] # new[t])
    BY DEF Calls, Distinct
  <2>1. CASE s = t
    BY <1>0, <2>1, <1>g DEF Fields, Objects, Entries, Sound, Entry, Maker, Stopper, Caller,
      Fresh, Walker, Making, Stopping
  <2>2. CASE s # t
    BY <1>0, <2>0, <2>2, <1>g DEF Fields, Maker, Stopper, Caller, Fresh, Walker, Making,
      Stopping
  <2> QED BY <2>1, <2>2
<1>3. Distinct'
  BY <1>0, <1>g DEF Fields, Distinct, Calls, Maker, Caller, Making
<1>4. ASSUME NEW h \in Object PROVE Sound(h)'
  BY <1>4, <1>g DEF Fields, Objects, Sound, Calls, Maker, Stopper, Caller, Making, Stopping
<1>5. ASSUME NEW x \in Ident PROVE Entry(x)'
  BY <1>5, <1>g DEF Fields, Entries, Entry, Calls, Maker, Stopper, Caller, Making, Stopping
<1>6. Room'
  <2>1. Pending' = Pending \cup {t} /\ t \notin Pending
    BY <1>0 DEF Pending, Fields, Caller, Making
  <2>2. Cardinality(Pending') = Cardinality(Pending) + 1
    BY <2>1, Counting
  <2> QED BY <1>r, <2>2, Counting DEF Room, Fields
<1> QED BY <1>1, <1>2, <1>3, <1>4, <1>5, <1>6 DEF Calls, Objects, Entries

\* A close() begins.
LEMMA CallCloseKeeps ==
  ASSUME SupervisorInductive, NEW t \in Thread, CallClose(t) PROVE SupervisorInductive'
<1> USE Apart, SupervisorConstants DEF SupervisorInductive, Local, Object, Goto, CallClose,
      objectVars, leaseVars, localVars
<1>0. Local(t)
  BY DEF Calls
<1>1. Fields'
  BY <1>0 DEF Fields, CreateSteps, StopSteps, Maker, Stopper, Caller, Making, Stopping
<1>2. ASSUME NEW s \in Thread PROVE Local(s)'
  <2>0. Local(s) /\ (s # t /\ new[s] # 0 => new[s] # new[t])
    BY DEF Calls, Distinct
  <2>1. CASE s = t
    <3>1. todo'[t] = {registry[x] : x \in Ident} \ {0} /\ pc'[t] = "next" /\ then'[t] = "next"
      BY DEF Fields
    <3>2. Maker(s)' /\ Stopper(s)' /\ Caller(s)' /\ Fresh(s)'
      BY <1>0, <2>1, <3>1 DEF Fields, Maker, Stopper, Caller, Fresh, Making, Stopping
    <3>3. ASSUME NEW h \in todo'[t] PROVE h <= made /\ id[h] \in Ident /\ registry[id[h]] # 0
      <4>1. PICK x \in Ident : h = registry[x] /\ h # 0
        BY <3>1
      <4>2. Entry(x)
        BY DEF Entries
      <4> QED BY <4>1, <4>2 DEF Entry
    <3>4. Walker(s)'
      BY <2>1, <3>3 DEF Walker
    <3> QED BY <3>2, <3>4
  <2>2. CASE s # t
    BY <1>0, <2>0, <2>2 DEF Fields, Maker, Stopper, Caller, Fresh, Walker, Making, Stopping
  <2> QED BY <2>1, <2>2
<1>3. Distinct'
  BY <1>0 DEF Fields, Distinct, Calls, Maker, Caller, Making
<1>4. ASSUME NEW h \in Object PROVE Sound(h)'
  BY <1>4 DEF Fields, Objects, Sound, Calls, Maker, Stopper, Caller, Making, Stopping
<1>5. ASSUME NEW x \in Ident PROVE Entry(x)'
  BY <1>5 DEF Fields, Entries, Entry, Calls, Maker, Stopper, Caller, Making, Stopping
<1>6. Room'
  <2>1. Pending' = Pending
    BY <1>0 DEF Pending, Fields
  <2> QED BY <2>1 DEF Room
<1> QED BY <1>1, <1>2, <1>3, <1>4, <1>5, <1>6 DEF Calls, Objects, Entries

\* stop() looks the instance up.
LEMMA GetKeeps ==
  ASSUME SupervisorInductive, NEW t \in Thread, Get(t) PROVE SupervisorInductive'
<1> USE Apart, SupervisorConstants DEF SupervisorInductive, Local, Object, Goto, Get,
      objectVars, leaseVars, localVars
<1>0. Local(t)
  BY DEF Calls
<1>1. Fields'
  BY <1>0 DEF Fields, CreateSteps, StopSteps, Maker, Stopper, Caller, Making, Stopping
<1>2. ASSUME NEW s \in Thread PROVE Local(s)'
  <2>0. Local(s) /\ (s # t /\ new[s] # 0 => new[s] # new[t])
    BY DEF Calls, Distinct
  <2>1. CASE s = t
    BY <1>0, <2>1 DEF Fields, Objects, Entries, Sound, Entry, Maker, Stopper, Caller, Fresh,
      Walker, Making, Stopping
  <2>2. CASE s # t
    BY <1>0, <2>0, <2>2 DEF Fields, Maker, Stopper, Caller, Fresh, Walker, Making, Stopping
  <2> QED BY <2>1, <2>2
<1>3. Distinct'
  BY <1>0 DEF Fields, Distinct, Calls, Maker, Caller, Making
<1>4. ASSUME NEW h \in Object PROVE Sound(h)'
  BY <1>4 DEF Fields, Objects, Sound, Calls, Maker, Stopper, Caller, Making, Stopping
<1>5. ASSUME NEW x \in Ident PROVE Entry(x)'
  BY <1>5 DEF Fields, Entries, Entry, Calls, Maker, Stopper, Caller, Making, Stopping
<1>6. Room'
  <2>1. Pending' = Pending
    BY <1>0 DEF Pending, Fields
  <2> QED BY <2>1 DEF Room
<1> QED BY <1>1, <1>2, <1>3, <1>4, <1>5, <1>6 DEF Calls, Objects, Entries

\* stop() closes the connection.
LEMMA DisconnectKeeps ==
  ASSUME SupervisorInductive, NEW t \in Thread, Disconnect(t) PROVE SupervisorInductive'
<1> USE Apart, SupervisorConstants DEF SupervisorInductive, Local, Object, Goto, Disconnect,
      objectVars, leaseVars, localVars
<1>0. Local(t)
  BY DEF Calls
<1>1. Fields'
  BY <1>0 DEF Fields, CreateSteps, StopSteps, Maker, Stopper, Caller, Making, Stopping
<1>2. ASSUME NEW s \in Thread PROVE Local(s)'
  <2>0. Local(s) /\ (s # t /\ new[s] # 0 => new[s] # new[t])
    BY DEF Calls, Distinct
  <2>1. CASE s = t
    BY <1>0, <2>1 DEF Fields, Objects, Entries, Sound, Entry, Maker, Stopper, Caller, Fresh,
      Walker, Making, Stopping
  <2>2. CASE s # t
    BY <1>0, <2>0, <2>2 DEF Fields, Maker, Stopper, Caller, Fresh, Walker, Making, Stopping
  <2> QED BY <2>1, <2>2
<1>3. Distinct'
  BY <1>0 DEF Fields, Distinct, Calls, Maker, Caller, Making
<1>4. ASSUME NEW h \in Object PROVE Sound(h)'
  BY <1>4 DEF Fields, Objects, Sound, Calls, Maker, Stopper, Caller, Making, Stopping
<1>5. ASSUME NEW x \in Ident PROVE Entry(x)'
  BY <1>5 DEF Fields, Entries, Entry, Calls, Maker, Stopper, Caller, Making, Stopping
<1>6. Room'
  <2>1. Pending' = Pending
    BY <1>0 DEF Pending, Fields
  <2> QED BY <2>1 DEF Room
<1> QED BY <1>1, <1>2, <1>3, <1>4, <1>5, <1>6 DEF Calls, Objects, Entries

\* stop() looks whether the process runs.
LEMMA TerminateKeeps ==
  ASSUME SupervisorInductive, NEW t \in Thread, Terminate(t) PROVE SupervisorInductive'
<1> USE Apart, SupervisorConstants DEF SupervisorInductive, Local, Object, Goto, Terminate,
      objectVars, leaseVars, localVars
<1>0. Local(t)
  BY DEF Calls
<1>1. Fields'
  BY <1>0 DEF Fields, CreateSteps, StopSteps, Maker, Stopper, Caller, Making, Stopping
<1>2. ASSUME NEW s \in Thread PROVE Local(s)'
  <2>0. Local(s) /\ (s # t /\ new[s] # 0 => new[s] # new[t])
    BY DEF Calls, Distinct
  <2>1. CASE s = t
    BY <1>0, <2>1 DEF Fields, Objects, Entries, Sound, Entry, Maker, Stopper, Caller, Fresh,
      Walker, Making, Stopping
  <2>2. CASE s # t
    BY <1>0, <2>0, <2>2 DEF Fields, Maker, Stopper, Caller, Fresh, Walker, Making, Stopping
  <2> QED BY <2>1, <2>2
<1>3. Distinct'
  BY <1>0 DEF Fields, Distinct, Calls, Maker, Caller, Making
<1>4. ASSUME NEW h \in Object PROVE Sound(h)'
  BY <1>4 DEF Fields, Objects, Sound, Calls, Maker, Stopper, Caller, Making, Stopping
<1>5. ASSUME NEW x \in Ident PROVE Entry(x)'
  BY <1>5 DEF Fields, Entries, Entry, Calls, Maker, Stopper, Caller, Making, Stopping
<1>6. Room'
  <2>1. Pending' = Pending
    BY <1>0 DEF Pending, Fields
  <2> QED BY <2>1 DEF Room
<1> QED BY <1>1, <1>2, <1>3, <1>4, <1>5, <1>6 DEF Calls, Objects, Entries

\* stop() looks whether there is a port to give back.
LEMMA ReleaseKeeps ==
  ASSUME SupervisorInductive, NEW t \in Thread, Release(t) PROVE SupervisorInductive'
<1> USE Apart, SupervisorConstants DEF SupervisorInductive, Local, Object, Goto, Release,
      objectVars, leaseVars, localVars
<1>0. Local(t)
  BY DEF Calls
<1>1. Fields'
  BY <1>0 DEF Fields, CreateSteps, StopSteps, Maker, Stopper, Caller, Making, Stopping
<1>2. ASSUME NEW s \in Thread PROVE Local(s)'
  <2>0. Local(s) /\ (s # t /\ new[s] # 0 => new[s] # new[t])
    BY DEF Calls, Distinct
  <2>1. CASE s = t
    BY <1>0, <2>1 DEF Fields, Objects, Entries, Sound, Entry, Maker, Stopper, Caller, Fresh,
      Walker, Making, Stopping
  <2>2. CASE s # t
    BY <1>0, <2>0, <2>2 DEF Fields, Maker, Stopper, Caller, Fresh, Walker, Making, Stopping
  <2> QED BY <2>1, <2>2
<1>3. Distinct'
  BY <1>0 DEF Fields, Distinct, Calls, Maker, Caller, Making
<1>4. ASSUME NEW h \in Object PROVE Sound(h)'
  BY <1>4 DEF Fields, Objects, Sound, Calls, Maker, Stopper, Caller, Making, Stopping
<1>5. ASSUME NEW x \in Ident PROVE Entry(x)'
  BY <1>5 DEF Fields, Entries, Entry, Calls, Maker, Stopper, Caller, Making, Stopping
<1>6. Room'
  <2>1. Pending' = Pending
    BY <1>0 DEF Pending, Fields
  <2> QED BY <2>1 DEF Room
<1> QED BY <1>1, <1>2, <1>3, <1>4, <1>5, <1>6 DEF Calls, Objects, Entries

\* stop() gives the port back.
LEMMA GiveKeeps ==
  ASSUME SupervisorInductive, NEW t \in Thread,
         pc[t] = "give", claim' = [claim EXCEPT ![cur[t]] = None], Goto(t, "clear"),
         UNCHANGED <<localVars, made, registry, id, gen, state, proc, mon, hasPort, leaseVars>>
  PROVE SupervisorInductive'
<1> USE Apart, SupervisorConstants DEF SupervisorInductive, Local, Object, Goto, objectVars,
      leaseVars, localVars
<1>0. Local(t)
  BY DEF Calls
<1>1. Fields'
  BY <1>0 DEF Fields, CreateSteps, StopSteps, Maker, Stopper, Caller, Making, Stopping
<1>2. ASSUME NEW s \in Thread PROVE Local(s)'
  <2>0. Local(s) /\ (s # t /\ new[s] # 0 => new[s] # new[t])
    BY DEF Calls, Distinct
  <2>1. CASE s = t
    BY <1>0, <2>1 DEF Fields, Objects, Entries, Sound, Entry, Maker, Stopper, Caller, Fresh,
      Walker, Making, Stopping
  <2>2. CASE s # t
    BY <1>0, <2>0, <2>2 DEF Fields, Maker, Stopper, Caller, Fresh, Walker, Making, Stopping
  <2> QED BY <2>1, <2>2
<1>3. Distinct'
  BY <1>0 DEF Fields, Distinct, Calls, Maker, Caller, Making
<1>4. ASSUME NEW h \in Object PROVE Sound(h)'
  BY <1>4 DEF Fields, Objects, Sound, Calls, Maker, Stopper, Caller, Making, Stopping
<1>5. ASSUME NEW x \in Ident PROVE Entry(x)'
  BY <1>5 DEF Fields, Entries, Entry, Calls, Maker, Stopper, Caller, Making, Stopping
<1>6. Room'
  <2>1. Pending' = Pending
    BY <1>0 DEF Pending, Fields
  <2> QED BY <2>1 DEF Room
<1> QED BY <1>1, <1>2, <1>3, <1>4, <1>5, <1>6 DEF Calls, Objects, Entries

\* stop() forgets the reservation.
LEMMA ClearKeeps ==
  ASSUME SupervisorInductive, NEW t \in Thread, Clear(t) PROVE SupervisorInductive'
<1> USE Apart, SupervisorConstants DEF SupervisorInductive, Local, Object, Goto, Clear,
      objectVars, leaseVars, localVars
<1>0. Local(t)
  BY DEF Calls
<1>1. Fields'
  BY <1>0 DEF Fields, CreateSteps, StopSteps, Maker, Stopper, Caller, Making, Stopping
<1>2. ASSUME NEW s \in Thread PROVE Local(s)'
  <2>0. Local(s) /\ (s # t /\ new[s] # 0 => new[s] # new[t])
    BY DEF Calls, Distinct
  <2>1. CASE s = t
    BY <1>0, <2>1 DEF Fields, Objects, Entries, Sound, Entry, Maker, Stopper, Caller, Fresh,
      Walker, Making, Stopping
  <2>2. CASE s # t
    BY <1>0, <2>0, <2>2 DEF Fields, Maker, Stopper, Caller, Fresh, Walker, Making, Stopping
  <2> QED BY <2>1, <2>2
<1>3. Distinct'
  BY <1>0 DEF Fields, Distinct, Calls, Maker, Caller, Making
<1>4. ASSUME NEW h \in Object PROVE Sound(h)'
  BY <1>4 DEF Fields, Objects, Sound, Calls, Maker, Stopper, Caller, Making, Stopping
<1>5. ASSUME NEW x \in Ident PROVE Entry(x)'
  BY <1>5 DEF Fields, Entries, Entry, Calls, Maker, Stopper, Caller, Making, Stopping
<1>6. Room'
  <2>1. Pending' = Pending
    BY <1>0 DEF Pending, Fields
  <2> QED BY <2>1 DEF Room
<1> QED BY <1>1, <1>2, <1>3, <1>4, <1>5, <1>6 DEF Calls, Objects, Entries

\* create() makes the next object, on a free port.
LEMMA MakeKeeps ==
  ASSUME SupervisorInductive, NEW t \in Thread, pc[t] = "reserve", NEW p \in Port,
         made' = made + 1, new' = [new EXCEPT ![t] = made'],
         id' = [id EXCEPT ![made'] = ident[t]], gen' = [gen EXCEPT ![made'] = nextGen[t]],
         state' = [state EXCEPT ![made'] = "starting"], claim' = [claim EXCEPT ![made'] = p],
         Goto(t, "spawn"), UNCHANGED <<ident, cur, nextGen, then, todo, registry, proc, mon,
               hasPort, leaseVars>>
  PROVE SupervisorInductive'
<1> USE Apart, SupervisorConstants DEF SupervisorInductive, Local, Object, Goto, objectVars,
      leaseVars, localVars
<1>0. Local(t)
  BY DEF Calls
<1>r. made + 1 \in Object /\ made \in Nat /\ ~hasPort[made + 1] /\ proc[made + 1] = "none"
  <2>1. t \in Pending
    BY <1>0 DEF Pending, Fields, Caller, Making
  <2>2. Cardinality(Pending) \in Nat /\ Cardinality(Pending) - 1 \in Nat
    BY <2>1, Counting
  <2>3. made \in Nat /\ made + 1 <= MaxObject
    BY <2>2 DEF Room, Fields
  <2> QED BY <2>3 DEF Objects, Sound
<1>1. Fields'
  BY <1>0, <1>r DEF Fields, CreateSteps, StopSteps, Maker, Stopper, Caller, Making, Stopping
<1>2. ASSUME NEW s \in Thread PROVE Local(s)'
  <2>0. Local(s) /\ (s # t /\ new[s] # 0 => new[s] # new[t])
    BY DEF Calls, Distinct
  <2>1. CASE s = t
    BY <1>0, <2>1, <1>r DEF Fields, Objects, Entries, Sound, Entry, Maker, Stopper, Caller,
      Fresh, Walker, Making, Stopping
  <2>2. CASE s # t
    <3>1. Maker(s)'
      BY <1>0, <2>0, <2>2, <1>r DEF Fields, Maker, Stopper, Making, Stopping
    <3>2. Stopper(s)'
      <4>1. pc'[s] = pc[s] /\ cur'[s] = cur[s] /\ ident'[s] = ident[s] /\ Stopper(s)
        BY <2>0, <2>2 DEF Fields
      <4>2. ASSUME pc[s] \in Stopping
            PROVE  /\ cur[s] \in 1 .. made' /\ state'[cur[s]] = state[cur[s]]
                   /\ claim'[cur[s]] = claim[cur[s]]
        BY <4>1, <4>2, <1>r DEF Fields, Stopper
      <4> QED BY <4>1, <4>2 DEF Stopper, Stopping
    <3>3. Caller(s)'
      BY <1>0, <2>0, <2>2, <1>r DEF Fields, Caller, Making
    <3>4. Fresh(s)'
      BY <1>0, <2>0, <2>2, <1>r DEF Fields, Fresh, Maker, Making
    <3>5. Walker(s)'
      BY <1>0, <2>0, <2>2, <1>r DEF Fields, Walker, Maker, Making
    <3> QED BY <3>1, <3>2, <3>3, <3>4, <3>5
  <2> QED BY <2>1, <2>2
<1>3. Distinct'
  <2>1. ASSUME NEW s \in Thread PROVE new[s] # made + 1
    <3>1. Maker(s) /\ Caller(s)
      BY DEF Calls
    <3> QED BY <1>r, <3>1 DEF Maker, Caller
  <2>2. ASSUME NEW s \in Thread PROVE new'[s] = IF s = t THEN made + 1 ELSE new[s]
    BY <1>r DEF Fields
  <2> QED BY <1>r, <2>1, <2>2 DEF Distinct
<1>4. ASSUME NEW h \in Object PROVE Sound(h)'
  <2>1. CASE h = made + 1
    BY <1>0, <1>r, <2>1 DEF Fields, Sound, Fresh
  <2>2. CASE h # made + 1
    BY <1>r, <2>2 DEF Fields, Objects, Sound
  <2> QED BY <2>1, <2>2
<1>5. ASSUME NEW x \in Ident PROVE Entry(x)'
  BY <1>5, <1>r DEF Fields, Entries, Entry, Calls, Maker, Stopper, Caller, Making, Stopping
<1>6. Room'
  <2>1. Pending' = Pending \ {t} /\ t \in Pending
    BY <1>0 DEF Pending, Fields, Caller, Making
  <2>2. Cardinality(Pending') = Cardinality(Pending) - 1
    BY <2>1, Counting
  <2> QED BY <2>2, Counting DEF Room, Fields
<1> QED BY <1>1, <1>2, <1>3, <1>4, <1>5, <1>6 DEF Calls, Objects, Entries

\* The process of a failed start is down.
LEMMA KillKeeps ==
  ASSUME SupervisorInductive, NEW t \in Thread,
         pc[t] = "kill", proc' = [proc EXCEPT ![new[t]] = "dead"], Goto(t, "abandon"),
         UNCHANGED <<localVars, made, registry, id, gen, state, mon, hasPort, claim, leaseVars>>
  PROVE SupervisorInductive'
<1> USE Apart, SupervisorConstants DEF SupervisorInductive, Local, Object, Goto, objectVars,
      leaseVars, localVars
<1>0. Local(t)
  BY DEF Calls
<1>1. Fields'
  BY <1>0 DEF Fields, CreateSteps, StopSteps, Maker, Stopper, Caller, Making, Stopping
<1>2. ASSUME NEW s \in Thread PROVE Local(s)'
  <2>0. Local(s) /\ (s # t /\ new[s] # 0 => new[s] # new[t])
    BY DEF Calls, Distinct
  <2>1. CASE s = t
    BY <1>0, <2>1 DEF Fields, Objects, Entries, Sound, Entry, Maker, Stopper, Caller, Fresh,
      Walker, Making, Stopping
  <2>2. CASE s # t
    BY <1>0, <2>0, <2>2 DEF Fields, Maker, Stopper, Caller, Fresh, Walker, Making, Stopping
  <2> QED BY <2>1, <2>2
<1>3. Distinct'
  BY <1>0 DEF Fields, Distinct, Calls, Maker, Caller, Making
<1>4. ASSUME NEW h \in Object PROVE Sound(h)'
  BY <1>4 DEF Fields, Objects, Sound, Calls, Maker, Stopper, Caller, Making, Stopping
<1>5. ASSUME NEW x \in Ident PROVE Entry(x)'
  BY <1>5 DEF Fields, Entries, Entry, Calls, Maker, Stopper, Caller, Making, Stopping
<1>6. Room'
  <2>1. Pending' = Pending
    BY <1>0 DEF Pending, Fields
  <2> QED BY <2>1 DEF Room
<1> QED BY <1>1, <1>2, <1>3, <1>4, <1>5, <1>6 DEF Calls, Objects, Entries

\* The process stop() waits for is down.
LEMMA WaitKeeps ==
  ASSUME SupervisorInductive, NEW t \in Thread,
         pc[t] = "wait", proc' = [proc EXCEPT ![cur[t]] = "dead"], Goto(t, "release"),
         UNCHANGED <<localVars, made, registry, id, gen, state, mon, hasPort, claim, leaseVars>>
  PROVE SupervisorInductive'
<1> USE Apart, SupervisorConstants DEF SupervisorInductive, Local, Object, Goto, objectVars,
      leaseVars, localVars
<1>0. Local(t)
  BY DEF Calls
<1>1. Fields'
  BY <1>0 DEF Fields, CreateSteps, StopSteps, Maker, Stopper, Caller, Making, Stopping
<1>2. ASSUME NEW s \in Thread PROVE Local(s)'
  <2>0. Local(s) /\ (s # t /\ new[s] # 0 => new[s] # new[t])
    BY DEF Calls, Distinct
  <2>1. CASE s = t
    BY <1>0, <2>1 DEF Fields, Objects, Entries, Sound, Entry, Maker, Stopper, Caller, Fresh,
      Walker, Making, Stopping
  <2>2. CASE s # t
    BY <1>0, <2>0, <2>2 DEF Fields, Maker, Stopper, Caller, Fresh, Walker, Making, Stopping
  <2> QED BY <2>1, <2>2
<1>3. Distinct'
  BY <1>0 DEF Fields, Distinct, Calls, Maker, Caller, Making
<1>4. ASSUME NEW h \in Object PROVE Sound(h)'
  BY <1>4 DEF Fields, Objects, Sound, Calls, Maker, Stopper, Caller, Making, Stopping
<1>5. ASSUME NEW x \in Ident PROVE Entry(x)'
  BY <1>5 DEF Fields, Entries, Entry, Calls, Maker, Stopper, Caller, Making, Stopping
<1>6. Room'
  <2>1. Pending' = Pending
    BY <1>0 DEF Pending, Fields
  <2> QED BY <2>1 DEF Room
<1> QED BY <1>1, <1>2, <1>3, <1>4, <1>5, <1>6 DEF Calls, Objects, Entries

\* close() turns to its next instance, or skips it.
LEMMA WalkKeeps ==
  ASSUME SupervisorInductive, NEW t \in Thread,
         NEW i \in todo[t], pc[t] = "next", todo' = [todo EXCEPT ![t] = @ \ {i}],
         \/ UNCHANGED <<pc, ident>>
         \/ ident' = [ident EXCEPT ![t] = id[i]] /\ Goto(t, "get"),
         UNCHANGED <<cur, new, nextGen, then, made, registry, objectVars, leaseVars>>
  PROVE SupervisorInductive'
<1> USE Apart, SupervisorConstants DEF SupervisorInductive, Local, Object, Goto, objectVars,
      leaseVars, localVars
<1>0. Local(t)
  BY DEF Calls
<1>r. i \in Object /\ id[i] \in Ident /\ registry[id[i]] # 0
  BY <1>0 DEF Fields, Walker
<1>1. Fields'
  BY <1>0, <1>r DEF Fields, CreateSteps, StopSteps, Maker, Stopper, Caller, Making, Stopping
<1>2. ASSUME NEW s \in Thread PROVE Local(s)'
  <2>0. Local(s) /\ (s # t /\ new[s] # 0 => new[s] # new[t])
    BY DEF Calls, Distinct
  <2>1. CASE s = t
    <3>1. Maker(s)' /\ Stopper(s)'
      BY <1>0, <2>1, <1>r DEF Fields, Maker, Stopper, Making, Stopping
    <3>2. Caller(s)'
      BY <1>0, <2>1 DEF Fields, Caller, Making
    <3>3. Fresh(s)' /\ Walker(s)'
      BY <1>0, <2>1 DEF Fields, Fresh, Walker
    <3> QED BY <3>1, <3>2, <3>3
  <2>2. CASE s # t
    <3>0. pc'[s] = pc[s] /\ ident'[s] = ident[s]
      BY <2>2 DEF Fields
    <3>1. Maker(s)'
      BY <1>0, <2>0, <2>2, <3>0 DEF Fields, Maker, Stopper, Making, Stopping
    <3>2. Stopper(s)'
      BY <1>0, <2>0, <2>2, <3>0 DEF Fields, Stopper, Maker, Making, Stopping
    <3>3. Caller(s)'
      BY <1>0, <2>0, <2>2, <3>0 DEF Fields, Caller, Making
    <3>4. Fresh(s)'
      BY <1>0, <2>0, <2>2, <3>0 DEF Fields, Fresh, Maker, Making
    <3>5. Walker(s)'
      BY <1>0, <2>0, <2>2, <3>0 DEF Fields, Walker, Maker, Making
    <3> QED BY <3>1, <3>2, <3>3, <3>4, <3>5
  <2> QED BY <2>1, <2>2
<1>3. Distinct'
  BY <1>0, <1>r DEF Fields, Distinct, Calls, Maker, Caller, Making
<1>4. ASSUME NEW h \in Object PROVE Sound(h)'
  BY <1>4, <1>r DEF Fields, Objects, Sound, Calls, Maker, Stopper, Caller, Making, Stopping
<1>5. ASSUME NEW x \in Ident PROVE Entry(x)'
  BY <1>5, <1>r DEF Fields, Entries, Entry, Calls, Maker, Stopper, Caller, Making, Stopping
<1>6. Room'
  <2>1. Pending' = Pending
    BY <1>0 DEF Pending, Fields
  <2> QED BY <2>1 DEF Room
<1> QED BY <1>1, <1>2, <1>3, <1>4, <1>5, <1>6 DEF Calls, Objects, Entries

\* stop() was called by itself: the instance is down.
LEMMA LastKeeps ==
  ASSUME SupervisorInductive, NEW t \in Thread,
         pc[t] = "stopped", state' = [state EXCEPT ![cur[t]] = "stopped"], Leave(t),
         UNCHANGED <<made, registry, id, gen, proc, mon, hasPort, claim, leaseVars>>
  PROVE SupervisorInductive'
<1> USE Apart, SupervisorConstants DEF SupervisorInductive, Local, Object, Goto, Leave,
      objectVars, leaseVars, localVars
<1>0. Local(t)
  BY DEF Calls
<1>1. Fields'
  BY <1>0 DEF Fields, CreateSteps, StopSteps, Maker, Stopper, Caller, Making, Stopping
<1>2. ASSUME NEW s \in Thread PROVE Local(s)'
  <2>0. Local(s) /\ (s # t /\ new[s] # 0 => new[s] # new[t])
    BY DEF Calls, Distinct
  <2>1. CASE s = t
    BY <1>0, <2>1 DEF Fields, Objects, Entries, Sound, Entry, Maker, Stopper, Caller, Fresh,
      Walker, Making, Stopping
  <2>2. CASE s # t
    BY <1>0, <2>0, <2>2 DEF Fields, Maker, Stopper, Caller, Fresh, Walker, Making, Stopping
  <2> QED BY <2>1, <2>2
<1>3. Distinct'
  BY <1>0 DEF Fields, Distinct, Calls, Maker, Caller, Making
<1>4. ASSUME NEW h \in Object PROVE Sound(h)'
  BY <1>4 DEF Fields, Objects, Sound, Calls, Maker, Stopper, Caller, Making, Stopping
<1>5. ASSUME NEW x \in Ident PROVE Entry(x)'
  BY <1>5 DEF Fields, Entries, Entry, Calls, Maker, Stopper, Caller, Making, Stopping
<1>6. Room'
  <2>1. Pending' = Pending \ {t}
    BY <1>0 DEF Pending, Fields
  <2>2. Cardinality(Pending') \in Nat /\ Cardinality(Pending') <= Cardinality(Pending)
    BY <2>1, Counting
  <2> QED BY <2>2, Counting DEF Room, Fields
<1> QED BY <1>1, <1>2, <1>3, <1>4, <1>5, <1>6 DEF Calls, Objects, Entries

\* stop() was called by restart() or close(), which goes on.
LEMMA StoppedKeeps ==
  ASSUME SupervisorInductive, NEW t \in Thread,
         pc[t] = "stopped", state' = [state EXCEPT ![cur[t]] = "stopped"],
         Goto(t, IF then[t] = "restart" THEN "reserve" ELSE "next"), then[t] # "idle",
         UNCHANGED <<localVars, made, registry, id, gen, proc, mon, hasPort, claim, leaseVars>>
  PROVE SupervisorInductive'
<1> USE Apart, SupervisorConstants DEF SupervisorInductive, Local, Object, Goto, objectVars,
      leaseVars, localVars
<1>0. Local(t)
  BY DEF Calls
<1>1. Fields'
  BY <1>0 DEF Fields, CreateSteps, StopSteps, Maker, Stopper, Caller, Making, Stopping
<1>2. ASSUME NEW s \in Thread PROVE Local(s)'
  <2>0. Local(s) /\ (s # t /\ new[s] # 0 => new[s] # new[t])
    BY DEF Calls, Distinct
  <2>1. CASE s = t
    BY <1>0, <2>1 DEF Fields, Objects, Entries, Sound, Entry, Maker, Stopper, Caller, Fresh,
      Walker, Making, Stopping
  <2>2. CASE s # t
    BY <1>0, <2>0, <2>2 DEF Fields, Maker, Stopper, Caller, Fresh, Walker, Making, Stopping
  <2> QED BY <2>1, <2>2
<1>3. Distinct'
  BY <1>0 DEF Fields, Distinct, Calls, Maker, Caller, Making
<1>4. ASSUME NEW h \in Object PROVE Sound(h)'
  BY <1>4 DEF Fields, Objects, Sound, Calls, Maker, Stopper, Caller, Making, Stopping
<1>5. ASSUME NEW x \in Ident PROVE Entry(x)'
  BY <1>5 DEF Fields, Entries, Entry, Calls, Maker, Stopper, Caller, Making, Stopping
<1>6. Room'
  <2>1. Pending' = Pending
    BY <1>0 DEF Pending, Fields
  <2> QED BY <2>1 DEF Room
<1> QED BY <1>1, <1>2, <1>3, <1>4, <1>5, <1>6 DEF Calls, Objects, Entries

\* Leases are about nothing else.
LEMMA LeaseKeeps ==
  ASSUME SupervisorInductive, UNCHANGED <<made, registry, objectVars, pc, localVars>>,
         \/ UNCHANGED leaseVars
         \/ \E x \in Ident : Lease(x) \/ \E k \in Token : ReleaseLease(x, k)
  PROVE  SupervisorInductive'
<1> USE DEF SupervisorInductive, objectVars, localVars, leaseVars
<1>1. Fields'
  BY DEF Fields, Lease, ReleaseLease
<1>2. Calls' /\ Distinct'
  BY DEF Calls, Distinct, Local, Maker, Stopper, Caller, Fresh, Walker
<1>3. Objects' /\ Entries'
  BY DEF Objects, Entries, Sound, Entry
<1>4. Room'
  BY DEF Room, Pending
<1> QED BY <1>1, <1>2, <1>3, <1>4

\* VICE dies by itself.
LEMMA DiesKeeps ==
  ASSUME SupervisorInductive, NEW h \in Object, Dies(h) PROVE SupervisorInductive'
<1> USE DEF SupervisorInductive, Local, leaseVars, localVars, Object, Dies
<1>1. Fields'
  BY DEF Fields
<1>2. ASSUME NEW t \in Thread PROVE Local(t)'
  <2>1. Maker(t)'
    BY DEF Fields, Calls, Maker, Making
  <2>2. Stopper(t)'
    BY DEF Fields, Calls, Stopper, Stopping
  <2> QED BY <2>1, <2>2 DEF Calls, Caller, Fresh, Walker
<1>3. Distinct' /\ Entries' /\ Room'
  BY DEF Distinct, Entries, Entry, Room, Pending
<1>4. ASSUME NEW i \in Object PROVE Sound(i)'
  BY DEF Fields, Objects, Sound
<1> QED BY <1>1, <1>2, <1>3, <1>4 DEF Calls, Objects

-----------------------------------------------------------------------------

\* The steps of create() keep the invariant.
LEMMA CreateKeeps ==
  ASSUME SupervisorInductive, NEW t \in Thread, Create(t) PROVE SupervisorInductive'
<1>1. CASE Reserve(t)
  BY <1>1, MakeKeeps, LeaveKeeps DEF Reserve, objectVars
<1>2. CASE Kill(t)
  BY <1>2, KillKeeps, LeaveKeeps DEF Kill, objectVars
<1>3. CASE Escapes(t)
  BY <1>3, LeaveKeeps DEF Escapes
<1> QED BY <1>1, <1>2, <1>3, CallCreateKeeps, SpawnKeeps, AbandonKeeps, ConnectKeeps,
      StopProbingKeeps,
      RegisterKeeps DEF Create

\* So do those of stop(), restart() and close().
LEMMA StopKeeps ==
  ASSUME SupervisorInductive, NEW t \in Thread, Stop(t) PROVE SupervisorInductive'
<1>1. CASE Wait(t)
  BY <1>1, WaitKeeps, LeaveKeeps DEF Wait, objectVars
<1>2. CASE NextToClose(t)
  <2>1. CASE Leave(t)
    BY <1>2, <2>1, LeaveKeeps DEF NextToClose
  <2>2. CASE ~Leave(t)
    BY <1>2, <2>2, WalkKeeps DEF NextToClose
  <2> QED BY <2>1, <2>2
<1>3. CASE Stopped(t)
  BY <1>3, LastKeeps, StoppedKeeps DEF Stopped
<1>4. CASE GiveBack(t)
  BY <1>4, GiveKeeps, LeaveKeeps DEF GiveBack, objectVars
<1> QED BY <1>1, <1>2, <1>3, <1>4, CallStopKeeps, CallRestartKeeps, CallCloseKeeps, GetKeeps,
      DisconnectKeeps, TerminateKeeps, ReleaseKeeps, ClearKeeps DEF Stop

\* It holds before the first call.
LEMMA SupervisorBegins == ASSUME Init PROVE SupervisorInductive
<1>1. Fields
  BY SupervisorConstants DEF Init, Fields, Object
<1>2. Calls /\ Distinct
  BY DEF Init, Calls, Distinct, Local, Maker, Stopper, Caller, Fresh, Walker, Making, Stopping
<1>3. Objects /\ Entries
  BY DEF Init, Objects, Entries, Sound, Entry, Object
<1>4. Pending = {}
  BY DEF Init, Pending
<1>5. Room
  BY <1>4, FS_EmptySet, SupervisorConstants DEF Init, Room
<1> QED BY <1>1, <1>2, <1>3, <1>5 DEF SupervisorInductive

\* A step of the supervisor, of its callers or of VICE keeps the invariant.
LEMMA SupervisorKeeps == ASSUME SupervisorInductive, [Next]_vars PROVE SupervisorInductive'
<1>1. CASE UNCHANGED vars
  BY <1>1, LeaseKeeps DEF vars
<1>2. CASE \E x \in Ident : Lease(x) \/ \E k \in Token : ReleaseLease(x, k)
  <2>1. UNCHANGED <<made, registry, objectVars, pc, localVars>>
    BY <1>2 DEF Lease, ReleaseLease
  <2> QED BY <1>2, <2>1, LeaseKeeps
<1>3. CASE \E t \in Thread : Create(t) \/ Stop(t)
  BY <1>3, CreateKeeps, StopKeeps
<1>4. CASE \E h \in Object : Dies(h)
  BY <1>4, DiesKeeps
<1> QED BY <1>1, <1>2, <1>3, <1>4 DEF Next

\* The invariant holds however many callers use the supervisor at once, and whatever
\* becomes of the processes.
THEOREM SupervisorInvariance == Spec => []SupervisorInductive
<1>1. Init => SupervisorInductive
  BY SupervisorBegins
<1>2. SupervisorInductive /\ [Next]_vars => SupervisorInductive'
  BY SupervisorKeeps
<1> QED BY <1>1, <1>2, PTL DEF Spec

\* Every variable of the supervisor keeps its type; the bound on objects is never passed.
THEOREM SupervisorTyping == Spec => []TypeOK
<1> DEFINE States == {"none", "starting", "running", "failed", "stopped"}
           Stated == state \in [Object -> States]
<1>1. Init => Stated
  BY DEF Init
<1>2. Stated /\ [Next]_vars => Stated'
  <2> SUFFICES ASSUME Stated, [Next]_vars PROVE Stated'
    OBVIOUS
  <2>1. state' = state \/ \E h, v : v \in States /\ state' = [state EXCEPT ![h] = v]
    BY DEF Next, vars, objectVars, Create, Stop, CallCreate, Reserve, Escapes, Spawn, Abandon, Connect,
      StopProbing, Kill, Register, CallStop, CallRestart, Restarts, CallClose, NextToClose, Get,
      Disconnect, Terminate, Wait, Release, GiveBack, Clear, Stopped, Lease, ReleaseLease, Dies
  <2> QED BY <2>1
<1>3. SupervisorInductive /\ Stated => TypeOK
  BY DEF SupervisorInductive, Fields, TypeOK
<1> QED BY <1>1, <1>2, <1>3, SupervisorInvariance, PTL DEF Spec

\* A running VICE has its port leased, whoever stops, restarts or closes at the same time.
THEOREM PortsLeased == Spec => []PortLeasedWhileRunning
<1>1. SupervisorInductive => PortLeasedWhileRunning
  BY DEF SupervisorInductive, Objects, Sound, PortLeasedWhileRunning
<1> QED BY <1>1, SupervisorInvariance, PTL

\* What is called stopped has neither a process nor a connection nor a port, and never
\* gets them again.
THEOREM StoppedStaysDown == Spec => []StoppedIsDown
<1>1. SupervisorInductive => StoppedIsDown
  BY DEF SupervisorInductive, Objects, Sound, StoppedIsDown
<1> QED BY <1>1, SupervisorInvariance, PTL

-----------------------------------------------------------------------------
(* The ports.  The supervisor is one of the users of PortRegistry, which PortAllocator
   implements: its leases are the reservations that the objects hold. *)

Leased ==
  {[by |-> "supervisor", port |-> claim[h], tok |-> h] : h \in {g \in Object : claim[g] # None}}

Ports == INSTANCE PortRegistry
           WITH issued <- Leased, Allocator <- {"supervisor"}, Proc <- {}, ProcOf <- [a \in {} |-> a],
                Token <- Object

\* No two objects hold the same port.
Unshared == \A g, h \in Object : claim[g] # None /\ claim[g] = claim[h] => g = h

\* A lease is taken on a port without one, for an object that has none.
Takes ==
  \E h \in Object, p \in Port :
    /\ claim[h] = None /\ (\A g \in Object : claim[g] # p)
    /\ claim' = [claim EXCEPT ![h] = p]

\* The lease of an object is given back.
GivesBack == \E h \in Object : claim' = [claim EXCEPT ![h] = None]

\* A step of the supervisor takes one lease, gives one back or leaves them alone.
LEMMA ClaimStep ==
  ASSUME SupervisorInductive, [Next]_vars PROVE Takes \/ GivesBack \/ claim' = claim
<1>1. ASSUME NEW t \in Thread, Reserve(t), claim' # claim PROVE Takes
  <2>1. PICK p \in Port : /\ \A g \in Object : claim[g] # p
                          /\ made' = made + 1 /\ claim' = [claim EXCEPT ![made'] = p]
    BY <1>1 DEF Reserve
  <2>2. made + 1 \in Object /\ claim[made + 1] = None
    <3>1. t \in Pending
      BY <1>1 DEF Reserve, SupervisorInductive, Calls, Local, Pending, Fields, Caller, Making
    <3>2. Cardinality(Pending) \in Nat /\ Cardinality(Pending) - 1 \in Nat
      BY <3>1, Counting
    <3>3. made \in Nat /\ made + 1 <= MaxObject
      BY <3>2, SupervisorConstants DEF SupervisorInductive, Room, Fields
    <3> QED BY <3>3, SupervisorConstants DEF SupervisorInductive, Objects, Sound, Object
  <2> QED BY <2>1, <2>2 DEF Takes
<1>2. ASSUME NEW t \in Thread, Abandon(t) PROVE GivesBack
  <2>1. new[t] \in 1 .. made
    BY <1>2 DEF Abandon, SupervisorInductive, Calls, Local, Maker, Making
  <2> QED BY <1>2, <2>1, MadeAreObjects DEF Abandon, GivesBack
<1>3. ASSUME NEW t \in Thread, GiveBack(t) PROVE GivesBack \/ claim' = claim
  <2>1. cur[t] \in 1 .. made
    BY <1>3 DEF GiveBack, SupervisorInductive, Calls, Local, Stopper, Stopping
  <2> QED BY <1>3, <2>1, MadeAreObjects DEF GiveBack, GivesBack
<1>4. ASSUME NEW t \in Thread, Create(t) \/ Stop(t), ~Reserve(t), ~Abandon(t), ~GiveBack(t)
      PROVE  claim' = claim
  BY <1>4 DEF Create, Stop, CallCreate, Escapes, Spawn, Connect, StopProbing, Kill, Register, CallStop,
    CallRestart, Restarts, CallClose, NextToClose, Get, Disconnect, Terminate, Wait, Release, Clear,
    Stopped, objectVars
<1>5. ASSUME ~(\E t \in Thread : Create(t) \/ Stop(t)) PROVE claim' = claim
  BY <1>5 DEF Next, vars, Lease, ReleaseLease, Dies, objectVars
<1> QED BY <1>1, <1>2, <1>3, <1>4, <1>5

\* Seen in the registry, these are its steps.
LEMMA LeasedStep ==
  ASSUME SupervisorInductive, Takes \/ GivesBack \/ claim' = claim PROVE [Ports!Next]_Leased
<1> DEFINE Of(h, p) == [by |-> "supervisor", port |-> p, tok |-> h]
<1>0. claim \in [Object -> Port \cup {None}] /\ None \notin Port
  BY Apart DEF SupervisorInductive, Fields
<1>1. CASE Takes
  <2>1. PICK h \in Object, p \in Port :
          /\ claim[h] = None /\ (\A g \in Object : claim[g] # p)
          /\ claim' = [claim EXCEPT ![h] = p]
    BY <1>1 DEF Takes
  <2>2. Leased' = Leased \cup {Of(h, p)}
    <3>1. \A g \in Object : claim'[g] = IF g = h THEN p ELSE claim[g]
      BY <1>0, <2>1
    <3> QED BY <1>0, <2>1, <3>1 DEF Leased
  <2>3. Of(h, p) \in Ports!Entry /\ \A f \in Leased : f.port # p
    BY <2>1 DEF Leased, Ports!Entry
  <2> QED BY <2>2, <2>3 DEF Ports!Next, Ports!Grant
<1>2. CASE GivesBack
  <2>1. PICK h \in Object : claim' = [claim EXCEPT ![h] = None]
    BY <1>2 DEF GivesBack
  <2>2. \A g \in Object : claim'[g] = IF g = h THEN None ELSE claim[g]
    BY <1>0, <2>1
  <2>3. CASE claim[h] = None
    <3>1. claim' = claim
      BY <1>0, <2>1, <2>3
    <3> QED BY <3>1 DEF Leased
  <2>4. CASE claim[h] # None
    <3>1. Of(h, claim[h]) \in Leased
      BY <2>4 DEF Leased
    <3>2. Leased' = Leased \ {Of(h, claim[h])}
      BY <2>2 DEF Leased
    <3> QED BY <3>1, <3>2 DEF Ports!Next, Ports!Return
  <2> QED BY <2>3, <2>4
<1>3. CASE claim' = claim
  BY <1>3 DEF Leased
<1> QED BY <1>1, <1>2, <1>3

\* The supervisor uses the ports as PortAllocator lets it: every port its objects get it has
\* been granted while nobody held it, and it gives each lease back once.
THEOREM UsesRegistry == Spec => Ports!Spec
<1>1. Init => Ports!Init
  BY DEF Init, Leased, Ports!Init
<1>2. SupervisorInductive /\ [Next]_vars => [Ports!Next]_Leased
  BY ClaimStep, LeasedStep
<1> QED BY <1>1, <1>2, SupervisorInvariance, PTL DEF Spec, Ports!Spec

\* A lease that is taken or given back is shared with nobody.
LEMMA UnsharedKept ==
  ASSUME SupervisorInductive, Unshared, Takes \/ GivesBack \/ claim' = claim PROVE Unshared'
<1>0. claim \in [Object -> Port \cup {None}] /\ None \notin Port
  BY Apart DEF SupervisorInductive, Fields
<1>1. CASE Takes
  BY <1>0, <1>1 DEF Takes, Unshared
<1>2. CASE GivesBack
  BY <1>0, <1>2 DEF GivesBack, Unshared
<1>3. CASE claim' = claim
  BY <1>3 DEF Unshared
<1> QED BY <1>1, <1>2, <1>3

\* Two VICE processes never have the same monitor port: not the old and the new one of a
\* restart, nor two that a stop() and a create() of different threads handle at once.
THEOREM PortsApart ==
  Spec => [](Unshared /\ \A g, h \in Object :
                           proc[g] = "alive" /\ proc[h] = "alive" /\ claim[g] = claim[h] => g = h)
<1>1. Init => Unshared
  BY DEF Init, Unshared
<1>2. SupervisorInductive /\ Unshared /\ [Next]_vars => Unshared'
  BY ClaimStep, UnsharedKept
<1>3. SupervisorInductive /\ Unshared =>
        \A g, h \in Object :
          proc[g] = "alive" /\ proc[h] = "alive" /\ claim[g] = claim[h] => g = h
  BY DEF SupervisorInductive, Objects, Sound, Unshared
<1> QED BY <1>1, <1>2, <1>3, SupervisorInvariance, PTL DEF Spec

-----------------------------------------------------------------------------
(* Calls about different instances.  Nothing keeps two calls of the supervisor from being about
   the same id at once, and then they may lose an instance, its port or its generation.  What
   follows is what callers get that see to it that this does not happen (Separate). *)

\* The instance a create() supersedes is down and its generation passed.
Superseded(h, g) == h # 0 => proc[h] # "alive" /\ claim[h] = None /\ gen[h] < g
Successor(t) ==
  pc[t] \in {"reserve"} \cup Making => Superseded(registry[ident[t]], nextGen[t])

\* The generation of the object made is the one restart() read, plus one.
Numbered(t) ==
  /\ pc[t] \in Making => gen[new[t]] = nextGen[t]
  /\ then[t] = "restart" /\ (pc[t] = "get" \/ pc[t] \in Stopping)
       => gen[registry[ident[t]]] < nextGen[t]

\* stop() is about the object registered now, and a close() returns to its list.
Current(t) ==
  /\ pc[t] \in Stopping => cur[t] = registry[ident[t]]
  /\ pc[t] = "next" => then[t] = "next"

Owner(t) == Successor(t) /\ Numbered(t) /\ Current(t)
Owners == \A t \in Thread : Owner(t)

\* A process that outlives SIGKILL is lost by the create() that waits for it.
Reachable == (~SlowKill => ProcessesOwned) /\ ClaimsReachable

\* An object is "starting" for good, unless the call that makes it says otherwise.
Starting == \A h \in Object : state[h] = "starting" => state'[h] = "starting"

SeparateInductive == Owners /\ Reachable

-----------------------------------------------------------------------------

\* A thread that calls nothing owns nothing.
LEMMA IdleOwns ==
  ASSUME SupervisorInductive', NEW s \in Thread, pc'[s] = "idle" PROVE Owner(s)'
<1>1. Caller(s)'
  BY DEF SupervisorInductive, Calls, Local
<1> QED BY <1>1 DEF Caller, Owner, Successor, Numbered, Current, Making, Stopping

\* The locals of a thread.
LocalsOf(s) == <<pc[s], ident[s], cur[s], new[s], nextGen[s], then[s], todo[s]>>

\* A step of a call leaves the locals of the others alone.
LEMMA OthersLocals ==
  ASSUME SupervisorInductive, NEW t \in Thread, Create(t) \/ Stop(t), NEW s \in Thread, s # t
  PROVE  LocalsOf(s)' = LocalsOf(s)
<1>0. Fields
  BY DEF SupervisorInductive
<1>1. CASE Create(t)
  BY <1>0, <1>1 DEF Create, CallCreate, Reserve, Escapes, Spawn, Abandon, Connect, StopProbing, Kill, Register, Goto,
    Leave, localVars, LocalsOf, Fields
<1>2. CASE Stop(t)
  <2>1. CASE NextToClose(t)
    BY <1>0, <2>1 DEF NextToClose, Goto, Leave, LocalsOf, Fields
  <2>2. CASE ~NextToClose(t)
    BY <1>0, <1>2, <2>2 DEF Stop, CallStop, CallRestart, Restarts, CallClose, Get, Disconnect,
      Terminate, Wait, Release, GiveBack, Clear, Stopped, Goto, Leave, localVars, LocalsOf, Fields
  <2> QED BY <2>1, <2>2
<1> QED BY <1>1, <1>2

\* It registers an object under its own id only, once it has made one.
LEMMA OthersRegistry ==
  ASSUME SupervisorInductive, NEW t \in Thread, Create(t) \/ Stop(t)
  PROVE  \/ registry' = registry
         \/ pc[t] \in Making /\ registry' = [registry EXCEPT ![ident[t]] = new[t]]
<1>1. CASE Create(t)
  BY <1>1 DEF Create, CallCreate, Reserve, Escapes, Spawn, Abandon, Connect, StopProbing, Kill, Register, Making
<1>2. CASE Stop(t)
  BY <1>2 DEF Stop, CallStop, CallRestart, Restarts, CallClose, NextToClose, Get, Disconnect, Terminate, Wait,
    Release, GiveBack, Clear, Stopped
<1> QED BY <1>1, <1>2

\* It starts no process of an object that is not being made, nor gives such an object a port; and
\* an object keeps its generation.
LEMMA OthersObjects ==
  ASSUME SupervisorInductive, NEW t \in Thread, Create(t) \/ Stop(t), NEW h \in Object, h <= made
  PROVE  /\ gen'[h] = gen[h]
         /\ state[h] # "starting" => /\ proc'[h] = "alive" => proc[h] = "alive"
                                     /\ claim'[h] # None => claim[h] # None
<1>0. Fields /\ Local(t)
  BY DEF SupervisorInductive, Calls
<1>1. CASE Reserve(t)
  <2>1. h # made + 1
    BY <1>0 DEF Fields, Object
  <2>2. \/ UNCHANGED <<gen, claim>>
        \/ \E p : /\ gen' = [gen EXCEPT ![made + 1] = nextGen[t]] /\ claim' = [claim EXCEPT ![made + 1] = p]
    BY <1>1 DEF Reserve
  <2>3. proc' = proc
    BY <1>1 DEF Reserve
  <2> QED BY <1>0, <2>1, <2>2, <2>3 DEF Fields
<1>2. CASE Spawn(t)
  <2>1. state[new[t]] = "starting"
    BY <1>0, <1>2 DEF Spawn, Local, Maker, Making
  <2> QED BY <1>0, <1>2, <2>1 DEF Spawn, Fields
<1>3. CASE Create(t) /\ ~Reserve(t) /\ ~Spawn(t)
  BY <1>0, <1>3 DEF Create, CallCreate, Escapes, Abandon, Connect, StopProbing, Kill, Register,
    objectVars, Fields
<1>4. CASE Stop(t)
  BY <1>0, <1>4 DEF Stop, CallStop, CallRestart, Restarts, CallClose, NextToClose, Get, Disconnect,
    Terminate, Wait, Release, GiveBack, Clear, Stopped, objectVars, Fields
<1> QED BY <1>1, <1>2, <1>3, <1>4

\* So that a call owns what it has owned when another takes a step.
LEMMA OthersOwn ==
  ASSUME SupervisorInductive, SeparateInductive, Separate, NEW t \in Thread, Create(t) \/ Stop(t),
         NEW s \in Thread, s # t
  PROVE  Owner(s)'
<1>0. Fields /\ Entries /\ Local(s) /\ Owner(s)
  BY DEF SupervisorInductive, SeparateInductive, Calls, Owners
<1>1. LocalsOf(s)' = LocalsOf(s)
  BY OthersLocals
<1>2. About(s) /\ ident[s] \in Ident => registry'[ident[s]] = registry[ident[s]]
  <2>1. About(s) /\ pc[t] \in Making => ident[s] # ident[t]
    BY DEF Separate, About, Making
  <2> QED BY <1>0, <2>1, OthersRegistry DEF Fields
<1>3. ident[s] \in Ident /\ registry[ident[s]] # 0 =>
        /\ gen'[registry[ident[s]]] = gen[registry[ident[s]]]
        /\ proc'[registry[ident[s]]] = "alive" => proc[registry[ident[s]]] = "alive"
        /\ claim'[registry[ident[s]]] # None => claim[registry[ident[s]]] # None
  <2>1. ASSUME NEW h \in Object, h <= made, state[h] # "starting"
        PROVE  /\ gen'[h] = gen[h]
               /\ proc'[h] = "alive" => proc[h] = "alive"
               /\ claim'[h] # None => claim[h] # None
    BY <2>1, OthersObjects
  <2>2. ASSUME NEW x \in Ident, registry[x] # 0
        PROVE  registry[x] \in Object /\ registry[x] <= made /\ state[registry[x]] # "starting"
    BY <1>0, <2>2 DEF Fields, Entries, Entry, Object
  <2> QED BY <2>1, <2>2
<1>4. pc[s] \in Making => gen'[new[s]] = gen[new[s]]
  <2> SUFFICES ASSUME pc[s] \in Making PROVE gen'[new[s]] = gen[new[s]]
    OBVIOUS
  <2>1. new[s] \in Object /\ new[s] <= made
    BY <1>0, MadeAreObjects DEF Local, Maker
  <2> QED BY <2>1, OthersObjects
<1>5. pc[s] = "reserve" \/ pc[s] = "get" \/ pc[s] \in Making \cup Stopping => ident[s] \in Ident
  BY <1>0 DEF Local, Maker, Stopper, Caller
<1>6. Successor(s)'
  BY <1>0, <1>1, <1>2, <1>3, <1>5 DEF LocalsOf, Owner, Successor, Superseded, Making, About
<1>7. Numbered(s)'
  <2>1. pc'[s] \in Making => gen'[new'[s]] = nextGen'[s]
    BY <1>0, <1>1, <1>4 DEF LocalsOf, Owner, Numbered
  <2>2. ASSUME then'[s] = "restart", pc'[s] = "get" \/ pc'[s] \in Stopping
        PROVE  gen'[registry'[ident'[s]]] < nextGen'[s]
    <3>1. registry[ident[s]] # 0 /\ ident[s] \in Ident
      BY <1>0, <1>1, <2>2 DEF LocalsOf, Local, Stopper
    <3> QED BY <1>0, <1>1, <1>2, <1>3, <2>2, <3>1 DEF LocalsOf, Owner, Numbered, Stopping, About
  <2> QED BY <2>1, <2>2 DEF Numbered
<1>8. Current(s)'
  BY <1>0, <1>1, <1>2, <1>5 DEF LocalsOf, Owner, Current, Stopping, About
<1> QED BY <1>6, <1>7, <1>8 DEF Owner

\* A step that registers nothing loses no process and no port.
LEMMA Keeping ==
  ASSUME SeparateInductive, registry' = registry, Starting,
         \A h \in Object :
           /\ BeingMade(h) => BeingMade(h)'
           /\ proc'[h] = "alive" => proc[h] = "alive" \/ BeingMade(h)'
           /\ claim'[h] # None =>
                (claim[h] # None /\ (hasPort[h] => hasPort'[h])) \/ BeingMade(h)'
  PROVE  Reachable'
<1>1. \A h \in Object : Registered(h)' <=> Registered(h)
  BY DEF Registered
<1>2. (~SlowKill => ProcessesOwned)'
  BY <1>1 DEF SeparateInductive, Reachable, ProcessesOwned
<1>3. ClaimsReachable'
  BY <1>1 DEF SeparateInductive, Reachable, ClaimsReachable, Stranded, Starting
<1> QED BY <1>2, <1>3 DEF Reachable

\* The objects being made are those that the locals new name.
LEMMA Makers == ASSUME new' = new, NEW h PROVE BeingMade(h)' <=> BeingMade(h)
  BY DEF BeingMade

\* A call that makes nothing leaves them as they are when it ends.
LEMMA LeaveMakers ==
  ASSUME SupervisorInductive, NEW t \in Thread, Leave(t), pc[t] \notin Making PROVE new' = new
<1>1. new[t] = 0
  BY DEF SupervisorInductive, Calls, Local, Caller
<1> QED BY <1>1 DEF Leave, SupervisorInductive, Fields

\* create() begins, for an id nobody has.
LEMMA CallCreateOwns ==
  ASSUME SupervisorInductive, SeparateInductive, SupervisorInductive', NEW t \in Thread,
         CallCreate(t)
  PROVE  Owner(t)' /\ Reachable'
<1> USE Apart DEF CallCreate, Goto, objectVars, leaseVars, localVars, Local, Object
<1>0. Fields /\ Local(t) /\ Owner(t) /\ Entries /\ Objects
  BY DEF SupervisorInductive, SeparateInductive, Calls, Owners
<1>1. Owner(t)'
  BY <1>0 DEF Fields, Maker, Stopper, Caller, Owner, Successor, Superseded, Numbered, Current, Making, Stopping
<1>2. Reachable'
  BY <1>0, Keeping, Makers DEF Fields, Starting
<1> QED BY <1>1, <1>2

\* VICE is started, for the object being made.
LEMMA SpawnOwns ==
  ASSUME SupervisorInductive, SeparateInductive, SupervisorInductive', NEW t \in Thread,
         Spawn(t)
  PROVE  Owner(t)' /\ Reachable'
<1> USE Apart DEF Spawn, Goto, objectVars, leaseVars, localVars, Local, Object
<1>0. Fields /\ Local(t) /\ Owner(t) /\ Entries /\ Objects
  BY DEF SupervisorInductive, SeparateInductive, Calls, Owners
<1>1. Owner(t)'
  BY <1>0 DEF Fields, Maker, Stopper, Caller, Owner, Successor, Superseded, Numbered, Current, Making, Stopping, Entries, Entry
<1>2. Reachable'
  <2>1. BeingMade(new[t])'
    BY DEF BeingMade
  <2> QED BY <1>0, <2>1, Keeping, Makers DEF Fields, Starting
<1> QED BY <1>1, <1>2

\* VICE accepts the connection.
LEMMA ConnectOwns ==
  ASSUME SupervisorInductive, SeparateInductive, SupervisorInductive', NEW t \in Thread,
         Connect(t)
  PROVE  Owner(t)' /\ Reachable'
<1> USE Apart DEF Connect, Goto, objectVars, leaseVars, localVars, Local, Object
<1>0. Fields /\ Local(t) /\ Owner(t) /\ Entries /\ Objects
  BY DEF SupervisorInductive, SeparateInductive, Calls, Owners
<1>1. Owner(t)'
  BY <1>0 DEF Fields, Maker, Stopper, Caller, Owner, Successor, Superseded, Numbered, Current, Making, Stopping
<1>2. Reachable'
  BY <1>0, Keeping, Makers DEF Fields, Starting
<1> QED BY <1>1, <1>2

\* The startup loop gives up.
LEMMA StopProbingOwns ==
  ASSUME SupervisorInductive, SeparateInductive, SupervisorInductive', NEW t \in Thread,
         StopProbing(t)
  PROVE  Owner(t)' /\ Reachable'
<1> USE Apart DEF StopProbing, Goto, objectVars, leaseVars, localVars, Local, Object
<1>0. Fields /\ Local(t) /\ Owner(t) /\ Entries /\ Objects
  BY DEF SupervisorInductive, SeparateInductive, Calls, Owners
<1>1. Owner(t)'
  BY <1>0 DEF Fields, Maker, Stopper, Caller, Owner, Successor, Superseded, Numbered, Current, Making, Stopping
<1>2. Reachable'
  BY <1>0, Keeping, Makers DEF Fields, Starting
<1> QED BY <1>1, <1>2

\* The process of a failed start is down.
LEMMA KillOwns ==
  ASSUME SupervisorInductive, SeparateInductive, SupervisorInductive', NEW t \in Thread,
         pc[t] = "kill", proc' = [proc EXCEPT ![new[t]] = "dead"], Goto(t, "abandon"),
         UNCHANGED <<localVars, made, registry, id, gen, state, mon, hasPort, claim, leaseVars>>
  PROVE  Owner(t)' /\ Reachable'
<1> USE Apart DEF Goto, objectVars, leaseVars, localVars, Local, Object
<1>0. Fields /\ Local(t) /\ Owner(t) /\ Entries /\ Objects
  BY DEF SupervisorInductive, SeparateInductive, Calls, Owners
<1>1. Owner(t)'
  BY <1>0 DEF Fields, Maker, Stopper, Caller, Owner, Successor, Superseded, Numbered, Current, Making, Stopping
<1>2. Reachable'
  BY <1>0, Keeping, Makers DEF Fields, Starting
<1> QED BY <1>1, <1>2

\* stop() is called.
LEMMA CallStopOwns ==
  ASSUME SupervisorInductive, SeparateInductive, SupervisorInductive', NEW t \in Thread,
         CallStop(t)
  PROVE  Owner(t)' /\ Reachable'
<1> USE Apart DEF CallStop, Goto, objectVars, leaseVars, localVars, Local, Object
<1>0. Fields /\ Local(t) /\ Owner(t) /\ Entries /\ Objects
  BY DEF SupervisorInductive, SeparateInductive, Calls, Owners
<1>1. Owner(t)'
  BY <1>0 DEF Fields, Maker, Stopper, Caller, Owner, Successor, Superseded, Numbered, Current, Making, Stopping
<1>2. Reachable'
  BY <1>0, Keeping, Makers DEF Fields, Starting
<1> QED BY <1>1, <1>2

\* restart() reads the generation.
LEMMA CallRestartOwns ==
  ASSUME SupervisorInductive, SeparateInductive, SupervisorInductive', NEW t \in Thread,
         CallRestart(t)
  PROVE  Owner(t)' /\ Reachable'
<1> USE Apart DEF CallRestart, Restarts, Goto, objectVars, leaseVars, localVars, Local, Object
<1>0. Fields /\ Local(t) /\ Owner(t) /\ Entries /\ Objects
  BY DEF SupervisorInductive, SeparateInductive, Calls, Owners
<1>1. Owner(t)'
  BY <1>0 DEF Fields, Maker, Stopper, Caller, Owner, Successor, Superseded, Numbered, Current, Making, Stopping
<1>2. Reachable'
  BY <1>0, Keeping, Makers DEF Fields, Starting
<1> QED BY <1>1, <1>2

\* close() lists what is registered.
LEMMA CallCloseOwns ==
  ASSUME SupervisorInductive, SeparateInductive, SupervisorInductive', NEW t \in Thread,
         CallClose(t)
  PROVE  Owner(t)' /\ Reachable'
<1> USE Apart DEF CallClose, Goto, objectVars, leaseVars, localVars, Local, Object
<1>0. Fields /\ Local(t) /\ Owner(t) /\ Entries /\ Objects
  BY DEF SupervisorInductive, SeparateInductive, Calls, Owners
<1>1. Owner(t)'
  BY <1>0 DEF Fields, Maker, Stopper, Caller, Owner, Successor, Superseded, Numbered, Current, Making, Stopping
<1>2. Reachable'
  BY <1>0, Keeping, Makers DEF Fields, Starting
<1> QED BY <1>1, <1>2

\* stop() looks the instance up.
LEMMA GetOwns ==
  ASSUME SupervisorInductive, SeparateInductive, SupervisorInductive', NEW t \in Thread,
         Get(t)
  PROVE  Owner(t)' /\ Reachable'
<1> USE Apart DEF Get, Goto, objectVars, leaseVars, localVars, Local, Object
<1>0. Fields /\ Local(t) /\ Owner(t) /\ Entries /\ Objects
  BY DEF SupervisorInductive, SeparateInductive, Calls, Owners
<1>1. Owner(t)'
  BY <1>0 DEF Fields, Maker, Stopper, Caller, Owner, Successor, Superseded, Numbered, Current, Making, Stopping
<1>2. Reachable'
  BY <1>0, Keeping, Makers DEF Fields, Starting
<1> QED BY <1>1, <1>2

\* stop() closes the connection.
LEMMA DisconnectOwns ==
  ASSUME SupervisorInductive, SeparateInductive, SupervisorInductive', NEW t \in Thread,
         Disconnect(t)
  PROVE  Owner(t)' /\ Reachable'
<1> USE Apart DEF Disconnect, Goto, objectVars, leaseVars, localVars, Local, Object
<1>0. Fields /\ Local(t) /\ Owner(t) /\ Entries /\ Objects
  BY DEF SupervisorInductive, SeparateInductive, Calls, Owners
<1>1. Owner(t)'
  BY <1>0 DEF Fields, Maker, Stopper, Caller, Owner, Successor, Superseded, Numbered, Current, Making, Stopping
<1>2. Reachable'
  BY <1>0, Keeping, Makers DEF Fields, Starting
<1> QED BY <1>1, <1>2

\* stop() polls the process.
LEMMA TerminateOwns ==
  ASSUME SupervisorInductive, SeparateInductive, SupervisorInductive', NEW t \in Thread,
         Terminate(t)
  PROVE  Owner(t)' /\ Reachable'
<1> USE Apart DEF Terminate, Goto, objectVars, leaseVars, localVars, Local, Object
<1>0. Fields /\ Local(t) /\ Owner(t) /\ Entries /\ Objects
  BY DEF SupervisorInductive, SeparateInductive, Calls, Owners
<1>1. Owner(t)'
  BY <1>0 DEF Fields, Maker, Stopper, Caller, Owner, Successor, Superseded, Numbered, Current, Making, Stopping
<1>2. Reachable'
  BY <1>0, Keeping, Makers DEF Fields, Starting
<1> QED BY <1>1, <1>2

\* The process stop() waits for is down.
LEMMA WaitOwns ==
  ASSUME SupervisorInductive, SeparateInductive, SupervisorInductive', NEW t \in Thread,
         pc[t] = "wait", proc' = [proc EXCEPT ![cur[t]] = "dead"], Goto(t, "release"),
         UNCHANGED <<localVars, made, registry, id, gen, state, mon, hasPort, claim, leaseVars>>
  PROVE  Owner(t)' /\ Reachable'
<1> USE Apart DEF Goto, objectVars, leaseVars, localVars, Local, Object
<1>0. Fields /\ Local(t) /\ Owner(t) /\ Entries /\ Objects
  BY DEF SupervisorInductive, SeparateInductive, Calls, Owners
<1>1. Owner(t)'
  BY <1>0 DEF Fields, Maker, Stopper, Caller, Owner, Successor, Superseded, Numbered, Current, Making, Stopping
<1>2. Reachable'
  BY <1>0, Keeping, Makers DEF Fields, Starting
<1> QED BY <1>1, <1>2

\* stop() looks whether there is a port to give back.
LEMMA ReleaseOwns ==
  ASSUME SupervisorInductive, SeparateInductive, SupervisorInductive', NEW t \in Thread,
         Release(t)
  PROVE  Owner(t)' /\ Reachable'
<1> USE Apart DEF Release, Goto, objectVars, leaseVars, localVars, Local, Object
<1>0. Fields /\ Local(t) /\ Owner(t) /\ Entries /\ Objects
  BY DEF SupervisorInductive, SeparateInductive, Calls, Owners
<1>1. Owner(t)'
  BY <1>0 DEF Fields, Maker, Stopper, Caller, Owner, Successor, Superseded, Numbered, Current, Making, Stopping
<1>2. Reachable'
  BY <1>0, Keeping, Makers DEF Fields, Starting
<1> QED BY <1>1, <1>2

\* stop() gives the port back.
LEMMA GiveOwns ==
  ASSUME SupervisorInductive, SeparateInductive, SupervisorInductive', NEW t \in Thread,
         pc[t] = "give", claim' = [claim EXCEPT ![cur[t]] = None], Goto(t, "clear"),
         UNCHANGED <<localVars, made, registry, id, gen, state, proc, mon, hasPort, leaseVars>>
  PROVE  Owner(t)' /\ Reachable'
<1> USE Apart DEF Goto, objectVars, leaseVars, localVars, Local, Object
<1>0. Fields /\ Local(t) /\ Owner(t) /\ Entries /\ Objects
  BY DEF SupervisorInductive, SeparateInductive, Calls, Owners
<1>1. Owner(t)'
  BY <1>0 DEF Fields, Maker, Stopper, Caller, Owner, Successor, Superseded, Numbered, Current, Making, Stopping
<1>2. Reachable'
  <2>1. ASSUME NEW h \in Object, claim'[h] # None PROVE claim[h] # None /\ (hasPort[h] => hasPort'[h])
    BY <1>0, <2>1 DEF Fields
  <2> QED BY <1>0, <2>1, Keeping, Makers DEF Fields, Starting
<1> QED BY <1>1, <1>2

\* stop() forgets the reservation.
LEMMA ClearOwns ==
  ASSUME SupervisorInductive, SeparateInductive, SupervisorInductive', NEW t \in Thread,
         Clear(t)
  PROVE  Owner(t)' /\ Reachable'
<1> USE Apart DEF Clear, Goto, objectVars, leaseVars, localVars, Local, Object
<1>0. Fields /\ Local(t) /\ Owner(t) /\ Entries /\ Objects
  BY DEF SupervisorInductive, SeparateInductive, Calls, Owners
<1>1. Owner(t)'
  BY <1>0 DEF Fields, Maker, Stopper, Caller, Owner, Successor, Superseded, Numbered, Current, Making, Stopping
<1>2. Reachable'
  <2>1. ASSUME NEW h \in Object, claim'[h] # None PROVE claim[h] # None /\ (hasPort[h] => hasPort'[h])
    BY <1>0, <2>1 DEF Fields, Stopper
  <2> QED BY <1>0, <2>1, Keeping, Makers DEF Fields, Starting
<1> QED BY <1>1, <1>2

\* stop() was called by restart() or close(), which goes on.
LEMMA StoppedOwns ==
  ASSUME SupervisorInductive, SeparateInductive, SupervisorInductive', NEW t \in Thread,
         pc[t] = "stopped", state' = [state EXCEPT ![cur[t]] = "stopped"],
         Goto(t, IF then[t] = "restart" THEN "reserve" ELSE "next"), then[t] # "idle",
         UNCHANGED <<localVars, made, registry, id, gen, proc, mon, hasPort, claim, leaseVars>>
  PROVE  Owner(t)' /\ Reachable'
<1> USE Apart DEF Goto, objectVars, leaseVars, localVars, Local, Object
<1>0. Fields /\ Local(t) /\ Owner(t) /\ Entries /\ Objects
  BY DEF SupervisorInductive, SeparateInductive, Calls, Owners
<1>1. Owner(t)'
  BY <1>0 DEF Fields, Maker, Stopper, Caller, Owner, Successor, Superseded, Numbered, Current, Making, Stopping
<1>2. Reachable'
  BY <1>0, Keeping, Makers DEF Fields, Starting, Stopper, Stopping
<1> QED BY <1>1, <1>2

\* A call ends that makes nothing.
LEMMA LeaveOwns ==
  ASSUME SupervisorInductive, SeparateInductive, SupervisorInductive', NEW t \in Thread,
         Leave(t), pc[t] \notin Making, UNCHANGED <<registry, proc, hasPort, claim>>, Starting
  PROVE  Owner(t)' /\ Reachable'
<1>1. Owner(t)'
  BY IdleOwns DEF Leave, Goto, SupervisorInductive, Fields
<1>2. new' = new
  BY LeaveMakers
<1>3. Reachable'
  BY <1>2, Keeping, Makers
<1> QED BY <1>1, <1>3

\* A create() raises half way: what it was about is stranded.
LEMMA StrandOwns ==
  ASSUME SupervisorInductive, SeparateInductive, SupervisorInductive', NEW t \in Thread,
         Leave(t), pc[t] \in Making, UNCHANGED <<registry, state, proc, hasPort, claim>>,
         SlowKill \/ proc[new[t]] # "alive"
  PROVE  Owner(t)' /\ Reachable'
<1>0. Fields /\ Local(t)
  BY DEF SupervisorInductive, Calls
<1>1. Owner(t)'
  BY <1>0, IdleOwns DEF Leave, Goto, Fields
<1>2. \A h \in Object : Registered(h)' <=> Registered(h)
  BY DEF Registered
<1>3. ASSUME NEW h \in Object, h # new[t], BeingMade(h) PROVE BeingMade(h)'
  BY <1>0, <1>3 DEF Leave, BeingMade, Fields
<1>4. state[new[t]] = "starting"
  BY <1>0 DEF Local, Maker
<1>5. ASSUME ~SlowKill PROVE ProcessesOwned'
  BY <1>2, <1>3, <1>5 DEF SeparateInductive, Reachable, ProcessesOwned
<1>6. ClaimsReachable'
  BY <1>2, <1>3, <1>4 DEF SeparateInductive, Reachable, ClaimsReachable, Stranded
<1> QED BY <1>1, <1>5, <1>6 DEF Reachable

\* create() makes an object, which gets the generation of the call.
LEMMA MakeOwns ==
  ASSUME SupervisorInductive, SeparateInductive, SupervisorInductive', NEW t \in Thread,
         pc[t] = "reserve", NEW p \in Port,
         made' = made + 1, new' = [new EXCEPT ![t] = made'],
         gen' = [gen EXCEPT ![made'] = nextGen[t]], claim' = [claim EXCEPT ![made'] = p],
         state' = [state EXCEPT ![made'] = "starting"],
         Goto(t, "spawn"), UNCHANGED <<ident, cur, nextGen, then, todo, registry, proc, hasPort>>
  PROVE  Owner(t)' /\ Reachable'
<1> USE Apart DEF Goto, Object
<1>0. Fields /\ Local(t) /\ Owner(t) /\ Entries /\ Fields' /\ Local(t)'
  BY DEF SupervisorInductive, SeparateInductive, Calls, Owners
<1>1. pc'[t] = "spawn" /\ new'[t] = made + 1 /\ ident[t] \in Ident /\ new[t] = 0 /\ made + 1 \in Object
  BY <1>0 DEF Fields, Local, Caller, Making
<1>2. registry[ident[t]] # 0 => registry[ident[t]] \in Object \ {made + 1}
  BY <1>0, <1>1 DEF Entries, Entry, Fields
<1>3. Owner(t)'
  <2>1. Successor(t)'
    BY <1>0, <1>1, <1>2 DEF Fields, Owner, Successor, Superseded
  <2>2. Numbered(t)' /\ Current(t)'
    BY <1>0, <1>1 DEF Fields, Local, Caller, Numbered, Current, Stopping
  <2> QED BY <2>1, <2>2 DEF Owner
<1>4. ASSUME NEW h \in Object PROVE BeingMade(h) => BeingMade(h)'
  BY <1>0, <1>1 DEF BeingMade, Fields
<1>5. ASSUME NEW h, h = made + 1 PROVE BeingMade(h)'
  BY <1>1, <1>5 DEF BeingMade
<1>6. ASSUME NEW h \in Object, h # made + 1 PROVE claim'[h] = claim[h]
  BY <1>0, <1>6 DEF Fields
<1>7. Reachable'
  <2>1. ASSUME NEW h \in Object
        PROVE /\ BeingMade(h) => BeingMade(h)'
              /\ proc'[h] = "alive" => proc[h] = "alive" \/ BeingMade(h)'
              /\ claim'[h] # None =>
                   (claim[h] # None /\ (hasPort[h] => hasPort'[h])) \/ BeingMade(h)'
    BY <1>4, <1>5, <1>6
  <2>2. Starting
    BY <1>0, <1>1 DEF Starting, Fields
  <2> QED BY <2>1, <2>2, Keeping
<1> QED BY <1>3, <1>7

\* A failed start is registered, its port released.
LEMMA AbandonOwns ==
  ASSUME SupervisorInductive, SeparateInductive, SupervisorInductive', NEW t \in Thread, Abandon(t)
  PROVE  Owner(t)' /\ Reachable'
<1> USE Apart DEF Object, Making
<1>0. Fields /\ Local(t) /\ Owner(t) /\ Entries /\ Distinct
  BY DEF SupervisorInductive, SeparateInductive, Calls, Owners
<1>1. pc[t] \in Making /\ ident[t] \in Ident /\ new[t] \in Object /\ proc[new[t]] # "alive"
  BY <1>0 DEF Fields, Abandon, Local, Maker
<1>2. Superseded(registry[ident[t]], nextGen[t])
  BY <1>0, <1>1 DEF Owner, Successor
<1>3. /\ registry' = [registry EXCEPT ![ident[t]] = new[t]] /\ claim' = [claim EXCEPT ![new[t]] = None]
      /\ new' = [new EXCEPT ![t] = 0] /\ UNCHANGED <<proc, hasPort>>
  BY DEF Abandon, Leave
<1>4. Owner(t)'
  BY <1>0, IdleOwns DEF Abandon, Leave, Goto, Fields
<1>5. ASSUME NEW h \in Object, h # new[t], BeingMade(h) PROVE BeingMade(h)'
  BY <1>0, <1>3, <1>5 DEF BeingMade, Fields
<1>6. ASSUME NEW h \in Object, h # registry[ident[t]], Registered(h) PROVE Registered(h)'
  BY <1>0, <1>3, <1>6 DEF Registered, Fields
<1>7. ASSUME NEW h \in Object, claim'[h] # None PROVE h # new[t] /\ claim[h] # None
  BY <1>0, <1>3, <1>7 DEF Fields
<1>8. ASSUME ~SlowKill PROVE ProcessesOwned'
  <2>0. ProcessesOwned
    BY <1>8 DEF SeparateInductive, Reachable
  <2> QED BY <1>1, <1>2, <1>3, <1>5, <1>6, <2>0 DEF ProcessesOwned, Superseded
<1>9. ClaimsReachable'
  <2>1. ASSUME NEW h \in Object, h # new[t] PROVE state'[h] = state[h]
    BY <1>0, <2>1 DEF Abandon, Fields
  <2> QED BY <1>2, <1>3, <1>5, <1>6, <1>7, <2>1 DEF SeparateInductive, Reachable, ClaimsReachable, Superseded, Stranded
<1> QED BY <1>4, <1>8, <1>9 DEF Reachable

\* A new instance is registered, with its port.
LEMMA RegisterOwns ==
  ASSUME SupervisorInductive, SeparateInductive, SupervisorInductive', NEW t \in Thread, Register(t)
  PROVE  Owner(t)' /\ Reachable'
<1> USE DEF Object, Making
<1>0. Fields /\ Local(t) /\ Owner(t) /\ Entries /\ Distinct
  BY DEF SupervisorInductive, SeparateInductive, Calls, Owners
<1>1. pc[t] \in Making /\ ident[t] \in Ident /\ new[t] \in Object /\ new[t] # 0
  BY <1>0 DEF Fields, Register, Local, Maker
<1>2. Superseded(registry[ident[t]], nextGen[t])
  BY <1>0, <1>1 DEF Owner, Successor
<1>3. /\ registry' = [registry EXCEPT ![ident[t]] = new[t]] /\ hasPort' = [hasPort EXCEPT ![new[t]] = TRUE]
      /\ new' = [new EXCEPT ![t] = 0] /\ UNCHANGED <<proc, claim>>
  BY DEF Register, Leave
<1>4. Owner(t)'
  BY <1>0, IdleOwns DEF Register, Leave, Goto, Fields
<1>5. ASSUME NEW h \in Object, h # new[t], BeingMade(h) PROVE BeingMade(h)'
  BY <1>0, <1>3, <1>5 DEF BeingMade, Fields
<1>6. ASSUME NEW h \in Object, h # registry[ident[t]], Registered(h) PROVE Registered(h)'
  BY <1>0, <1>3, <1>6 DEF Registered, Fields
<1>7. ASSUME NEW h, h = new[t] PROVE Registered(h)' /\ hasPort'[h]
  BY <1>0, <1>1, <1>3, <1>7 DEF Registered, Fields
<1>8. \A h \in Object : hasPort[h] => hasPort'[h]
  BY <1>0, <1>3 DEF Fields
<1>9. ASSUME NEW h \in Object, h # new[t] PROVE BeingMade(h) \/ (Registered(h) /\ h # registry[ident[t]])
        => BeingMade(h)' \/ Registered(h)'
  BY <1>5, <1>6, <1>9
<1>10. ASSUME ~SlowKill, NEW h \in Object, proc[h] = "alive" PROVE Registered(h)' \/ BeingMade(h)'
  <2>1. Registered(h) \/ BeingMade(h)
    BY <1>10 DEF SeparateInductive, Reachable, ProcessesOwned
  <2>2. h # registry[ident[t]]
    BY <1>2, <1>10 DEF Superseded
  <2>3. CASE h = new[t]
    BY <1>7, <2>3
  <2>4. CASE h # new[t]
    BY <1>9, <2>1, <2>2, <2>4
  <2> QED BY <2>3, <2>4
<1>11. ASSUME NEW h \in Object, claim[h] # None
       PROVE  BeingMade(h)' \/ (Registered(h)' /\ hasPort'[h]) \/ Stranded(h)'
  <2>1. BeingMade(h) \/ (Registered(h) /\ hasPort[h]) \/ Stranded(h)
    BY <1>11 DEF SeparateInductive, Reachable, ClaimsReachable
  <2>2. h # registry[ident[t]]
    BY <1>2, <1>11 DEF Superseded
  <2>3. CASE h = new[t]
    BY <1>7, <2>3
  <2>4. CASE h # new[t]
    <3>1. state'[h] = state[h]
      BY <1>0, <2>4 DEF Register, Fields
    <3> QED BY <1>5, <1>6, <1>8, <2>1, <2>2, <2>4, <3>1 DEF Stranded
  <2> QED BY <2>3, <2>4
<1>12. Reachable'
  BY <1>3, <1>10, <1>11 DEF Reachable, ProcessesOwned, ClaimsReachable
<1> QED BY <1>4, <1>12

\* close() turns to its next instance.
LEMMA WalkOwns ==
  ASSUME SupervisorInductive, SeparateInductive, NEW t \in Thread, NextToClose(t), ~Leave(t)
  PROVE  Owner(t)' /\ Reachable'
<1>0. Fields /\ Owner(t)
  BY DEF SupervisorInductive, SeparateInductive, Owners
<1>1. pc'[t] \in {"next", "get"} /\ then' = then /\ new' = new /\ UNCHANGED <<made, registry, objectVars>>
  BY <1>0 DEF NextToClose, Goto, Fields
<1>2. then[t] = "next"
  BY <1>0 DEF NextToClose, Owner, Current
<1>3. Owner(t)'
  BY <1>1, <1>2 DEF Owner, Successor, Numbered, Current, Making, Stopping
<1>4. Reachable'
  BY <1>1, Keeping, Makers DEF objectVars, Starting
<1> QED BY <1>3, <1>4

\* Leases are about nothing else.
LEMMA LeaseOwns ==
  ASSUME SeparateInductive, Starting,
         UNCHANGED <<made, registry, id, gen, proc, mon, hasPort, claim, pc, localVars>>
  PROVE  SeparateInductive'
<1> USE DEF localVars
<1>1. Owners'
  BY DEF SeparateInductive, Owners, Owner, Successor, Superseded, Numbered, Current
<1>2. Reachable'
  BY Keeping, Makers
<1> QED BY <1>1, <1>2 DEF SeparateInductive

\* VICE dies by itself.
LEMMA DiesOwns ==
  ASSUME SupervisorInductive, SeparateInductive, NEW h \in Object, Dies(h) PROVE SeparateInductive'
<1> USE DEF Dies, localVars, Object
<1>0. Fields
  BY DEF SupervisorInductive
<1>1. \A i \in Object : proc'[i] = "alive" => proc[i] = "alive"
  BY <1>0 DEF Fields
<1>2. ASSUME NEW t \in Thread PROVE Owner(t)'
  <2>1. Owner(t) /\ Local(t)
    BY DEF SupervisorInductive, SeparateInductive, Calls, Owners
  <2>2. pc[t] \in {"reserve"} \cup Making /\ registry[ident[t]] # 0 => registry[ident[t]] \in Object
    BY <1>0, <2>1 DEF Fields, Local, Maker, Caller
  <2> QED BY <1>1, <2>1, <2>2 DEF SeparateInductive, Owners, Owner, Successor, Superseded, Numbered, Current
<1>3. Reachable'
  BY <1>1, Keeping, Makers DEF Starting
<1> QED BY <1>2, <1>3 DEF SeparateInductive, Owners

-----------------------------------------------------------------------------

\* What the caller owns and what is reachable, after a step of a call.
LEMMA CallOwns ==
  ASSUME SupervisorInductive, SeparateInductive, SupervisorInductive', NEW t \in Thread,
         Create(t) \/ Stop(t)
  PROVE  Owner(t)' /\ Reachable'
<1>0. Fields /\ Local(t)
  BY DEF SupervisorInductive, Calls
<1>1. CASE Reserve(t)
  BY <1>1, MakeOwns, LeaveOwns DEF Reserve, Making, Starting
<1>2. CASE Kill(t)
  <2>1. CASE SlowKill /\ Leave(t) /\ proc' = proc
    BY <1>2, <2>1, StrandOwns DEF Kill, Making
  <2>2. CASE ~(SlowKill /\ Leave(t) /\ proc' = proc)
    BY <1>2, <2>2, KillOwns DEF Kill
  <2> QED BY <2>1, <2>2
<1>3. CASE Escapes(t)
  <2>1. proc[new[t]] # "alive"
    BY <1>0, <1>3 DEF Escapes, Local, Maker, Making
  <2> QED BY <1>3, <2>1, StrandOwns DEF Escapes, Making, objectVars
<1>4. CASE Wait(t)
  BY <1>4, WaitOwns, LeaveOwns DEF Wait, Making, Starting
<1>5. CASE GiveBack(t)
  BY <1>5, GiveOwns, LeaveOwns DEF GiveBack, Making, Starting
<1>6. CASE NextToClose(t)
  <2>1. CASE Leave(t)
    BY <1>6, <2>1, LeaveOwns DEF NextToClose, Making, objectVars, Starting
  <2>2. CASE ~Leave(t)
    BY <1>6, <2>2, WalkOwns DEF NextToClose
  <2> QED BY <2>1, <2>2
<1>7. CASE Stopped(t)
  <2>1. Starting
    BY <1>0, <1>7 DEF Stopped, Starting, Fields, Local, Stopper, Stopping
  <2>2. CASE then[t] = "idle"
    BY <1>7, <2>1, <2>2, LeaveOwns DEF Stopped, Making
  <2>3. CASE then[t] # "idle"
    BY <1>7, <2>3, StoppedOwns DEF Stopped
  <2> QED BY <2>2, <2>3
<1> QED BY <1>1, <1>2, <1>3, <1>4, <1>5, <1>6, <1>7, CallCreateOwns, SpawnOwns, AbandonOwns, ConnectOwns,
      StopProbingOwns, RegisterOwns, CallStopOwns, CallRestartOwns, CallCloseOwns, GetOwns,
      DisconnectOwns, TerminateOwns, ReleaseOwns, ClearOwns DEF Create, Stop

\* Calls about different instances keep what each of them owns.
LEMMA SeparateKeeps ==
  ASSUME SupervisorInductive, SeparateInductive, SupervisorInductive', Separate, Next
  PROVE  SeparateInductive'
<1>1. CASE \E x \in Ident : Lease(x) \/ \E k \in Token : ReleaseLease(x, k)
  BY <1>1, LeaseOwns DEF Lease, ReleaseLease, objectVars, Starting
<1>2. CASE \E h \in Object : Dies(h)
  BY <1>2, DiesOwns
<1>3. ASSUME NEW t \in Thread, Create(t) \/ Stop(t) PROVE SeparateInductive'
  <2>1. Owner(t)' /\ Reachable'
    BY <1>3, CallOwns
  <2>2. ASSUME NEW s \in Thread, s # t PROVE Owner(s)'
    BY <1>3, <2>2, OthersOwn
  <2> QED BY <2>1, <2>2 DEF SeparateInductive, Owners
<1> QED BY <1>1, <1>2, <1>3 DEF Next

\* Before the first call nothing is owned and nothing runs.
LEMMA SeparateInit == ASSUME Init PROVE SeparateInductive
<1>1. Owners
  BY DEF Init, Owners, Owner, Successor, Numbered, Current, Making, Stopping
<1>2. ProcessesOwned /\ ClaimsReachable
  BY DEF Init, ProcessesOwned, ClaimsReachable, Object
<1> QED BY <1>1, <1>2 DEF SeparateInductive, Reachable

\* What a step of the supervisor does to the registry: an id gets an object of a later
\* generation, and the object it had keeps its own.
GenerationsRise ==
  \A x \in Ident : registry[x] # 0 =>
    /\ gen'[registry[x]] = gen[registry[x]]
    /\ registry'[x] = registry[x] \/ gen'[registry'[x]] > gen'[registry[x]]

LEMMA Rising == ASSUME SupervisorInductive, SeparateInductive, Next PROVE GenerationsRise
<1>0. Fields /\ Entries
  BY DEF SupervisorInductive
<1>1. ASSUME NEW t \in Thread, Abandon(t) \/ Register(t) PROVE GenerationsRise
  <2>1. Maker(t) /\ Successor(t) /\ Numbered(t) /\ pc[t] \in Making
    BY <1>1 DEF SupervisorInductive, SeparateInductive, Calls, Local, Owners, Owner, Abandon, Register, Making
  <2>2. gen' = gen /\ registry' = [registry EXCEPT ![ident[t]] = new[t]] /\ ident[t] \in Ident
    BY <1>1, <2>1 DEF Abandon, Register, Maker
  <2>3. gen[new[t]] = nextGen[t] /\ new[t] \in Object /\ nextGen[t] \in Nat
    BY <1>0, <2>1 DEF Numbered, Maker, Fields, Object
  <2>4. registry[ident[t]] # 0 => gen[registry[ident[t]]] < gen[new[t]]
    BY <2>1, <2>3 DEF Successor, Superseded
  <2>5. ASSUME NEW x \in Ident, registry[x] # 0 PROVE gen[registry[x]] \in Nat
    BY <1>0, <2>5 DEF Fields, Object
  <2>6. ASSUME NEW x \in Ident PROVE registry'[x] = IF x = ident[t] THEN new[t] ELSE registry[x]
    BY <1>0, <2>2 DEF Fields
  <2>7. gen[new[t]] \in Nat
    BY <2>3
  <2> QED BY <2>2, <2>4, <2>5, <2>6, <2>7 DEF GenerationsRise
<1>2. ASSUME NEW t \in Thread, Reserve(t) PROVE GenerationsRise
  <2>1. ASSUME NEW x \in Ident, registry[x] # 0 PROVE registry[x] # made + 1
    BY <1>0, <2>1 DEF Entries, Entry, Fields
  <2>2. registry' = registry /\ (gen' = gen \/ gen' = [gen EXCEPT ![made + 1] = nextGen[t]])
    BY <1>2 DEF Reserve
  <2>3. ASSUME NEW x \in Ident, registry[x] # 0 PROVE gen'[registry[x]] = gen[registry[x]]
    <3>1. registry[x] \in Object
      BY <1>0, <2>3 DEF Fields, Object
    <3> QED BY <1>0, <2>1, <2>2, <2>3, <3>1 DEF Fields
  <2> QED BY <2>2, <2>3 DEF GenerationsRise
<1>3. CASE ~\E t \in Thread : Abandon(t) \/ Register(t) \/ Reserve(t)
  <2>1. registry' = registry /\ gen' = gen
    BY <1>3 DEF Next, objectVars, Create, Stop, CallCreate, Escapes, Spawn, Connect, StopProbing, Kill,
      CallStop, CallRestart, Restarts, CallClose, NextToClose, Get, Disconnect, Terminate, Wait, Release, GiveBack, Clear,
      Stopped, Lease, ReleaseLease, Dies
  <2> QED BY <2>1 DEF GenerationsRise
<1> QED BY <1>1, <1>2, <1>3


-----------------------------------------------------------------------------

\* What calls about different instances own, for any number of threads and of instances.
THEOREM SeparateInvariance == Spec /\ []Separate => []SeparateInductive
<1>1. Init => SeparateInductive
  BY SeparateInit
<1>2. SupervisorInductive /\ SupervisorInductive' /\ Separate /\ SeparateInductive /\ [Next]_vars
        => SeparateInductive'
  <2> SUFFICES ASSUME SupervisorInductive, SupervisorInductive', Separate, SeparateInductive,
                      [Next]_vars
               PROVE  SeparateInductive'
    OBVIOUS
  <2>1. CASE UNCHANGED vars
    BY <2>1, LeaseOwns DEF vars, objectVars, Starting
  <2>2. CASE Next
    BY <2>2, SeparateKeeps
  <2> QED BY <2>1, <2>2
<1> QED BY <1>1, <1>2, SupervisorInvariance, PTL DEF Spec

\* Calls about different instances lose no VICE that SIGKILL ends in time: each that runs is
\* registered, or a create() in progress is about it, so that close() or a restart can reach it.
THEOREM SeparateProcessesOwned == ASSUME ~SlowKill PROVE Spec /\ []Separate => []ProcessesOwned
<1>1. SeparateInductive => ProcessesOwned
  BY DEF SeparateInductive, Reachable
<1> QED BY <1>1, SeparateInvariance, PTL

\* Nor a port, but for those of the create() calls that raised half way: whoever else holds a
\* lease is reached by a stop() or by the create() in progress, also after a slow SIGKILL.
THEOREM SeparateClaimsReachable == Spec /\ []Separate => []ClaimsReachable
<1>1. SeparateInductive => ClaimsReachable
  BY DEF SeparateInductive, Reachable
<1> QED BY <1>1, SeparateInvariance, PTL

\* The generation of an id grows with every child exposed under it.
THEOREM SeparateGenerationGrows == Spec /\ []Separate => GenerationGrows
<1>1. SupervisorInductive /\ SeparateInductive /\ [Next]_vars
        => [\A x \in Ident : registry[x] # 0 /\ registry'[x] # registry[x]
              => gen[registry'[x]] > gen[registry[x]]]_vars
  <2> SUFFICES ASSUME SupervisorInductive, SeparateInductive, Next, NEW x \in Ident,
                      registry[x] # 0, registry'[x] # registry[x]
               PROVE  gen[registry'[x]] > gen[registry[x]]
    OBVIOUS
  <2>1. GenerationsRise
    BY Rising
  <2>2. gen' = gen
    BY DEF Next, objectVars, Create, Stop, CallCreate, Reserve, Escapes, Spawn, Abandon, Connect, StopProbing, Kill,
      Register, CallStop, CallRestart, Restarts, CallClose, NextToClose, Get, Disconnect, Terminate, Wait,
      Release, GiveBack, Clear, Stopped, Lease, ReleaseLease, Dies
  <2> QED BY <2>1, <2>2 DEF GenerationsRise
<1> QED BY <1>1, SeparateInvariance, SupervisorInvariance, PTL DEF Spec, GenerationGrows

-----------------------------------------------------------------------------
(* close(), while no create() and no restart() is in progress (Quiet).  An instance registered
   during a close() is not on its list, so close() promises nothing about it. *)

\* What runs is on the list of a close() or is the instance it is stopping.
Closing(t) ==
  /\ pc[t] = "next" => then[t] = "next"
  /\ then[t] = "next" =>
       /\ pc[t] \in {"next", "get"} \cup Stopping
       /\ pc[t] \in Stopping => cur[t] = registry[ident[t]]
       /\ \A x \in Ident : registry[x] # 0 /\ proc[registry[x]] = "alive" =>
            registry[x] \in todo[t] \/ (pc[t] # "next" /\ ident[t] = x)

Closers == \A t \in Thread : Closing(t)

\* A call that is not a close() lists nothing.
LEMMA OtherCalls ==
  ASSUME NEW t \in Thread, then'[t] # "next", pc'[t] # "next" PROVE Closing(t)'
  BY DEF Closing

\* close() turns to its next instance, or skips one that is down.
LEMMA WalkCloses ==
  ASSUME SupervisorInductive, Closers, NEW t \in Thread, NEW i \in todo[t],
         pc[t] = "next", todo' = [todo EXCEPT ![t] = @ \ {i}],
         \/ state[i] = "stopped" /\ UNCHANGED <<pc, ident>>
         \/ ident' = [ident EXCEPT ![t] = id[i]] /\ Goto(t, "get"),
         UNCHANGED <<then, registry, proc>>
  PROVE  Closing(t)'
<1> USE DEF Object, Goto
<1>0. Fields /\ Local(t) /\ Closing(t) /\ Entries /\ Objects
  BY DEF SupervisorInductive, Closers, Calls
<1>1. then[t] = "next" /\ i \in Object /\ id[i] \in Ident
  BY <1>0 DEF Fields, Closing, Local, Walker
<1>2. pc'[t] \in {"next", "get"} /\ (pc'[t] = "next" => ident' = ident /\ state[i] = "stopped")
  BY <1>0 DEF Fields
<1>3. ASSUME NEW x \in Ident, registry[x] # 0, proc[registry[x]] = "alive"
      PROVE  registry[x] \in todo'[t] \/ (pc'[t] # "next" /\ ident'[t] = x)
  <2>1. registry[x] \in todo[t]
    BY <1>0, <1>1, <1>3 DEF Closing
  <2>2. CASE registry[x] # i
    BY <1>0, <2>1, <2>2 DEF Fields
  <2>3. CASE registry[x] = i
    <3>1. id[i] = x
      BY <1>0, <1>3, <2>3 DEF Entries, Entry
    <3>2. state[i] # "stopped"
      BY <1>0, <1>1, <1>3, <2>3 DEF Objects, Sound
    <3> QED BY <1>0, <1>2, <3>1, <3>2 DEF Fields
  <2> QED BY <2>2, <2>3
<1>4. pc'[t] \notin Stopping
  BY <1>2 DEF Stopping
<1> QED BY <1>1, <1>2, <1>3, <1>4 DEF Closing

\* The steps of stop() leave the list alone and start nothing; when stop() is done, what it was
\* about is down.
LEMMA StopCloses ==
  ASSUME SupervisorInductive, Closers, NEW t \in Thread,
         \/ Get(t) \/ Disconnect(t) \/ Terminate(t) \/ Wait(t)
         \/ Release(t) \/ GiveBack(t) \/ Clear(t) \/ Stopped(t)
  PROVE  Closing(t)'
<1> USE DEF Object, Goto, localVars, objectVars
<1>0. Fields /\ Local(t) /\ Closing(t)
  BY DEF SupervisorInductive, Closers, Calls
<1>1. CASE Leave(t)
  BY <1>0, <1>1, OtherCalls DEF Leave, Fields
<1>2. CASE Get(t)
  BY <1>0, <1>2 DEF Get, Fields, Closing, Stopping
<1>3. CASE (Disconnect(t) \/ Terminate(t) \/ Wait(t) \/ Release(t) \/ GiveBack(t) \/ Clear(t))
           /\ ~Leave(t)
  <2>1. pc[t] \in Stopping /\ pc'[t] \in Stopping /\ UNCHANGED <<registry, localVars>>
    BY <1>0, <1>3 DEF Disconnect, Terminate, Wait, Release, GiveBack, Clear, Fields, Stopping
  <2>2. proc' = proc \/ proc' = [proc EXCEPT ![cur[t]] = "dead"]
    BY <1>3 DEF Disconnect, Terminate, Wait, Release, GiveBack, Clear
  <2>3. \A h \in Object : proc'[h] = "alive" => proc[h] = "alive"
    BY <1>0, <2>2 DEF Fields
  <2>4. pc[t] # "next" /\ pc'[t] # "next"
    BY <2>1 DEF Stopping
  <2>5. \A x \in Ident : registry[x] # 0 => registry[x] \in Object
    BY <1>0 DEF Fields
  <2> QED BY <1>0, <2>1, <2>3, <2>4, <2>5 DEF Closing
<1>4. CASE Stopped(t) /\ ~Leave(t)
  <2>1. then[t] # "idle" /\ pc[t] = "stopped" /\ UNCHANGED <<registry, proc, localVars>>
    BY <1>4 DEF Stopped
  <2>2. pc'[t] = (IF then[t] = "restart" THEN "reserve" ELSE "next")
    BY <1>0, <1>4, <2>1 DEF Stopped, Fields
  <2>3. proc[cur[t]] # "alive" /\ (then[t] = "next" => cur[t] = registry[ident[t]])
    BY <1>0, <2>1 DEF Local, Stopper, Closing, Stopping
  <2>4. then[t] \in {"idle", "restart", "next"}
    BY <1>0 DEF Fields
  <2> QED BY <1>0, <2>1, <2>2, <2>3, <2>4 DEF Closing, Stopping
<1> QED BY <1>1, <1>2, <1>3, <1>4

\* A step of the call itself.
LEMMA CallCloses ==
  ASSUME SupervisorInductive, Closers, NEW t \in Thread, Create(t) \/ Stop(t)
  PROVE  Closing(t)'
<1> USE DEF Goto, localVars
<1>0. Fields /\ Local(t) /\ Closing(t) /\ Entries
  BY DEF SupervisorInductive, Closers, Calls
<1>1. CASE Leave(t)
  BY <1>0, <1>1, OtherCalls DEF Leave, Fields
<1>2. CASE Create(t) /\ ~Leave(t)
  <2>1. then[t] # "next"
    BY <1>0, <1>2 DEF Create, CallCreate, Reserve, Escapes, Spawn, Abandon, Connect, StopProbing, Kill, Register,
      Closing, Stopping, Local, Caller
  <2>2. then' = then /\ pc'[t] # "next"
    BY <1>0, <1>2 DEF Create, CallCreate, Reserve, Escapes, Spawn, Abandon, Connect, StopProbing, Kill, Register, Fields
  <2> QED BY <2>1, <2>2, OtherCalls
<1>3. CASE CallStop(t) \/ CallRestart(t)
  <2>1. then'[t] # "next" /\ pc'[t] # "next"
    BY <1>0, <1>3 DEF CallStop, CallRestart, Restarts, Local, Caller, Fields
  <2> QED BY <2>1, OtherCalls
<1>4. CASE CallClose(t)
  <2>1. pc'[t] = "next" /\ then'[t] = "next" /\ UNCHANGED <<registry, proc>>
    BY <1>0, <1>4 DEF CallClose, objectVars, Fields
  <2>2. todo'[t] = {registry[x] : x \in Ident} \ {0}
    BY <1>0, <1>4 DEF CallClose, Fields
  <2> QED BY <2>1, <2>2 DEF Closing, Stopping
<1>5. CASE NextToClose(t) /\ ~Leave(t)
  <2>1. PICK i \in todo[t] :
          /\ todo' = [todo EXCEPT ![t] = @ \ {i}]
          /\ \/ state[i] = "stopped" /\ UNCHANGED <<pc, ident>>
             \/ ident' = [ident EXCEPT ![t] = id[i]] /\ Goto(t, "get")
    BY <1>5 DEF NextToClose
  <2>2. pc[t] = "next" /\ UNCHANGED <<then, registry, proc>>
    BY <1>5 DEF NextToClose, objectVars
  <2> QED BY <2>1, <2>2, WalkCloses
<1>6. CASE \/ Get(t) \/ Disconnect(t) \/ Terminate(t) \/ Wait(t)
            \/ Release(t) \/ GiveBack(t) \/ Clear(t) \/ Stopped(t)
  BY <1>6, StopCloses
<1> QED BY <1>1, <1>2, <1>3, <1>4, <1>5, <1>6 DEF Stop

\* A step that registers and starts nothing is nothing to a close() whose locals it leaves alone.
LEMMA StillCloses ==
  ASSUME NEW s \in Thread, Closing(s), LocalsOf(s)' = LocalsOf(s),
         then[s] = "next" =>
           /\ registry' = registry
           /\ \A x \in Ident : registry[x] # 0 /\ proc'[registry[x]] = "alive" => proc[registry[x]] = "alive"
  PROVE  Closing(s)'
  BY DEF Closing, LocalsOf

\* While a close() is in progress no other call registers or starts anything.
LEMMA OthersClose ==
  ASSUME SupervisorInductive, Closers, Quiet, NEW t \in Thread, Create(t) \/ Stop(t),
         NEW s \in Thread, s # t
  PROVE  Closing(s)'
<1>0. Fields /\ Local(t) /\ Entries /\ Closing(s)
  BY DEF SupervisorInductive, Closers, Calls
<1>1. LocalsOf(s)' = LocalsOf(s)
  BY OthersLocals
<1>2. ASSUME then[s] = "next" PROVE registry' = registry
  <2>1. nextGen[t] = 0
    BY <1>2 DEF Quiet
  <2>2. pc[t] \notin Making
    BY <1>0, <2>1 DEF Local, Caller
  <2> QED BY <2>2, OthersRegistry
<1>3. ASSUME NEW x \in Ident, registry[x] # 0, proc'[registry[x]] = "alive" PROVE proc[registry[x]] = "alive"
  <2>1. PICK h : h = registry[x]
    OBVIOUS
  <2>2. h \in Object /\ h <= made /\ state[h] # "starting"
    BY <1>0, <1>3, <2>1 DEF Fields, Entries, Entry, Object
  <2>3. proc'[h] = "alive" => proc[h] = "alive"
    BY <2>2, OthersObjects
  <2> QED BY <1>3, <2>1, <2>3
<1> QED BY <1>0, <1>1, <1>2, <1>3, StillCloses

\* Leases, and a VICE that dies, are nothing to a close() either.
LEMMA RestCloses ==
  ASSUME SupervisorInductive, Closers, UNCHANGED <<registry, pc, localVars>>,
         \A h \in Object : proc'[h] = "alive" => proc[h] = "alive"
  PROVE  Closers'
<1>1. ASSUME NEW s \in Thread PROVE Closing(s)'
  <2>1. Closing(s) /\ LocalsOf(s)' = LocalsOf(s)
    BY DEF Closers, LocalsOf, localVars
  <2>2. \A x \in Ident : registry[x] # 0 => registry[x] \in Object
    BY DEF SupervisorInductive, Fields, Object
  <2> QED BY <2>1, <2>2, StillCloses
<1> QED BY <1>1 DEF Closers

LEMMA QuietKeeps == ASSUME SupervisorInductive, Closers, Quiet, Next PROVE Closers'
<1>1. CASE \E x \in Ident : Lease(x) \/ \E k \in Token : ReleaseLease(x, k)
  BY <1>1, RestCloses DEF Lease, ReleaseLease, objectVars
<1>2. CASE \E h \in Object : Dies(h)
  <2>1. \A h \in Object : proc'[h] = "alive" => proc[h] = "alive"
    BY <1>2 DEF SupervisorInductive, Fields, Dies
  <2> QED BY <1>2, <2>1, RestCloses DEF Dies
<1>3. ASSUME NEW t \in Thread, Create(t) \/ Stop(t) PROVE Closers'
  <2>1. Closing(t)'
    BY <1>3, CallCloses
  <2>2. ASSUME NEW s \in Thread, s # t PROVE Closing(s)'
    BY <1>3, <2>2, OthersClose
  <2> QED BY <2>1, <2>2 DEF Closers
<1> QED BY <1>1, <1>2, <1>3 DEF Next

\* The step in which close() ends finds nothing registered running.
Closes ==
  \A t \in Thread : pc[t] = "next" /\ pc'[t] = "idle"
    => \A x \in Ident : registry[x] # 0 => proc[registry[x]] # "alive"

LEMMA ClosingEnds == ASSUME SupervisorInductive, Closers, Next PROVE Closes
<1> SUFFICES ASSUME NEW t \in Thread, pc[t] = "next", pc'[t] = "idle"
             PROVE  \A x \in Ident : registry[x] # 0 => proc[registry[x]] # "alive"
  BY DEF Closes
<1>0. Fields /\ Closing(t)
  BY DEF SupervisorInductive, Closers
<1>1. PICK s \in Thread : Create(s) \/ Stop(s)
  BY DEF Next, Lease, ReleaseLease, Dies
<1>2. s = t
  <2>1. s # t => pc'[t] = pc[t]
    BY <1>1, OthersLocals DEF LocalsOf
  <2> QED BY <2>1
<1>3. NextToClose(t)
  BY <1>1, <1>2 DEF Create, Stop, CallCreate, Reserve, Escapes, Spawn, Abandon, Connect, StopProbing, Kill, Register,
    CallStop, CallRestart, Restarts, CallClose, Get, Disconnect, Terminate, Wait, Release, GiveBack, Clear, Stopped
<1>4. todo[t] = {}
  BY <1>0, <1>3 DEF NextToClose, Goto, Fields
<1> QED BY <1>0, <1>4 DEF Closing

\* The list of a close() during which nothing is created or restarted, with any number of
\* threads, whatever else they stop and whatever processes outlive SIGKILL.
THEOREM QuietInvariance == Spec /\ []Quiet => []Closers
<1>1. Init => Closers
  BY DEF Init, Closers, Closing
<1>2. SupervisorInductive /\ Quiet /\ Closers /\ [Next]_vars => Closers'
  <2> SUFFICES ASSUME SupervisorInductive, Quiet, Closers, [Next]_vars PROVE Closers'
    OBVIOUS
  <2>1. CASE UNCHANGED vars
    BY <2>1, RestCloses DEF vars, objectVars
  <2>2. CASE Next
    BY <2>2, QuietKeeps
  <2> QED BY <2>1, <2>2
<1> QED BY <1>1, <1>2, SupervisorInvariance, PTL DEF Spec

\* Such a close(), when it has returned, has left nothing that is registered running.
THEOREM QuietCloseStopsAll == Spec /\ []Quiet => CloseStopsAll
<1>1. SupervisorInductive /\ Closers /\ [Next]_vars => [Closes]_vars
  BY ClosingEnds
<1> QED BY <1>1, QuietInvariance, SupervisorInvariance, PTL DEF Spec, CloseStopsAll, Closes
=============================================================================
