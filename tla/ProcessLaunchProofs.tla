------------------------- MODULE ProcessLaunchProofs -------------------------
(* Proofs about ProcessLaunch, for any set of tasks, keys and ports. *)
EXTENDS ProcessLaunch, TLAPS

\* A task, a port or a result is never taken for None.
LEMMA NoneApart == None \notin Port \cup Task \cup Outcome
  BY LaunchConstants

\* One more cancellation stays within the bound.
LEMMA Counting ==
  \A m \in Nat : 0 \in 0 .. m /\ \A c \in 0 .. m : c < m => c + 1 \in 0 .. m
  OBVIOUS

USE NoneApart DEF Resting, Outcome, Failure, Goto, Set, Ends, Raises, viceVars

\* A stop() that starts keeps the invariant, whether launch() calls it or who has the item.
LEMMA Stopping ==
  ASSUME Inductive, NEW t \in Task, NEW l \in Task, StartStop(t, l),
         \/ pc[t] = "sleeping" /\ l = t
         \/ pc[t] = "idle" /\ outcome[l] = "item",
         UNCHANGED <<dirs, outcome, proc, stray, cancels>>
  PROVE  Inductive'
<1> USE DEF Inductive
<1>0. UNCHANGED <<dirs, outcome, proc, stray, cancels>>
  OBVIOUS
<1>1. CASE proc[l] = "alive"
  <2>0. Goto(t, "terminating") /\ cur' = Set(cur, t, l) /\ UNCHANGED <<claim, pumping>>
    BY <1>1 DEF StartStop
  <2>1. TypeOK'
    BY <1>0, <1>1, <2>0 DEF TypeOK
  <2>2. ASSUME NEW s \in Task PROVE Located(s)'
    <3>1. CASE s = t
      BY <1>0, <1>1, <2>0, <3>1 DEF TypeOK, Located
    <3>2. CASE s # t
      BY <1>0, <1>1, <2>0, <3>2 DEF TypeOK, Located
    <3> QED BY <3>1, <3>2
  <2>3. FailureLeavesNothing'
    <3> SUFFICES ASSUME NEW s \in Task, outcome'[s] \in Failure
                 PROVE  proc'[s] # "alive" /\ claim'[s] = None /\ ~pumping'[s] /\ ~stray'[s]
      BY DEF FailureLeavesNothing
    <3>1. CASE s # t
      BY <1>0, <1>1, <2>0, <3>1 DEF TypeOK, FailureLeavesNothing
    <3>2. CASE s = t
      BY <1>0, <1>1, <2>0, <3>2 DEF TypeOK, Located, FailureLeavesNothing
    <3> QED BY <3>1, <3>2
  <2>4. ASSUME NEW v \in Task, CutShort(v) PROVE CutShort(v)'
    BY <1>0, <1>1, <2>0, <2>4 DEF TypeOK, CutShort
  <2>5. ASSUME NEW v \in Task, proc'[v] = "alive", ~CutShort(v), ~CutShort(v)'
        PROVE  claim'[v] # None /\ (pumping'[v] \/ outcome'[v] = "no digest")
    BY <1>0, <1>1, <2>0, <2>5 DEF TypeOK, Located, RunningIsServed
  <2>6. RunningIsServed'
    BY <2>4, <2>5 DEF RunningIsServed
  <2> QED
    BY <2>1, <2>2, <2>3, <2>6
<1>2. CASE proc[l] = "dead"
  <2>0. Finally(t, l, "reaping")
    BY <1>2 DEF StartStop
  <2>1. TypeOK'
    BY <1>0, <1>2, <2>0 DEF Finally, TypeOK
  <2>2. ASSUME NEW s \in Task PROVE Located(s)'
    <3>1. CASE s = t
      <4>1. /\ cur'[t] = l /\ claim'[l] = None /\ ~pumping'[l] /\ pc'[t] = "reaping"
            /\ outcome[t] = None => l = t
        BY <1>0, <2>0 DEF Finally, TypeOK, Located
      <4> QED BY <1>0, <1>2, <2>0, <3>1, <4>1 DEF Finally, TypeOK, Located
    <3>2. CASE s # t
      <4>1. pc'[s] = pc[s] /\ cur'[s] = cur[s]
        BY <1>0, <2>0, <3>2 DEF Finally, TypeOK
      <4>2. \A v \in Task : (claim'[v] # None => claim[v] # None) /\ (pumping'[v] => pumping[v])
        BY <2>0 DEF Finally, TypeOK
      <4>3. pc[s] = "spawning" => s # l
        BY <1>2 DEF TypeOK, Located
      <4>4. pc[s] = "spawning" => claim'[s] # None
        BY <2>0, <4>3 DEF Finally, TypeOK, Located
      <4>5. pc[s] = "reaping" => cur[s] \in Task
        BY DEF TypeOK, Located
      <4> QED BY <1>0, <4>1, <4>2, <4>4, <4>5 DEF Located
    <3> QED BY <3>1, <3>2
  <2>3. FailureLeavesNothing'
    <3> SUFFICES ASSUME NEW s \in Task, outcome'[s] \in Failure
                 PROVE  proc'[s] # "alive" /\ claim'[s] = None /\ ~pumping'[s] /\ ~stray'[s]
      BY DEF FailureLeavesNothing
    <3>1. CASE s # t
      BY <1>0, <1>2, <2>0, <3>1 DEF Finally, TypeOK, FailureLeavesNothing
    <3>2. CASE s = t
      BY <1>0, <1>2, <2>0, <3>2 DEF Finally, TypeOK, FailureLeavesNothing
    <3> QED BY <3>1, <3>2
  <2>4. ASSUME NEW v \in Task, CutShort(v) PROVE CutShort(v)'
    BY <1>0, <1>2, <2>0, <2>4 DEF Finally, TypeOK, CutShort
  <2>5. ASSUME NEW v \in Task, proc'[v] = "alive", ~CutShort(v), ~CutShort(v)'
        PROVE  claim'[v] # None /\ (pumping'[v] \/ outcome'[v] = "no digest")
    BY <1>0, <1>2, <2>0, <2>5 DEF Finally, TypeOK, Located, RunningIsServed
  <2>6. RunningIsServed'
    BY <2>4, <2>5 DEF RunningIsServed
  <2> QED
    BY <2>1, <2>2, <2>3, <2>6
<1> QED
  BY <1>1, <1>2 DEF StartStop, Finally

\* Every step keeps the inductive invariant.
LEMMA Step == Inductive /\ [Next]_vars => Inductive'
<1> SUFFICES ASSUME Inductive, [Next]_vars PROVE Inductive'
  OBVIOUS
<1> USE DEF Inductive
<1>1. ASSUME NEW t \in Task, Launch(t) PROVE Inductive'
  <2>0. pc[t] = "new" /\ UNCHANGED <<cur, proc, pumping, stray, cancels>>
    BY <1>1 DEF Launch
  <2>1. CASE Ends(t, "exists") /\ UNCHANGED <<dirs, claim>>
    <3>1. TypeOK'
      BY <2>0, <2>1 DEF TypeOK
    <3>2. ASSUME NEW s \in Task PROVE Located(s)'
      <4>1. CASE s = t
        BY <2>0, <2>1, <4>1 DEF TypeOK, Located
      <4>2. CASE s # t
        BY <2>0, <2>1, <4>2 DEF TypeOK, Located
      <4> QED BY <4>1, <4>2
    <3>3. FailureLeavesNothing'
      <4> SUFFICES ASSUME NEW s \in Task, outcome'[s] \in Failure
                   PROVE  proc'[s] # "alive" /\ claim'[s] = None /\ ~pumping'[s] /\ ~stray'[s]
        BY DEF FailureLeavesNothing
      <4>1. CASE s # t
        BY <2>0, <2>1, <4>1 DEF TypeOK, FailureLeavesNothing
      <4>2. CASE s = t
        BY <2>0, <2>1, <4>2 DEF TypeOK, Located, FailureLeavesNothing
      <4> QED BY <4>1, <4>2
    <3>4. ASSUME NEW v \in Task, CutShort(v) PROVE CutShort(v)'
      BY <2>0, <2>1, <3>4 DEF TypeOK, CutShort
    <3>5. ASSUME NEW v \in Task, proc'[v] = "alive", ~CutShort(v), ~CutShort(v)'
          PROVE  claim'[v] # None /\ (pumping'[v] \/ outcome'[v] = "no digest")
      BY <2>0, <2>1, <3>5 DEF TypeOK, Located, RunningIsServed
    <3>6. RunningIsServed'
      BY <3>4, <3>5 DEF RunningIsServed
    <3> QED
      BY <3>1, <3>2, <3>3, <3>6
  <2>2. ASSUME NEW k \in Key, dirs' = dirs \cup {k}, Ends(t, "no port"), UNCHANGED claim
        PROVE  Inductive'
    <3>1. TypeOK'
      BY <2>0, <2>2 DEF TypeOK
    <3>2. ASSUME NEW s \in Task PROVE Located(s)'
      <4>1. CASE s = t
        BY <2>0, <2>2, <4>1 DEF TypeOK, Located
      <4>2. CASE s # t
        BY <2>0, <2>2, <4>2 DEF TypeOK, Located
      <4> QED BY <4>1, <4>2
    <3>3. FailureLeavesNothing'
      <4> SUFFICES ASSUME NEW s \in Task, outcome'[s] \in Failure
                   PROVE  proc'[s] # "alive" /\ claim'[s] = None /\ ~pumping'[s] /\ ~stray'[s]
        BY DEF FailureLeavesNothing
      <4>1. CASE s # t
        BY <2>0, <2>2, <4>1 DEF TypeOK, FailureLeavesNothing
      <4>2. CASE s = t
        BY <2>0, <2>2, <4>2 DEF TypeOK, Located, FailureLeavesNothing
      <4> QED BY <4>1, <4>2
    <3>4. ASSUME NEW v \in Task, CutShort(v) PROVE CutShort(v)'
      BY <2>0, <2>2, <3>4 DEF TypeOK, CutShort
    <3>5. ASSUME NEW v \in Task, proc'[v] = "alive", ~CutShort(v), ~CutShort(v)'
          PROVE  claim'[v] # None /\ (pumping'[v] \/ outcome'[v] = "no digest")
      BY <2>0, <2>2, <3>5 DEF TypeOK, Located, RunningIsServed
    <3>6. RunningIsServed'
      BY <3>4, <3>5 DEF RunningIsServed
    <3> QED
      BY <3>1, <3>2, <3>3, <3>6
  <2>3. ASSUME NEW k \in Key, dirs' = dirs \cup {k}, NEW p \in Port, claim' = Set(claim, t, p),
               Goto(t, "spawning"), UNCHANGED outcome
        PROVE  Inductive'
    <3>1. TypeOK'
      BY <2>0, <2>3 DEF TypeOK
    <3>2. ASSUME NEW s \in Task PROVE Located(s)'
      <4>1. CASE s = t
        BY <2>0, <2>3, <4>1 DEF TypeOK, Located
      <4>2. CASE s # t
        BY <2>0, <2>3, <4>2 DEF TypeOK, Located
      <4> QED BY <4>1, <4>2
    <3>3. FailureLeavesNothing'
      <4> SUFFICES ASSUME NEW s \in Task, outcome'[s] \in Failure
                   PROVE  proc'[s] # "alive" /\ claim'[s] = None /\ ~pumping'[s] /\ ~stray'[s]
        BY DEF FailureLeavesNothing
      <4>1. CASE s # t
        BY <2>0, <2>3, <4>1 DEF TypeOK, FailureLeavesNothing
      <4>2. CASE s = t
        BY <2>0, <2>3, <4>2 DEF TypeOK, Located, FailureLeavesNothing
      <4> QED BY <4>1, <4>2
    <3>4. ASSUME NEW v \in Task, CutShort(v) PROVE CutShort(v)'
      BY <2>0, <2>3, <3>4 DEF TypeOK, CutShort
    <3>5. ASSUME NEW v \in Task, proc'[v] = "alive", ~CutShort(v), ~CutShort(v)'
          PROVE  claim'[v] # None /\ (pumping'[v] \/ outcome'[v] = "no digest")
      BY <2>0, <2>3, <3>5 DEF TypeOK, Located, RunningIsServed
    <3>6. RunningIsServed'
      BY <3>4, <3>5 DEF RunningIsServed
    <3> QED
      BY <3>1, <3>2, <3>3, <3>6
  <2> QED
    BY <1>1, <2>1, <2>2, <2>3 DEF Launch
<1>2. ASSUME NEW t \in Task, NotSpawned(t) PROVE Inductive'
  <2>1. TypeOK'
    BY <1>2 DEF NotSpawned, TypeOK
  <2>2. ASSUME NEW s \in Task PROVE Located(s)'
    <3>1. CASE s = t
      BY <1>2, <3>1 DEF NotSpawned, TypeOK, Located
    <3>2. CASE s # t
      BY <1>2, <3>2 DEF NotSpawned, TypeOK, Located
    <3> QED BY <3>1, <3>2
  <2>3. FailureLeavesNothing'
    <3> SUFFICES ASSUME NEW s \in Task, outcome'[s] \in Failure
                 PROVE  proc'[s] # "alive" /\ claim'[s] = None /\ ~pumping'[s] /\ ~stray'[s]
      BY DEF FailureLeavesNothing
    <3>1. CASE s # t
      BY <1>2, <3>1 DEF NotSpawned, TypeOK, FailureLeavesNothing
    <3>2. CASE s = t
      BY <1>2, <3>2 DEF NotSpawned, TypeOK, Located, FailureLeavesNothing
    <3> QED BY <3>1, <3>2
  <2>4. ASSUME NEW v \in Task, CutShort(v) PROVE CutShort(v)'
    BY <1>2, <2>4 DEF NotSpawned, TypeOK, CutShort
  <2>5. ASSUME NEW v \in Task, proc'[v] = "alive", ~CutShort(v), ~CutShort(v)'
        PROVE  claim'[v] # None /\ (pumping'[v] \/ outcome'[v] = "no digest")
    BY <1>2, <2>5 DEF NotSpawned, TypeOK, Located, RunningIsServed
  <2>6. RunningIsServed'
    BY <2>4, <2>5 DEF RunningIsServed
  <2> QED
    BY <2>1, <2>2, <2>3, <2>6
<1>3. ASSUME NEW t \in Task, Spawned(t) PROVE Inductive'
  <2>1. TypeOK'
    BY <1>3 DEF Spawned, TypeOK
  <2>2. ASSUME NEW s \in Task PROVE Located(s)'
    <3>1. CASE s = t
      <4>1. /\ pc[t] = "spawning" /\ proc'[t] = "alive"
            /\ UNCHANGED <<cur, claim, stray>>
            /\ \/ pc'[t] = "idle" /\ outcome'[t] = "no digest"
               \/ pc'[t] = "probing" /\ outcome'[t] = outcome[t]
        BY <1>3 DEF Spawned, TypeOK
      <4> QED BY <3>1, <4>1 DEF TypeOK, Located
    <3>2. CASE s # t
      <4>1. /\ pc'[s] = pc[s] /\ outcome'[s] = outcome[s] /\ proc'[s] = proc[s]
            /\ pumping'[s] = pumping[s] /\ UNCHANGED <<cur, claim, stray>>
        BY <1>3, <3>2 DEF Spawned, TypeOK
      <4>2. cur[s] = t => pc[s] \notin {"terminating", "killing", "reaping", "unwinding"}
        BY <1>3 DEF Spawned, Located
      <4>3. cur[s] \in Task \ {t} => proc'[cur[s]] = proc[cur[s]] /\ pumping'[cur[s]] = pumping[cur[s]]
        BY <1>3 DEF Spawned, TypeOK
      <4> QED BY <4>1, <4>2, <4>3 DEF TypeOK, Located
    <3> QED BY <3>1, <3>2
  <2>3. FailureLeavesNothing'
    <3> SUFFICES ASSUME NEW s \in Task, outcome'[s] \in Failure
                 PROVE  proc'[s] # "alive" /\ claim'[s] = None /\ ~pumping'[s] /\ ~stray'[s]
      BY DEF FailureLeavesNothing
    <3>1. CASE s # t
      BY <1>3, <3>1 DEF Spawned, TypeOK, FailureLeavesNothing
    <3>2. CASE s = t
      BY <1>3, <3>2 DEF Spawned, TypeOK, Located, FailureLeavesNothing
    <3> QED BY <3>1, <3>2
  <2>4. ASSUME NEW v \in Task, CutShort(v) PROVE CutShort(v)'
    BY <1>3, <2>4 DEF Spawned, TypeOK, CutShort
  <2>5. ASSUME NEW v \in Task, proc'[v] = "alive", ~CutShort(v), ~CutShort(v)'
        PROVE  claim'[v] # None /\ (pumping'[v] \/ outcome'[v] = "no digest")
    BY <1>3, <2>5 DEF Spawned, TypeOK, Located, RunningIsServed
  <2>6. RunningIsServed'
    BY <2>4, <2>5 DEF RunningIsServed
  <2> QED
    BY <2>1, <2>2, <2>3, <2>6
<1>4. ASSUME NEW t \in Task, Ready(t) PROVE Inductive'
  <2>1. TypeOK'
    BY <1>4 DEF Ready, TypeOK
  <2>2. ASSUME NEW s \in Task PROVE Located(s)'
    <3>1. CASE s = t
      BY <1>4, <3>1 DEF Ready, TypeOK, Located
    <3>2. CASE s # t
      BY <1>4, <3>2 DEF Ready, TypeOK, Located
    <3> QED BY <3>1, <3>2
  <2>3. FailureLeavesNothing'
    <3> SUFFICES ASSUME NEW s \in Task, outcome'[s] \in Failure
                 PROVE  proc'[s] # "alive" /\ claim'[s] = None /\ ~pumping'[s] /\ ~stray'[s]
      BY DEF FailureLeavesNothing
    <3>1. CASE s # t
      BY <1>4, <3>1 DEF Ready, TypeOK, FailureLeavesNothing
    <3>2. CASE s = t
      BY <1>4, <3>2 DEF Ready, TypeOK, Located, FailureLeavesNothing
    <3> QED BY <3>1, <3>2
  <2>4. ASSUME NEW v \in Task, CutShort(v) PROVE CutShort(v)'
    BY <1>4, <2>4 DEF Ready, TypeOK, CutShort
  <2>5. ASSUME NEW v \in Task, proc'[v] = "alive", ~CutShort(v), ~CutShort(v)'
        PROVE  claim'[v] # None /\ (pumping'[v] \/ outcome'[v] = "no digest")
    BY <1>4, <2>5 DEF Ready, TypeOK, Located, RunningIsServed
  <2>6. RunningIsServed'
    BY <2>4, <2>5 DEF RunningIsServed
  <2> QED
    BY <2>1, <2>2, <2>3, <2>6
<1>5. ASSUME NEW t \in Task, NotReady(t) PROVE Inductive'
  <2>1. TypeOK'
    BY <1>5 DEF NotReady, ProbeFails, TypeOK
  <2>2. ASSUME NEW s \in Task PROVE Located(s)'
    <3>1. CASE s = t
      BY <1>5, <3>1 DEF NotReady, ProbeFails, TypeOK, Located
    <3>2. CASE s # t
      BY <1>5, <3>2 DEF NotReady, ProbeFails, TypeOK, Located
    <3> QED BY <3>1, <3>2
  <2>3. FailureLeavesNothing'
    <3> SUFFICES ASSUME NEW s \in Task, outcome'[s] \in Failure
                 PROVE  proc'[s] # "alive" /\ claim'[s] = None /\ ~pumping'[s] /\ ~stray'[s]
      BY DEF FailureLeavesNothing
    <3>1. CASE s # t
      BY <1>5, <3>1 DEF NotReady, ProbeFails, TypeOK, FailureLeavesNothing
    <3>2. CASE s = t
      BY <1>5, <3>2 DEF NotReady, ProbeFails, TypeOK, Located, FailureLeavesNothing
    <3> QED BY <3>1, <3>2
  <2>4. ASSUME NEW v \in Task, CutShort(v) PROVE CutShort(v)'
    BY <1>5, <2>4 DEF NotReady, ProbeFails, TypeOK, CutShort
  <2>5. ASSUME NEW v \in Task, proc'[v] = "alive", ~CutShort(v), ~CutShort(v)'
        PROVE  claim'[v] # None /\ (pumping'[v] \/ outcome'[v] = "no digest")
    BY <1>5, <2>5 DEF NotReady, ProbeFails, TypeOK, Located, RunningIsServed
  <2>6. RunningIsServed'
    BY <2>4, <2>5 DEF RunningIsServed
  <2> QED
    BY <2>1, <2>2, <2>3, <2>6
<1>6. ASSUME NEW t \in Task, Round(t) PROVE Inductive'
  <2>1. TypeOK'
    BY <1>6 DEF Round, TypeOK
  <2>2. ASSUME NEW s \in Task PROVE Located(s)'
    <3>1. CASE s = t
      BY <1>6, <3>1 DEF Round, TypeOK, Located
    <3>2. CASE s # t
      BY <1>6, <3>2 DEF Round, TypeOK, Located
    <3> QED BY <3>1, <3>2
  <2>3. FailureLeavesNothing'
    <3> SUFFICES ASSUME NEW s \in Task, outcome'[s] \in Failure
                 PROVE  proc'[s] # "alive" /\ claim'[s] = None /\ ~pumping'[s] /\ ~stray'[s]
      BY DEF FailureLeavesNothing
    <3>1. CASE s # t
      BY <1>6, <3>1 DEF Round, TypeOK, FailureLeavesNothing
    <3>2. CASE s = t
      BY <1>6, <3>2 DEF Round, TypeOK, Located, FailureLeavesNothing
    <3> QED BY <3>1, <3>2
  <2>4. ASSUME NEW v \in Task, CutShort(v) PROVE CutShort(v)'
    BY <1>6, <2>4 DEF Round, TypeOK, CutShort
  <2>5. ASSUME NEW v \in Task, proc'[v] = "alive", ~CutShort(v), ~CutShort(v)'
        PROVE  claim'[v] # None /\ (pumping'[v] \/ outcome'[v] = "no digest")
    BY <1>6, <2>5 DEF Round, TypeOK, Located, RunningIsServed
  <2>6. RunningIsServed'
    BY <2>4, <2>5 DEF RunningIsServed
  <2> QED
    BY <2>1, <2>2, <2>3, <2>6
<1>7. ASSUME NEW t \in Task, Deadline(t) PROVE Inductive'
  BY <1>7, Stopping DEF Deadline
<1>8. ASSUME NEW t \in Task, Gathered(t) PROVE Inductive'
  <2>1. TypeOK'
    BY <1>8 DEF Gathered, TypeOK
  <2>2. ASSUME NEW s \in Task PROVE Located(s)'
    <3>1. CASE s = t
      BY <1>8, <3>1 DEF Gathered, TypeOK, Located
    <3>2. CASE s # t
      BY <1>8, <3>2 DEF Gathered, TypeOK, Located
    <3> QED BY <3>1, <3>2
  <2>3. FailureLeavesNothing'
    <3> SUFFICES ASSUME NEW s \in Task, outcome'[s] \in Failure
                 PROVE  proc'[s] # "alive" /\ claim'[s] = None /\ ~pumping'[s] /\ ~stray'[s]
      BY DEF FailureLeavesNothing
    <3>1. CASE s # t
      BY <1>8, <3>1 DEF Gathered, TypeOK, FailureLeavesNothing
    <3>2. CASE s = t
      BY <1>8, <3>2 DEF Gathered, TypeOK, Located, FailureLeavesNothing
    <3> QED BY <3>1, <3>2
  <2>4. ASSUME NEW v \in Task, CutShort(v) PROVE CutShort(v)'
    BY <1>8, <2>4 DEF Gathered, TypeOK, CutShort
  <2>5. ASSUME NEW v \in Task, proc'[v] = "alive", ~CutShort(v), ~CutShort(v)'
        PROVE  claim'[v] # None /\ (pumping'[v] \/ outcome'[v] = "no digest")
    BY <1>8, <2>5 DEF Gathered, TypeOK, Located, RunningIsServed
  <2>6. RunningIsServed'
    BY <2>4, <2>5 DEF RunningIsServed
  <2> QED
    BY <2>1, <2>2, <2>3, <2>6
<1>9. ASSUME NEW t \in Task, CallStop(t) PROVE Inductive'
  BY <1>9, Stopping DEF CallStop
<1>10. ASSUME NEW t \in Task, Exited(t) PROVE Inductive'
  <2>1. TypeOK'
    BY <1>10 DEF Exited, Finally, TypeOK
  <2>2. ASSUME NEW s \in Task PROVE Located(s)'
    <3>1. CASE s = t
      BY <1>10, <3>1 DEF Exited, Finally, TypeOK, Located
    <3>2. CASE s # t
      BY <1>10, <3>2 DEF Exited, Finally, TypeOK, Located
    <3> QED BY <3>1, <3>2
  <2>3. FailureLeavesNothing'
    <3> SUFFICES ASSUME NEW s \in Task, outcome'[s] \in Failure
                 PROVE  proc'[s] # "alive" /\ claim'[s] = None /\ ~pumping'[s] /\ ~stray'[s]
      BY DEF FailureLeavesNothing
    <3>1. CASE s # t
      BY <1>10, <3>1 DEF Exited, Finally, TypeOK, FailureLeavesNothing
    <3>2. CASE s = t
      BY <1>10, <3>2 DEF Exited, Finally, TypeOK, FailureLeavesNothing
    <3> QED BY <3>1, <3>2
  <2>4. ASSUME NEW v \in Task, CutShort(v) PROVE CutShort(v)'
    BY <1>10, <2>4 DEF Exited, Finally, TypeOK, CutShort
  <2>5. ASSUME NEW v \in Task, proc'[v] = "alive", ~CutShort(v), ~CutShort(v)'
        PROVE  claim'[v] # None /\ (pumping'[v] \/ outcome'[v] = "no digest")
    BY <1>10, <2>5 DEF Exited, Finally, TypeOK, Located, RunningIsServed
  <2>6. RunningIsServed'
    BY <2>4, <2>5 DEF RunningIsServed
  <2> QED
    BY <2>1, <2>2, <2>3, <2>6
<1>11. ASSUME NEW t \in Task, Kill(t) PROVE Inductive'
  <2>1. TypeOK'
    BY <1>11 DEF Kill, TypeOK
  <2>2. ASSUME NEW s \in Task PROVE Located(s)'
    <3>1. CASE s = t
      BY <1>11, <3>1 DEF Kill, TypeOK, Located
    <3>2. CASE s # t
      BY <1>11, <3>2 DEF Kill, TypeOK, Located
    <3> QED BY <3>1, <3>2
  <2>3. FailureLeavesNothing'
    <3> SUFFICES ASSUME NEW s \in Task, outcome'[s] \in Failure
                 PROVE  proc'[s] # "alive" /\ claim'[s] = None /\ ~pumping'[s] /\ ~stray'[s]
      BY DEF FailureLeavesNothing
    <3>1. CASE s # t
      BY <1>11, <3>1 DEF Kill, TypeOK, FailureLeavesNothing
    <3>2. CASE s = t
      BY <1>11, <3>2 DEF Kill, TypeOK, Located, FailureLeavesNothing
    <3> QED BY <3>1, <3>2
  <2>4. ASSUME NEW v \in Task, CutShort(v) PROVE CutShort(v)'
    BY <1>11, <2>4 DEF Kill, TypeOK, CutShort
  <2>5. ASSUME NEW v \in Task, proc'[v] = "alive", ~CutShort(v), ~CutShort(v)'
        PROVE  claim'[v] # None /\ (pumping'[v] \/ outcome'[v] = "no digest")
    BY <1>11, <2>5 DEF Kill, TypeOK, Located, RunningIsServed
  <2>6. RunningIsServed'
    BY <2>4, <2>5 DEF RunningIsServed
  <2> QED
    BY <2>1, <2>2, <2>3, <2>6
<1>12. ASSUME NEW t \in Task, Killed(t) PROVE Inductive'
  <2>1. TypeOK'
    BY <1>12 DEF Killed, Finally, TypeOK
  <2>2. ASSUME NEW s \in Task PROVE Located(s)'
    <3>1. CASE s = t
      BY <1>12, <3>1 DEF Killed, Finally, TypeOK, Located
    <3>2. CASE s # t
      BY <1>12, <3>2 DEF Killed, Finally, TypeOK, Located
    <3> QED BY <3>1, <3>2
  <2>3. FailureLeavesNothing'
    <3> SUFFICES ASSUME NEW s \in Task, outcome'[s] \in Failure
                 PROVE  proc'[s] # "alive" /\ claim'[s] = None /\ ~pumping'[s] /\ ~stray'[s]
      BY DEF FailureLeavesNothing
    <3>1. CASE s # t
      BY <1>12, <3>1 DEF Killed, Finally, TypeOK, FailureLeavesNothing
    <3>2. CASE s = t
      BY <1>12, <3>2 DEF Killed, Finally, TypeOK, FailureLeavesNothing
    <3> QED BY <3>1, <3>2
  <2>4. ASSUME NEW v \in Task, CutShort(v) PROVE CutShort(v)'
    BY <1>12, <2>4 DEF Killed, Finally, TypeOK, CutShort
  <2>5. ASSUME NEW v \in Task, proc'[v] = "alive", ~CutShort(v), ~CutShort(v)'
        PROVE  claim'[v] # None /\ (pumping'[v] \/ outcome'[v] = "no digest")
    BY <1>12, <2>5 DEF Killed, Finally, TypeOK, Located, RunningIsServed
  <2>6. RunningIsServed'
    BY <2>4, <2>5 DEF RunningIsServed
  <2> QED
    BY <2>1, <2>2, <2>3, <2>6
<1>13. ASSUME NEW t \in Task, Reaped(t) PROVE Inductive'
  <2>1. TypeOK'
    BY <1>13 DEF Reaped, TypeOK
  <2>2. ASSUME NEW s \in Task PROVE Located(s)'
    <3>1. CASE s = t
      <4>1. pc'[t] = "idle" /\ cur'[t] = None /\ outcome'[t] # None
        BY <1>13 DEF Reaped, TypeOK
      <4>2. outcome[t] = None => proc[t] # "none"
        BY <1>13 DEF Reaped, Located
      <4> QED BY <1>13, <3>1, <4>1, <4>2 DEF Reaped, TypeOK, Located
    <3>2. CASE s # t
      BY <1>13, <3>2 DEF Reaped, TypeOK, Located
    <3> QED BY <3>1, <3>2
  <2>3. FailureLeavesNothing'
    <3> SUFFICES ASSUME NEW s \in Task, outcome'[s] \in Failure
                 PROVE  proc[s] # "alive" /\ claim[s] = None /\ ~pumping[s] /\ ~stray[s]
      BY <1>13 DEF Reaped, FailureLeavesNothing
    <3>1. CASE s # t
      BY <1>13, <3>1 DEF Reaped, TypeOK, FailureLeavesNothing
    <3>2. CASE s = t /\ outcome[t] = None
      <4>1. cur[t] = t
        BY <1>13, <3>2 DEF Reaped, Located
      <4> QED BY <1>13, <3>2, <4>1 DEF Reaped, Located
    <3>3. CASE s = t /\ outcome[t] # None
      BY <1>13, <3>3 DEF Reaped, FailureLeavesNothing
    <3> QED BY <3>1, <3>2, <3>3
  <2>4. ASSUME NEW v \in Task, CutShort(v) PROVE CutShort(v)'
    BY <1>13, <2>4 DEF Reaped, TypeOK, CutShort
  <2>5. ASSUME NEW v \in Task, proc'[v] = "alive", ~CutShort(v), ~CutShort(v)'
        PROVE  claim'[v] # None /\ (pumping'[v] \/ outcome'[v] = "no digest")
    BY <1>13, <2>5 DEF Reaped, TypeOK, Located, RunningIsServed
  <2>6. RunningIsServed'
    BY <2>4, <2>5 DEF RunningIsServed
  <2> QED
    BY <2>1, <2>2, <2>3, <2>6
<1>14. ASSUME NEW t \in Task, Cancel(t) PROVE Inductive'
  <2>0. UNCHANGED <<dirs, proc>>
    BY <1>14 DEF Cancel
  <2>7. cancels' \in 0 .. MaxCancel
    <3>1. cancels < MaxCancel /\ cancels' = cancels + 1
      BY <1>14 DEF Cancel
    <3>2. cancels \in 0 .. MaxCancel
      BY DEF TypeOK
    <3>3. MaxCancel \in Nat
      BY LaunchConstants
    <3> QED BY <3>1, <3>2, <3>3, Counting
  <2>1. CASE pc[t] = "spawning" /\ Raises(t) /\ claim' = Set(claim, t, None) /\ UNCHANGED <<cur, pumping, stray>>
    <3>1. TypeOK'
      BY <2>0, <2>7, <2>1 DEF TypeOK
    <3>2. ASSUME NEW s \in Task PROVE Located(s)'
      <4>1. CASE s = t
        BY <2>0, <2>7, <2>1, <4>1 DEF TypeOK, Located
      <4>2. CASE s # t
        BY <2>0, <2>7, <2>1, <4>2 DEF TypeOK, Located
      <4> QED BY <4>1, <4>2
    <3>3. FailureLeavesNothing'
      <4> SUFFICES ASSUME NEW s \in Task, outcome'[s] \in Failure
                   PROVE  proc'[s] # "alive" /\ claim'[s] = None /\ ~pumping'[s] /\ ~stray'[s]
        BY DEF FailureLeavesNothing
      <4>1. CASE s # t
        BY <2>0, <2>7, <2>1, <4>1 DEF TypeOK, FailureLeavesNothing
      <4>2. CASE s = t
        BY <2>0, <2>7, <2>1, <4>2 DEF TypeOK, Located, FailureLeavesNothing
      <4> QED BY <4>1, <4>2
    <3>4. ASSUME NEW v \in Task, CutShort(v) PROVE CutShort(v)'
      BY <2>0, <2>7, <2>1, <3>4 DEF TypeOK, CutShort
    <3>5. ASSUME NEW v \in Task, proc'[v] = "alive", ~CutShort(v), ~CutShort(v)'
          PROVE  claim'[v] # None /\ (pumping'[v] \/ outcome'[v] = "no digest")
      BY <2>0, <2>7, <2>1, <3>5 DEF TypeOK, Located, RunningIsServed
    <3>6. RunningIsServed'
      BY <3>4, <3>5 DEF RunningIsServed
    <3> QED
      BY <3>1, <3>2, <3>3, <3>6
  <2>2. CASE pc[t] = "probing" /\ ProbeFails(t) /\ UNCHANGED <<cur, outcome, claim, pumping>>
    <3>1. TypeOK'
      BY <2>0, <2>7, <2>2 DEF ProbeFails, TypeOK
    <3>2. ASSUME NEW s \in Task PROVE Located(s)'
      <4>1. CASE s = t
        BY <2>0, <2>7, <2>2, <4>1 DEF ProbeFails, TypeOK, Located
      <4>2. CASE s # t
        BY <2>0, <2>7, <2>2, <4>2 DEF ProbeFails, TypeOK, Located
      <4> QED BY <4>1, <4>2
    <3>3. FailureLeavesNothing'
      <4> SUFFICES ASSUME NEW s \in Task, outcome'[s] \in Failure
                   PROVE  proc'[s] # "alive" /\ claim'[s] = None /\ ~pumping'[s] /\ ~stray'[s]
        BY DEF FailureLeavesNothing
      <4>1. CASE s # t
        BY <2>0, <2>7, <2>2, <4>1 DEF ProbeFails, TypeOK, FailureLeavesNothing
      <4>2. CASE s = t
        BY <2>0, <2>7, <2>2, <4>2 DEF ProbeFails, TypeOK, Located, FailureLeavesNothing
      <4> QED BY <4>1, <4>2
    <3>4. ASSUME NEW v \in Task, CutShort(v) PROVE CutShort(v)'
      BY <2>0, <2>7, <2>2, <3>4 DEF ProbeFails, TypeOK, CutShort
    <3>5. ASSUME NEW v \in Task, proc'[v] = "alive", ~CutShort(v), ~CutShort(v)'
          PROVE  claim'[v] # None /\ (pumping'[v] \/ outcome'[v] = "no digest")
      BY <2>0, <2>7, <2>2, <3>5 DEF ProbeFails, TypeOK, Located, RunningIsServed
    <3>6. RunningIsServed'
      BY <3>4, <3>5 DEF RunningIsServed
    <3> QED
      BY <3>1, <3>2, <3>3, <3>6
  <2>3. CASE pc[t] = "sleeping" /\ Raises(t) /\ UNCHANGED <<cur, claim, pumping, stray>>
    <3>1. TypeOK'
      BY <2>0, <2>7, <2>3 DEF TypeOK
    <3>2. ASSUME NEW s \in Task PROVE Located(s)'
      <4>1. CASE s = t
        BY <2>0, <2>7, <2>3, <4>1 DEF TypeOK, Located
      <4>2. CASE s # t
        BY <2>0, <2>7, <2>3, <4>2 DEF TypeOK, Located
      <4> QED BY <4>1, <4>2
    <3>3. FailureLeavesNothing'
      <4> SUFFICES ASSUME NEW s \in Task, outcome'[s] \in Failure
                   PROVE  proc'[s] # "alive" /\ claim'[s] = None /\ ~pumping'[s] /\ ~stray'[s]
        BY DEF FailureLeavesNothing
      <4>1. CASE s # t
        BY <2>0, <2>7, <2>3, <4>1 DEF TypeOK, FailureLeavesNothing
      <4>2. CASE s = t
        <5>1. outcome'[t] = "cancelled"
          BY <2>3 DEF TypeOK, Located
        <5> QED BY <4>2, <5>1
      <4> QED BY <4>1, <4>2
    <3>4. ASSUME NEW v \in Task, CutShort(v) PROVE CutShort(v)'
      BY <2>0, <2>7, <2>3, <3>4 DEF TypeOK, CutShort
    <3>5. ASSUME NEW v \in Task, proc'[v] = "alive", ~CutShort(v), ~CutShort(v)'
          PROVE  claim'[v] # None /\ (pumping'[v] \/ outcome'[v] = "no digest")
      BY <2>0, <2>7, <2>3, <3>5 DEF TypeOK, Located, RunningIsServed
    <3>6. RunningIsServed'
      BY <3>4, <3>5 DEF RunningIsServed
    <3> QED
      BY <3>1, <3>2, <3>3, <3>6
  <2>4. CASE pc[t] = "gathering" /\ Raises(t) /\ pumping' = Set(pumping, t, FALSE)
            /\ UNCHANGED <<cur, claim, stray>>
    <3>1. TypeOK'
      BY <2>0, <2>7, <2>4 DEF TypeOK
    <3>2. ASSUME NEW s \in Task PROVE Located(s)'
      <4>1. CASE s = t
        BY <2>0, <2>7, <2>4, <4>1 DEF TypeOK, Located
      <4>2. CASE s # t
        BY <2>0, <2>7, <2>4, <4>2 DEF TypeOK, Located
      <4> QED BY <4>1, <4>2
    <3>3. FailureLeavesNothing'
      <4> SUFFICES ASSUME NEW s \in Task, outcome'[s] \in Failure
                   PROVE  proc'[s] # "alive" /\ claim'[s] = None /\ ~pumping'[s] /\ ~stray'[s]
        BY DEF FailureLeavesNothing
      <4>1. CASE s # t
        BY <2>0, <2>7, <2>4, <4>1 DEF TypeOK, FailureLeavesNothing
      <4>2. CASE s = t
        BY <2>0, <2>7, <2>4, <4>2 DEF TypeOK, Located, FailureLeavesNothing
      <4> QED BY <4>1, <4>2
    <3>4. ASSUME NEW v \in Task, CutShort(v) PROVE CutShort(v)'
      BY <2>0, <2>7, <2>4, <3>4 DEF TypeOK, CutShort
    <3>5. ASSUME NEW v \in Task, proc'[v] = "alive", ~CutShort(v), ~CutShort(v)'
          PROVE  claim'[v] # None /\ (pumping'[v] \/ outcome'[v] = "no digest")
      BY <2>0, <2>7, <2>4, <3>5 DEF TypeOK, Located, RunningIsServed
    <3>6. RunningIsServed'
      BY <3>4, <3>5 DEF RunningIsServed
    <3> QED
      BY <3>1, <3>2, <3>3, <3>6
  <2>5. CASE pc[t] \in {"terminating", "killing"} /\ Finally(t, cur[t], "unwinding")
            /\ UNCHANGED <<outcome, stray>>
    <3>1. TypeOK'
      BY <2>0, <2>7, <2>5 DEF Finally, TypeOK
    <3>2. ASSUME NEW s \in Task PROVE Located(s)'
      <4>1. CASE s = t
        BY <2>0, <2>7, <2>5, <4>1 DEF Finally, TypeOK, Located
      <4>2. CASE s # t
        BY <2>0, <2>7, <2>5, <4>2 DEF Finally, TypeOK, Located
      <4> QED BY <4>1, <4>2
    <3>3. FailureLeavesNothing'
      <4> SUFFICES ASSUME NEW s \in Task, outcome'[s] \in Failure
                   PROVE  proc'[s] # "alive" /\ claim'[s] = None /\ ~pumping'[s] /\ ~stray'[s]
        BY DEF FailureLeavesNothing
      <4>1. CASE s # t
        BY <2>0, <2>7, <2>5, <4>1 DEF Finally, TypeOK, FailureLeavesNothing
      <4>2. CASE s = t
        BY <2>0, <2>5, <4>2 DEF Finally, TypeOK, FailureLeavesNothing
      <4> QED BY <4>1, <4>2
    <3>4. ASSUME NEW v \in Task, CutShort(v) PROVE CutShort(v)'
      BY <2>0, <2>7, <2>5, <3>4 DEF Finally, TypeOK, CutShort
    <3>5. ASSUME NEW v \in Task, proc'[v] = "alive", ~CutShort(v), ~CutShort(v)'
          PROVE  claim'[v] # None /\ (pumping'[v] \/ outcome'[v] = "no digest")
      <4>1. \E l \in Task : l = cur[t] /\ CutShort(l)'
        <5>1. cur[t] \in Task /\ cur'[t] = cur[t] /\ pc'[t] = "unwinding"
          BY <2>5 DEF Finally, TypeOK, Located
        <5> QED BY <5>1 DEF CutShort
      <4>2. v # cur[t]
        BY <4>1, <3>5
      <4> QED BY <2>0, <2>7, <2>5, <4>2, <3>5 DEF Finally, TypeOK, Located, RunningIsServed
    <3>6. RunningIsServed'
      BY <3>4, <3>5 DEF RunningIsServed
    <3> QED
      BY <3>1, <3>2, <3>3, <3>6
  <2>6. CASE pc[t] \in {"reaping", "unwinding"} /\ Raises(t) /\ UNCHANGED <<cur, claim, pumping, stray>>
    <3>1. TypeOK'
      BY <2>0, <2>7, <2>6 DEF TypeOK
    <3>2. ASSUME NEW s \in Task PROVE Located(s)'
      <4>1. CASE s = t
        BY <2>0, <2>7, <2>6, <4>1 DEF TypeOK, Located
      <4>2. CASE s # t
        BY <2>0, <2>7, <2>6, <4>2 DEF TypeOK, Located
      <4> QED BY <4>1, <4>2
    <3>3. FailureLeavesNothing'
      <4> SUFFICES ASSUME NEW s \in Task, outcome'[s] \in Failure
                   PROVE  proc'[s] # "alive" /\ claim'[s] = None /\ ~pumping'[s] /\ ~stray'[s]
        BY DEF FailureLeavesNothing
      <4>1. CASE s # t
        BY <2>0, <2>7, <2>6, <4>1 DEF TypeOK, FailureLeavesNothing
      <4>2. CASE s = t
        <5>1. outcome'[t] = outcome[t]
          BY <2>6, <4>2 DEF TypeOK
        <5> QED BY <2>0, <2>6, <4>2, <5>1 DEF FailureLeavesNothing
      <4> QED BY <4>1, <4>2
    <3>4. ASSUME NEW v \in Task, CutShort(v) PROVE CutShort(v)'
      BY <2>0, <2>7, <2>6, <3>4 DEF TypeOK, CutShort
    <3>5. ASSUME NEW v \in Task, proc'[v] = "alive", ~CutShort(v), ~CutShort(v)'
          PROVE  claim'[v] # None /\ (pumping'[v] \/ outcome'[v] = "no digest")
      BY <2>0, <2>7, <2>6, <3>5 DEF TypeOK, Located, RunningIsServed
    <3>6. RunningIsServed'
      BY <3>4, <3>5 DEF RunningIsServed
    <3> QED
      BY <3>1, <3>2, <3>3, <3>6
  <2> QED
    BY <1>14, <2>1, <2>2, <2>3, <2>4, <2>5, <2>6 DEF Cancel
<1>15. ASSUME NEW t \in Task, Unwound(t) PROVE Inductive'
  <2>1. TypeOK'
    BY <1>15 DEF Unwound, TypeOK
  <2>2. ASSUME NEW s \in Task PROVE Located(s)'
    <3>1. CASE s = t
      BY <1>15, <3>1 DEF Unwound, TypeOK, Located
    <3>2. CASE s # t
      BY <1>15, <3>2 DEF Unwound, TypeOK, Located
    <3> QED BY <3>1, <3>2
  <2>3. FailureLeavesNothing'
    <3> SUFFICES ASSUME NEW s \in Task, outcome'[s] \in Failure
                 PROVE  proc'[s] # "alive" /\ claim'[s] = None /\ ~pumping'[s] /\ ~stray'[s]
      BY DEF FailureLeavesNothing
    <3>1. CASE s # t
      BY <1>15, <3>1 DEF Unwound, TypeOK, FailureLeavesNothing
    <3>2. CASE s = t
      <4>1. outcome'[t] = outcome[t]
        BY <1>15, <3>2 DEF Unwound, TypeOK
      <4> QED BY <1>15, <3>2, <4>1 DEF Unwound, FailureLeavesNothing
    <3> QED BY <3>1, <3>2
  <2>4. ASSUME NEW v \in Task, CutShort(v) PROVE CutShort(v)'
    BY <1>15, <2>4 DEF Unwound, TypeOK, CutShort
  <2>5. ASSUME NEW v \in Task, proc'[v] = "alive", ~CutShort(v), ~CutShort(v)'
        PROVE  claim'[v] # None /\ (pumping'[v] \/ outcome'[v] = "no digest")
    BY <1>15, <2>5 DEF Unwound, TypeOK, Located, RunningIsServed
  <2>6. RunningIsServed'
    BY <2>4, <2>5 DEF RunningIsServed
  <2> QED
    BY <2>1, <2>2, <2>3, <2>6
<1>16. ASSUME NEW t \in Task, Dies(t) PROVE Inductive'
  <2>1. TypeOK'
    BY <1>16 DEF Dies, TypeOK
  <2>2. ASSUME NEW s \in Task PROVE Located(s)'
    <3>1. CASE s = t
      <4>1. stray'[t] => proc'[t] = "alive"
        BY <1>16 DEF Dies, TypeOK
      <4>2. pc'[t] \in {"terminating", "killing", "reaping", "unwinding"} =>
              cur'[t] # None /\ proc'[cur'[t]] # "none" /\ (outcome'[t] = None => cur'[t] = t)
        BY <1>16 DEF Dies, TypeOK, Located
      <4>3. pc'[t] = "reaping" =>
              proc'[cur'[t]] = "dead" /\ claim'[cur'[t]] = None /\ ~pumping'[cur'[t]]
        BY <1>16 DEF Dies, TypeOK, Located
      <4> QED BY <1>16, <3>1, <4>1, <4>2, <4>3 DEF Dies, TypeOK, Located
    <3>2. CASE s # t
      BY <1>16, <3>2 DEF Dies, TypeOK, Located
    <3> QED BY <3>1, <3>2
  <2>3. FailureLeavesNothing'
    <3> SUFFICES ASSUME NEW s \in Task, outcome'[s] \in Failure
                 PROVE  proc'[s] # "alive" /\ claim'[s] = None /\ ~pumping'[s] /\ ~stray'[s]
      BY DEF FailureLeavesNothing
    <3>1. CASE s # t
      BY <1>16, <3>1 DEF Dies, TypeOK, FailureLeavesNothing
    <3>2. CASE s = t
      BY <1>16, <3>2 DEF Dies, TypeOK, Located, FailureLeavesNothing
    <3> QED BY <3>1, <3>2
  <2>4. ASSUME NEW v \in Task, CutShort(v) PROVE CutShort(v)'
    BY <1>16, <2>4 DEF Dies, TypeOK, CutShort
  <2>5. ASSUME NEW v \in Task, proc'[v] = "alive", ~CutShort(v), ~CutShort(v)'
        PROVE  claim'[v] # None /\ (pumping'[v] \/ outcome'[v] = "no digest")
    BY <1>16, <2>5 DEF Dies, TypeOK, Located, RunningIsServed
  <2>6. RunningIsServed'
    BY <2>4, <2>5 DEF RunningIsServed
  <2> QED
    BY <2>1, <2>2, <2>3, <2>6
<1>17. CASE UNCHANGED vars
  <2>1. TypeOK' /\ FailureLeavesNothing'
    BY <1>17 DEF vars, TypeOK, FailureLeavesNothing
  <2>2. \A s \in Task : Located(s)'
    BY <1>17 DEF vars, Located
  <2>3. RunningIsServed'
    BY <1>17 DEF vars, RunningIsServed, CutShort
  <2> QED
    BY <2>1, <2>2, <2>3
<1> QED
  BY <1>1, <1>2, <1>3, <1>4, <1>5, <1>6, <1>7, <1>8, <1>9, <1>10, <1>11, <1>12, <1>13, <1>14, <1>15, <1>16, <1>17 DEF Next, LaunchStep, StopStep

\* Every state of launch() and stop() satisfies the inductive invariant.
THEOREM Invariance == Spec => []Inductive
<1>1. Init => Inductive
  <2> SUFFICES ASSUME Init PROVE Inductive
    OBVIOUS
  <2>1. TypeOK
    <3>0. MaxCancel \in Nat
      BY LaunchConstants
    <3>1. 0 \in 0 .. MaxCancel
      BY <3>0, Counting
    <3> QED BY <3>1 DEF Init, TypeOK
  <2>2. FailureLeavesNothing /\ RunningIsServed
    BY DEF Init, FailureLeavesNothing, RunningIsServed
  <2>3. \A t \in Task : Located(t)
    BY DEF Init, Located
  <2> QED BY <2>1, <2>2, <2>3 DEF Inductive
<1> QED
  BY <1>1, Step, PTL DEF Spec

\* Every variable of launch() and stop() keeps its type.
THEOREM Typing == Spec => []TypeOK
<1>1. Inductive => TypeOK
  BY DEF Inductive
<1> QED
  BY <1>1, Invariance, PTL

\* A launch that failed leaves no process, port, pump or connection.
THEOREM FailuresClean == Spec => []FailureLeavesNothing
<1>1. Inductive => FailureLeavesNothing
  BY DEF Inductive
<1> QED
  BY <1>1, Invariance, PTL

\* A running VICE keeps its port and its pumps until a stop() of it is cut short.
THEOREM RunningServed == Spec => []RunningIsServed
<1>1. Inductive => RunningIsServed
  BY DEF Inductive
<1> QED
  BY <1>1, Invariance, PTL

-----------------------------------------------------------------------------
(* The ports.  A controller is one of the users of PortRegistry, which PortAllocator
   implements: its leases are the reservations of the VICEs that its tasks launch. *)

Leased ==
  {[by |-> "controller", port |-> claim[l], tok |-> l] : l \in {v \in Task : claim[v] # None}}

Ports == INSTANCE PortRegistry
           WITH issued <- Leased, Allocator <- {"controller"}, Proc <- {}, ProcOf <- [a \in {} |-> a],
                Token <- Task

\* A lease is taken on a port without one, for a VICE that has none.
Takes ==
  \E l \in Task, p \in Port :
    claim[l] = None /\ (\A v \in Task : claim[v] # p) /\ claim' = Set(claim, l, p)

\* The lease of a VICE is given back; once more changes nothing.
GivesBack == \E l \in Task : claim' = Set(claim, l, None)

\* A step of a task takes one lease, gives one back or leaves them alone.
LEMMA ClaimStep ==
  ASSUME Inductive, [Next]_vars PROVE Takes \/ GivesBack \/ claim' = claim
<1>1. ASSUME NEW t \in Task, Launch(t), claim' # claim PROVE Takes
  <2>1. PICK p \in Port \ {claim[s] : s \in Task} : claim' = Set(claim, t, p)
    BY <1>1 DEF Launch
  <2>2. claim[t] = None
    BY <1>1 DEF Launch, Inductive, Located
  <2> QED BY <2>1, <2>2 DEF Takes
<1>2. ASSUME NEW t \in Task, pc[t] \in {"terminating", "killing"} PROVE cur[t] \in Task
  BY <1>2 DEF Inductive, TypeOK, Located
<1>3. ASSUME NEW t \in Task, LaunchStep(t) PROVE GivesBack \/ claim' = claim
  BY <1>3 DEF LaunchStep, NotSpawned, Spawned, Ready, NotReady, ProbeFails, Round, Deadline,
    StartStop, Finally, Gathered, GivesBack
<1>4. ASSUME NEW t \in Task, CallStop(t) \/ StopStep(t) PROVE GivesBack \/ claim' = claim
  BY <1>2, <1>4 DEF CallStop, StartStop, StopStep, Exited, Kill, Killed, Reaped, Unwound, Finally,
    GivesBack
<1>5. ASSUME NEW t \in Task, Cancel(t) PROVE GivesBack \/ claim' = claim
  BY <1>2, <1>5 DEF Cancel, ProbeFails, Finally, GivesBack
<1>6. ASSUME NEW l \in Task, Dies(l) PROVE claim' = claim
  BY <1>6 DEF Dies
<1>7. UNCHANGED vars => claim' = claim
  BY DEF vars
<1> QED BY <1>1, <1>3, <1>4, <1>5, <1>6, <1>7 DEF Next

\* Seen in the registry, these are its steps.
LEMMA LeasedStep ==
  ASSUME TypeOK, Takes \/ GivesBack \/ claim' = claim PROVE [Ports!Next]_Leased
<1> DEFINE Of(l, p) == [by |-> "controller", port |-> p, tok |-> l]
<1>0. claim \in [Task -> Port \cup {None}] /\ None \notin Port
  BY DEF TypeOK
<1>f. ASSUME NEW l, NEW p PROVE Of(l, p).by = "controller" /\ Of(l, p).port = p /\ Of(l, p).tok = l
  OBVIOUS
<1>1. CASE Takes
  <2>1. PICK l \in Task, p \in Port :
          claim[l] = None /\ (\A v \in Task : claim[v] # p) /\ claim' = [claim EXCEPT ![l] = p]
    BY <1>1 DEF Takes
  <2>2. \A v \in Task : claim'[v] = IF v = l THEN p ELSE claim[v]
    BY <1>0, <2>1
  <2>3. Leased' = Leased \cup {Of(l, p)}
    BY <1>0, <2>1, <2>2 DEF Leased
  <2>4. Of(l, p) \in Ports!Entry
    BY DEF Ports!Entry
  <2>5. ASSUME NEW f \in Leased PROVE f.port # p
    <3>1. PICK v \in Task : claim[v] # None /\ f = Of(v, claim[v])
      BY DEF Leased
    <3>2. f.port = claim[v]
      BY <3>1, <1>f
    <3> QED BY <2>1, <3>2
  <2> QED BY <2>3, <2>4, <2>5 DEF Ports!Next, Ports!Grant
<1>2. CASE GivesBack
  <2>1. PICK l \in Task : claim' = [claim EXCEPT ![l] = None]
    BY <1>2 DEF GivesBack
  <2>2. \A v \in Task : claim'[v] = IF v = l THEN None ELSE claim[v]
    BY <1>0, <2>1
  <2>3. CASE claim[l] = None
    <3>1. claim' = claim
      BY <1>0, <2>1, <2>3
    <3> QED BY <3>1 DEF Leased
  <2>4. CASE claim[l] # None
    <3>1. Of(l, claim[l]) \in Leased
      BY <2>4 DEF Leased
    <3>2. \A v \in Task : Of(v, claim[v]) = Of(l, claim[l]) => v = l
      BY <1>f
    <3>3. \A v \in Task : claim'[v] # None <=> v # l /\ claim[v] # None
      BY <2>2
    <3>4. \A v \in Task : v # l => claim'[v] = claim[v]
      BY <2>2
    <3>5. Leased' = Leased \ {Of(l, claim[l])}
      <4>1. ASSUME NEW f \in Leased' PROVE f \in Leased \ {Of(l, claim[l])}
        <5>1. PICK v \in Task : claim'[v] # None /\ f = Of(v, claim'[v])
          BY DEF Leased
        <5> QED BY <3>2, <3>3, <3>4, <5>1 DEF Leased
      <4>2. ASSUME NEW f \in Leased \ {Of(l, claim[l])} PROVE f \in Leased'
        <5>1. PICK v \in Task : claim[v] # None /\ f = Of(v, claim[v])
          BY DEF Leased
        <5> QED BY <3>3, <3>4, <4>2, <5>1 DEF Leased
      <4> QED BY <4>1, <4>2
    <3> QED BY <3>1, <3>5 DEF Ports!Next, Ports!Return
  <2> QED BY <2>3, <2>4
<1>3. CASE claim' = claim
  BY <1>3 DEF Leased
<1> QED BY <1>1, <1>2, <1>3

\* The controller uses the ports as PortAllocator lets it: a port is granted to a VICE while
\* nobody holds it, and a lease that two stops release is given back once.
THEOREM UsesRegistry == Spec => Ports!Spec
<1>1. Init => Ports!Init
  BY DEF Init, Leased, Ports!Init
<1>2. Inductive /\ [Next]_vars => [Ports!Next]_Leased
  BY ClaimStep, LeasedStep DEF Inductive
<1> QED BY <1>1, <1>2, Invariance, PTL DEF Spec, Ports!Spec

\* Two VICE processes have the same monitor port only after a stop() of one of them was cut
\* short: it released the port of a process it had not waited for.
THEOREM PortsApart ==
  Spec => [](\A v, l \in Task :
               /\ proc[v] = "alive" /\ proc[l] = "alive"
               /\ ~CutShort(v) /\ ~CutShort(l) /\ claim[v] = claim[l]
               => v = l)
<1> DEFINE Unshared == \A v, l \in Task : claim[v] # None /\ claim[v] = claim[l] => v = l
<1>1. Init => Unshared
  BY DEF Init
<1>2. Inductive /\ Unshared /\ [Next]_vars => Unshared'
  <2> SUFFICES ASSUME Inductive, Unshared, [Next]_vars, NEW v \in Task, NEW l \in Task,
                      claim'[v] # None, claim'[v] = claim'[l]
               PROVE  v = l
    OBVIOUS
  <2>0. claim \in [Task -> Port \cup {None}] /\ None \notin Port
    BY DEF Inductive, TypeOK
  <2>1. Takes \/ GivesBack \/ claim' = claim
    BY ClaimStep
  <2>2. CASE Takes
    <3>1. PICK s \in Task, p \in Port :
            (\A w \in Task : claim[w] # p) /\ claim' = [claim EXCEPT ![s] = p]
      BY <2>2 DEF Takes
    <3>2. \A w \in Task : claim'[w] = IF w = s THEN p ELSE claim[w]
      BY <2>0, <3>1
    <3>3. CASE v = s
      BY <3>1, <3>2, <3>3
    <3>4. CASE v # s
      BY <3>1, <3>2, <3>4
    <3> QED BY <3>3, <3>4
  <2>3. CASE GivesBack
    <3>1. PICK s \in Task : claim' = [claim EXCEPT ![s] = None]
      BY <2>3 DEF GivesBack
    <3>2. \A w \in Task : claim'[w] = IF w = s THEN None ELSE claim[w]
      BY <2>0, <3>1
    <3> QED BY <3>2
  <2> QED BY <2>1, <2>2, <2>3
<1>3. Inductive /\ Unshared =>
        \A v, l \in Task :
          /\ proc[v] = "alive" /\ proc[l] = "alive"
          /\ ~CutShort(v) /\ ~CutShort(l) /\ claim[v] = claim[l]
          => v = l
  BY DEF Inductive, RunningIsServed
<1> QED BY <1>1, <1>2, <1>3, Invariance, PTL DEF Spec
=============================================================================
