----------------------------- MODULE BatchRunProofs -----------------------------
(* Proofs about BatchRun, for any set of runs, cases, workers and ports. *)
EXTENDS BatchRun, FiniteSetTheorems, WellFoundedInduction, TLAPS

-----------------------------------------------------------------------------
(* The inductive invariant speaks of one run at a time: *)

Before == {"idle", "allocate"}
Reserving == {"reserving", "unwind"}
Holding == Reserving \cup Pooled \cup {"release", "freeing"}
Over == {"release", "freeing", "write", "done", "raised"}
Sweeping == {"signal", "cancelling"}

\* its variables have their types, the ports in their order;
Fields ==
  /\ lock \in Run \cup {None}
  /\ owner \in [Port -> Run \cup {Other, None}]
  /\ pc \in [Run -> Before \cup Pooled \cup Over \cup Reserving]
  /\ ports \in [Run -> Seq(Port)] /\ results \in [Run -> SUBSET Case] /\ asked \in [Run -> Nat]
  /\ fut \in [Run -> [Case -> {"pending", "cancelled"} \cup Busy \cup Finished \cup Lost]]
  /\ failFast \in [Run -> BOOLEAN] /\ cancel \in [Run -> {"missing", "clear", "set"}]

\* it holds the ports of its list, each of them once, and no other;
Listed(r) == Len(ports[r]) <= Count
Owns(r) ==
  /\ pc[r] \in Before => ports[r] = <<>>
  /\ pc[r] \in Holding => \A i \in 1 .. Len(ports[r]) : owner[ports[r][i]] = r
  /\ \A i, j \in 1 .. Len(ports[r]) : ports[r][i] = ports[r][j] => i = j
  /\ \A p \in Port : owner[p] = r =>
       pc[r] \in Holding /\ \E i \in 1 .. Len(ports[r]) : p = ports[r][i]

\* a thread that reserves or frees has the lock, one that found too few ports for good;
HasLock(r) == pc[r] \in Reserving \cup {"freeing"} <=> lock = r

\* cases begin once every port is reserved, and the ports go when every case has ended;
Phased(r) ==
  /\ pc[r] \in Pooled \cup {"release", "freeing"} => Len(ports[r]) = Count
  /\ pc[r] \in Before \cup Reserving => results[r] = {} /\ \A c \in Case : fut[r][c] = "pending"
  /\ pc[r] \in Over => \A c \in Case : fut[r][c] \in Finished \cup Lost

\* what is collected has ended, and after a failure under fail_fast nothing is left to begin;
Collected(r) ==
  /\ \A c \in results[r] : fut[r][c] \in Finished
  /\ pc[r] \in {"write", "done"} => results[r] = Case
  /\ FailureSeen(r) /\ pc[r] \notin Sweeping => \A c \in Case : fut[r][c] # "pending"
  /\ FailureSeen(r) /\ pc[r] # "signal" => cancel[r] \in {"missing", "set"}

\* the loop of cancels has left none of the futures it has gone through to begin.
Swept(r) ==
  /\ asked[r] # 0 => pc[r] = "cancelling"
  /\ pc[r] \in Sweeping => asked[r] < Count
  /\ \A c \in 1 .. asked[r] : fut[r][c] # "pending"

Sound(r) == Listed(r) /\ Owns(r) /\ HasLock(r) /\ Phased(r) /\ Collected(r) /\ Swept(r)

BatchInductive == Fields /\ \A r \in Run : Sound(r)

-----------------------------------------------------------------------------

\* The port offered to a case is a free one.
LEMMA OfferedFree == ASSUME NEW r, NEW i PROVE \A p \in Offered(r, i) : p \in Port /\ owner[p] = None
  BY DEF Offered

\* A thread, the owner of a foreign port and None are told apart.
LEMMA Apart == None \notin Run /\ Other \notin Run /\ Other # None
  BY BatchConstants

\* What has been said of a run holds for as long as its variables and its ports stay.
LEMMA Frame ==
  ASSUME NEW s \in Run, Sound(s), BatchInductive,
         pc'[s] = pc[s], ports'[s] = ports[s], results'[s] = results[s], fut'[s] = fut[s],
         failFast'[s] = failFast[s], cancel'[s] = cancel[s], asked'[s] = asked[s],
         lock' = s <=> lock = s,
         \A p \in Port : owner'[p] = s <=> owner[p] = s
  PROVE  Sound(s)'
<1>1. \A i \in 1 .. Len(ports[s]) : ports[s][i] \in Port
  BY DEF BatchInductive, Fields
<1>2. Owns(s)'
  BY <1>1 DEF Sound, Owns
<1>3. Listed(s)' /\ HasLock(s)' /\ Phased(s)' /\ Collected(s)' /\ Swept(s)'
  BY DEF Sound, Listed, HasLock, Phased, Collected, Swept, FailureSeen
<1> QED BY <1>2, <1>3 DEF Sound

\* A run begins.
LEMMA StartKeeps ==
  ASSUME BatchInductive, NEW r \in Run, Start(r) PROVE BatchInductive'
<1> USE Apart DEF Start, Goto
<1>0. Fields /\ Sound(r)
  BY DEF BatchInductive
<1>1. Fields'
  BY <1>0 DEF Fields, Before, Reserving, Pooled, Holding, Over, Busy, Finished, Lost
<1>2. Sound(r)'
  <2>1. Listed(r)'
    BY <1>0 DEF Fields, Sound, Listed, Before, Reserving, Pooled, Holding, Over
  <2>2. Owns(r)'
    BY <1>0 DEF Fields, Sound, Owns, Before, Reserving, Pooled, Holding, Over
  <2>3. HasLock(r)'
    BY <1>0 DEF Fields, Sound, HasLock, Before, Reserving, Pooled, Holding, Over
  <2>4. Phased(r)'
    BY <1>0 DEF Fields, Sound, Phased, Before, Reserving, Pooled, Holding, Over, Busy, Finished, Lost
  <2>5. Collected(r)'
    BY <1>0 DEF Fields, Sound, Collected, FailureSeen, Sweeping, Before, Reserving, Pooled, Holding,
      Over, Busy, Finished, Lost
  <2>6. Swept(r)'
    BY <1>0 DEF Fields, Sound, Swept, Sweeping, Before, Reserving, Pooled, Over, Busy, Finished
  <2> QED BY <2>1, <2>2, <2>3, <2>4, <2>5, <2>6 DEF Sound
<1>3. ASSUME NEW s \in Run \ {r} PROVE Sound(s)'
  BY <1>0, Frame DEF BatchInductive, Fields, Sound, HasLock, Before, Reserving, Pooled, Holding,
    Over
<1> QED BY <1>1, <1>2, <1>3 DEF BatchInductive

\* It gets the lock.
LEMMA EnterLockKeeps ==
  ASSUME BatchInductive, NEW r \in Run, EnterLock(r) PROVE BatchInductive'
<1> USE Apart DEF EnterLock, Locked, Goto
<1>0. Fields /\ Sound(r)
  BY DEF BatchInductive
<1>1. Fields'
  BY <1>0 DEF Fields, Before, Reserving, Pooled, Holding, Over, Busy, Finished, Lost
<1>2. Sound(r)'
  <2>1. Listed(r)'
    BY <1>0 DEF Fields, Sound, Listed, Before, Reserving, Pooled, Holding, Over
  <2>2. Owns(r)'
    BY <1>0 DEF Fields, Sound, Owns, Before, Reserving, Pooled, Holding, Over
  <2>3. HasLock(r)'
    BY <1>0 DEF Fields, Sound, HasLock, Before, Reserving, Pooled, Holding, Over
  <2>4. Phased(r)'
    <3>1. pc[r] = "allocate" \/ pc[r] = "release"
      BY <1>0, BatchConstants DEF Fields, Sound, HasLock, Reserving
    <3>2. CASE pc[r] = "allocate"
      BY <1>0, <3>2 DEF Fields, Sound, Phased, Before, Reserving, Pooled, Over
    <3>3. CASE pc[r] = "release"
      BY <1>0, <3>3 DEF Fields, Sound, Phased, Before, Reserving, Pooled, Over
    <3> QED BY <3>1, <3>2, <3>3
  <2>5. Collected(r)'
    BY <1>0 DEF Fields, Sound, Collected, FailureSeen, Sweeping, Before, Reserving, Pooled, Holding,
      Over, Busy, Finished, Lost
  <2>6. Swept(r)'
    BY <1>0 DEF Fields, Sound, Swept, Sweeping, Before, Reserving, Pooled, Over, Busy, Finished
  <2> QED BY <2>1, <2>2, <2>3, <2>4, <2>5, <2>6 DEF Sound
<1>3. ASSUME NEW s \in Run \ {r} PROVE Sound(s)'
  BY <1>0, Frame DEF BatchInductive, Fields, Sound, HasLock, Before, Reserving, Pooled, Holding,
    Over
<1> QED BY <1>1, <1>2, <1>3 DEF BatchInductive

\* It has got its ports.
LEMMA AllocatedKeeps ==
  ASSUME BatchInductive, NEW r \in Run, Allocated(r) PROVE BatchInductive'
<1> USE Apart DEF Allocated, Goto
<1>0. Fields /\ Sound(r)
  BY DEF BatchInductive
<1>1. Fields'
  BY <1>0 DEF Fields, Before, Reserving, Pooled, Holding, Over, Busy, Finished, Lost
<1>2. Sound(r)'
  <2>1. Listed(r)'
    BY <1>0 DEF Fields, Sound, Listed, Before, Reserving, Pooled, Holding, Over
  <2>2. Owns(r)'
    BY <1>0 DEF Fields, Sound, Owns, Before, Reserving, Pooled, Holding, Over
  <2>3. HasLock(r)'
    BY <1>0 DEF Fields, Sound, HasLock, Before, Reserving, Pooled, Holding, Over
  <2>4. Phased(r)'
    BY <1>0 DEF Fields, Sound, Phased, Before, Reserving, Pooled, Holding, Over, Busy, Finished, Lost
  <2>5. Collected(r)'
    BY <1>0 DEF Fields, Sound, Collected, FailureSeen, Sweeping, Before, Reserving, Pooled, Holding,
      Over, Busy, Finished, Lost
  <2>6. Swept(r)'
    BY <1>0 DEF Fields, Sound, Swept, Sweeping, Before, Reserving, Pooled, Over, Busy, Finished
  <2> QED BY <2>1, <2>2, <2>3, <2>4, <2>5, <2>6 DEF Sound
<1>3. ASSUME NEW s \in Run \ {r} PROVE Sound(s)'
  BY <1>0, Frame DEF BatchInductive, Fields, Sound, HasLock, Before, Reserving, Pooled, Holding,
    Over
<1> QED BY <1>1, <1>2, <1>3 DEF BatchInductive

\* It gives them back.
LEMMA FreeKeeps ==
  ASSUME BatchInductive, NEW r \in Run, Free(r) PROVE BatchInductive'
<1> USE Apart DEF Free, Goto
<1>0. Fields /\ Sound(r)
  BY DEF BatchInductive
<1>f. ASSUME NEW p \in Port
      PROVE  owner'[p] = IF \E i \in 1 .. Len(ports[r]) : p = ports[r][i] THEN None ELSE owner[p]
  BY <1>0 DEF ToSet, Fields
<1>1. Fields'
  BY <1>0 DEF Fields, Before, Reserving, Pooled, Holding, Over, Busy, Finished, Lost
<1>2. Sound(r)'
  <2>1. Listed(r)'
    BY <1>0 DEF Fields, Sound, Listed, Before, Reserving, Pooled, Holding, Over
  <2>2. Owns(r)'
    BY <1>0, <1>f DEF Fields, Sound, Owns, Before, Reserving, Pooled, Holding, Over
  <2>3. HasLock(r)'
    BY <1>0 DEF Fields, Sound, HasLock, Before, Reserving, Pooled, Holding, Over
  <2>4. Phased(r)'
    BY <1>0 DEF Fields, Sound, Phased, Before, Reserving, Pooled, Holding, Over, Busy, Finished, Lost
  <2>5. Collected(r)'
    BY <1>0 DEF Fields, Sound, Collected, FailureSeen, Sweeping, Before, Reserving, Pooled, Holding,
      Over, Busy, Finished, Lost
  <2>6. Swept(r)'
    BY <1>0 DEF Fields, Sound, Swept, Sweeping, Before, Reserving, Pooled, Over, Busy, Finished
  <2> QED BY <2>1, <2>2, <2>3, <2>4, <2>5, <2>6 DEF Sound
<1>3. ASSUME NEW s \in Run \ {r} PROVE Sound(s)'
  <2>1. ASSUME NEW p \in Port PROVE owner'[p] = s <=> owner[p] = s
    BY <1>0, <1>f DEF Sound, Owns, Holding
  <2>2. pc'[s] = pc[s] /\ (lock' = s <=> lock = s)
    BY <1>0 DEF Fields, Sound, HasLock
  <2> QED BY <2>1, <2>2, Frame DEF BatchInductive
<1> QED BY <1>1, <1>2, <1>3 DEF BatchInductive

\* It has collected every result.
LEMMA AllCollectedKeeps ==
  ASSUME BatchInductive, NEW r \in Run, AllCollected(r) PROVE BatchInductive'
<1> USE Apart DEF AllCollected, Goto
<1>0. Fields /\ Sound(r)
  BY DEF BatchInductive
<1>1. Fields'
  BY <1>0 DEF Fields, Before, Reserving, Pooled, Holding, Over, Busy, Finished, Lost
<1>2. Sound(r)'
  <2>1. Listed(r)'
    BY <1>0 DEF Fields, Sound, Listed, Before, Reserving, Pooled, Holding, Over
  <2>2. Owns(r)'
    BY <1>0 DEF Fields, Sound, Owns, Before, Reserving, Pooled, Holding, Over
  <2>3. HasLock(r)'
    BY <1>0 DEF Fields, Sound, HasLock, Before, Reserving, Pooled, Holding, Over
  <2>4. Phased(r)'
    BY <1>0 DEF Fields, Sound, Phased, Before, Reserving, Pooled, Holding, Over, Busy, Finished, Lost
  <2>5. Collected(r)'
    BY <1>0 DEF Fields, Sound, Collected, FailureSeen, Sweeping, Before, Reserving, Pooled, Holding,
      Over, Busy, Finished, Lost
  <2>6. Swept(r)'
    BY <1>0 DEF Fields, Sound, Swept, Sweeping, Before, Reserving, Pooled, Over, Busy, Finished
  <2> QED BY <2>1, <2>2, <2>3, <2>4, <2>5, <2>6 DEF Sound
<1>3. ASSUME NEW s \in Run \ {r} PROVE Sound(s)'
  BY <1>0, Frame DEF BatchInductive, Fields, Sound, HasLock, Before, Reserving, Pooled, Holding,
    Over
<1> QED BY <1>1, <1>2, <1>3 DEF BatchInductive

\* Its pool is through.
LEMMA JoinKeeps ==
  ASSUME BatchInductive, NEW r \in Run, Join(r) PROVE BatchInductive'
<1> USE Apart DEF Join, Goto
<1>0. Fields /\ Sound(r)
  BY DEF BatchInductive
<1>1. Fields'
  BY <1>0 DEF Fields, Before, Reserving, Pooled, Holding, Over, Busy, Finished, Lost
<1>2. Sound(r)'
  <2>1. Listed(r)'
    BY <1>0 DEF Fields, Sound, Listed, Before, Reserving, Pooled, Holding, Over
  <2>2. Owns(r)'
    BY <1>0 DEF Fields, Sound, Owns, Before, Reserving, Pooled, Holding, Over
  <2>3. HasLock(r)'
    BY <1>0 DEF Fields, Sound, HasLock, Before, Reserving, Pooled, Holding, Over
  <2>4. Phased(r)'
    BY <1>0 DEF Fields, Sound, Phased, Before, Reserving, Pooled, Holding, Over, Busy, Finished, Lost
  <2>5. Collected(r)'
    BY <1>0 DEF Fields, Sound, Collected, FailureSeen, Sweeping, Before, Reserving, Pooled, Holding,
      Over, Busy, Finished, Lost
  <2>6. Swept(r)'
    BY <1>0 DEF Fields, Sound, Swept, Sweeping, Before, Reserving, Pooled, Over, Busy, Finished
  <2> QED BY <2>1, <2>2, <2>3, <2>4, <2>5, <2>6 DEF Sound
<1>3. ASSUME NEW s \in Run \ {r} PROVE Sound(s)'
  BY <1>0, Frame DEF BatchInductive, Fields, Sound, HasLock, Before, Reserving, Pooled, Holding,
    Over
<1> QED BY <1>1, <1>2, <1>3 DEF BatchInductive

\* It writes its results.
LEMMA WriteResultsKeeps ==
  ASSUME BatchInductive, NEW r \in Run, WriteResults(r) PROVE BatchInductive'
<1> USE Apart DEF WriteResults, Goto
<1>0. Fields /\ Sound(r)
  BY DEF BatchInductive
<1>1. Fields'
  BY <1>0 DEF Fields, Before, Reserving, Pooled, Holding, Over, Busy, Finished, Lost
<1>2. Sound(r)'
  <2>1. Listed(r)'
    BY <1>0 DEF Fields, Sound, Listed, Before, Reserving, Pooled, Holding, Over
  <2>2. Owns(r)'
    BY <1>0 DEF Fields, Sound, Owns, Before, Reserving, Pooled, Holding, Over
  <2>3. HasLock(r)'
    BY <1>0 DEF Fields, Sound, HasLock, Before, Reserving, Pooled, Holding, Over
  <2>4. Phased(r)'
    BY <1>0 DEF Fields, Sound, Phased, Before, Reserving, Pooled, Holding, Over, Busy, Finished, Lost
  <2>5. Collected(r)'
    BY <1>0 DEF Fields, Sound, Collected, FailureSeen, Sweeping, Before, Reserving, Pooled, Holding,
      Over, Busy, Finished, Lost
  <2>6. Swept(r)'
    BY <1>0 DEF Fields, Sound, Swept, Sweeping, Before, Reserving, Pooled, Over, Busy, Finished
  <2> QED BY <2>1, <2>2, <2>3, <2>4, <2>5, <2>6 DEF Sound
<1>3. ASSUME NEW s \in Run \ {r} PROVE Sound(s)'
  BY <1>0, Frame DEF BatchInductive, Fields, Sound, HasLock, Before, Reserving, Pooled, Holding,
    Over
<1> QED BY <1>1, <1>2, <1>3 DEF BatchInductive

\* It collects a result, and is going to cancel the other cases when that one failed.
LEMMA CollectKeeps ==
  ASSUME BatchInductive, NEW r \in Run, NEW c \in Case, Collect(r, c) PROVE BatchInductive'
<1> USE Apart DEF Collect, Goto
<1>0. Fields /\ Sound(r)
  BY DEF BatchInductive
<1>1. Fields'
  BY <1>0 DEF Fields, Pooled
<1>2. Sound(r)'
  <2>0. /\ results'[r] = results[r] \cup {c} /\ fut[r][c] \in Finished /\ pc[r] = "pool"
        /\ UNCHANGED <<lock, owner, ports, fut, asked, failFast, cancel>>
        /\ pc'[r] = IF failFast[r] /\ fut[r][c] = "failed" THEN "signal" ELSE "pool"
    BY <1>0 DEF Fields
  <2>1. Listed(r)'
    BY <1>0, <2>0 DEF Sound, Listed
  <2>2. Owns(r)'
    BY <1>0, <2>0 DEF Sound, Owns, Before, Reserving, Pooled, Holding
  <2>3. HasLock(r)'
    BY <1>0, <2>0 DEF Sound, HasLock, Reserving
  <2>4. Phased(r)'
    BY <1>0, <2>0 DEF Sound, Phased, Before, Reserving, Pooled, Over
  <2>5. Collected(r)'
    <3>1. \A d \in results'[r] : fut'[r][d] \in Finished
      BY <1>0, <2>0 DEF Sound, Collected
    <3>2. pc'[r] # "signal" => FailureSeen(r)' = FailureSeen(r)
      BY <2>0 DEF FailureSeen
    <3>3. FailureSeen(r) => cancel[r] \in {"missing", "set"} /\ \A d \in Case : fut[r][d] # "pending"
      BY <1>0, <2>0 DEF Sound, Collected, Sweeping
    <3> QED BY <2>0, <3>1, <3>2, <3>3 DEF Collected, Sweeping
  <2>6. Swept(r)'
    BY <1>0, <2>0, BatchConstants DEF Fields, Sound, Swept, Sweeping, Case
  <2> QED BY <2>1, <2>2, <2>3, <2>4, <2>5, <2>6 DEF Sound
<1>3. ASSUME NEW s \in Run \ {r} PROVE Sound(s)'
  BY <1>0, Frame DEF BatchInductive, Fields
<1> QED BY <1>1, <1>2, <1>3 DEF BatchInductive

\* It sets the event.
LEMMA SignalKeeps ==
  ASSUME BatchInductive, NEW r \in Run, Signal(r) PROVE BatchInductive'
<1> USE Apart DEF Signal, Goto
<1>0. Fields /\ Sound(r)
  BY DEF BatchInductive
<1>1. Fields'
  BY <1>0 DEF Fields, Before, Reserving, Pooled, Holding, Over, Busy, Finished, Lost
<1>2. Sound(r)'
  <2>1. Listed(r)'
    BY <1>0 DEF Fields, Sound, Listed, Before, Reserving, Pooled, Holding, Over
  <2>2. Owns(r)'
    BY <1>0 DEF Fields, Sound, Owns, Before, Reserving, Pooled, Holding, Over
  <2>3. HasLock(r)'
    BY <1>0 DEF Fields, Sound, HasLock, Before, Reserving, Pooled, Holding, Over
  <2>4. Phased(r)'
    BY <1>0 DEF Fields, Sound, Phased, Before, Reserving, Pooled, Holding, Over, Busy, Finished, Lost
  <2>5. Collected(r)'
    BY <1>0 DEF Fields, Sound, Collected, FailureSeen, Sweeping, Before, Reserving, Pooled, Holding,
      Over, Busy, Finished, Lost
  <2>6. Swept(r)'
    BY <1>0 DEF Fields, Sound, Swept, Sweeping, Before, Reserving, Pooled, Over, Busy, Finished
  <2> QED BY <2>1, <2>2, <2>3, <2>4, <2>5, <2>6 DEF Sound
<1>3. ASSUME NEW s \in Run \ {r} PROVE Sound(s)'
  BY <1>0, Frame DEF BatchInductive, Fields, Sound, HasLock, Before, Reserving, Pooled, Holding,
    Over
<1> QED BY <1>1, <1>2, <1>3 DEF BatchInductive

\* It cancels the next of the futures.
LEMMA CancelNextKeeps ==
  ASSUME BatchInductive, NEW r \in Run, CancelNext(r) PROVE BatchInductive'
<1> USE Apart DEF CancelNext, Goto
<1> DEFINE c == asked[r] + 1
<1>0. Fields /\ Sound(r) /\ c \in Case
  BY BatchConstants DEF BatchInductive, Fields, Sound, Swept, Sweeping, Case
<1>a. /\ fut'[r][c] = (IF fut[r][c] = "pending" THEN "cancelled" ELSE fut[r][c])
      /\ \A d \in Case \ {c} : fut'[r][d] = fut[r][d]
      /\ asked'[r] = (IF c = Count THEN 0 ELSE c)
      /\ pc[r] = "cancelling" /\ pc'[r] = (IF c = Count THEN "pool" ELSE "cancelling")
      /\ UNCHANGED <<lock, owner, ports, results, failFast, cancel>>
  BY <1>0 DEF Fields
<1>1. Fields'
  <2>1. fut' = [fut EXCEPT ![r] = [fut[r] EXCEPT ![c] = IF @ = "pending" THEN "cancelled" ELSE @]]
    BY <1>0 DEF Fields
  <2>2. asked' = [asked EXCEPT ![r] = IF c = Count THEN 0 ELSE c]
    OBVIOUS
  <2>3. c \in Nat
    BY <1>0 DEF Case
  <2>4. pc' = pc \/ pc' = [pc EXCEPT ![r] = "pool"]
    OBVIOUS
  <2>5. fut' \in [Run -> [Case -> {"pending", "cancelled"} \cup Busy \cup Finished \cup Lost]]
    BY <1>0, <2>1 DEF Fields
  <2> HIDE DEF c
  <2>6. asked' \in [Run -> Nat]
    BY <1>0, <2>2, <2>3 DEF Fields
  <2>7. pc' \in [Run -> Before \cup Pooled \cup Over \cup Reserving]
    BY <1>0, <2>4 DEF Fields, Pooled
  <2> QED BY <1>0, <1>a, <2>5, <2>6, <2>7 DEF Fields
<1>2. Sound(r)'
  <2>0. \A d \in Case : fut'[r][d] = fut[r][d] \/ (fut[r][d] = "pending" /\ fut'[r][d] = "cancelled")
    BY <1>0, <1>a DEF Fields
  <2>1. Listed(r)'
    BY <1>0, <1>a DEF Sound, Listed
  <2>2. Owns(r)'
    BY <1>0, <1>a DEF Sound, Owns, Before, Reserving, Pooled, Holding
  <2>3. HasLock(r)'
    BY <1>0, <1>a DEF Sound, HasLock, Reserving
  <2>4. Phased(r)'
    BY <1>0, <1>a DEF Sound, Phased, Before, Reserving, Pooled, Over
  <2>5. \A d \in 1 .. c : d \in Case /\ fut'[r][d] # "pending"
    <3> SUFFICES ASSUME NEW d \in 1 .. c PROVE d \in Case /\ fut'[r][d] # "pending"
      OBVIOUS
    <3>1. d \in Case /\ (d # c => d \in 1 .. asked[r])
      BY <1>0, BatchConstants DEF Case, Fields
    <3> QED BY <1>0, <1>a, <3>1 DEF Sound, Swept
  <2>6. Collected(r)'
    <3>1. \A d \in results[r] : d \in Case /\ fut[r][d] \in Finished /\ fut'[r][d] = fut[r][d]
      BY <1>0, <2>0 DEF Fields, Sound, Collected, Finished
    <3>2. FailureSeen(r)' = FailureSeen(r)
      BY <1>a, <3>1 DEF FailureSeen
    <3>3. FailureSeen(r) => cancel[r] \in {"missing", "set"}
      BY <1>0, <1>a DEF Sound, Collected
    <3>4. pc'[r] \notin Sweeping => \A d \in Case : fut'[r][d] # "pending"
      BY <1>a, <2>5 DEF Sweeping, Case
    <3> QED BY <1>a, <3>1, <3>2, <3>3, <3>4 DEF Collected
  <2>7. Swept(r)'
    <3>1. c \in Nat /\ (c # Count => c < Count)
      BY <1>0, BatchConstants DEF Case
    <3> QED BY <1>0, <1>a, <2>5, <3>1 DEF Swept, Sweeping
  <2> QED BY <2>1, <2>2, <2>3, <2>4, <2>6, <2>7 DEF Sound
<1>3. ASSUME NEW s \in Run \ {r} PROVE Sound(s)'
  BY <1>0, Frame DEF BatchInductive, Fields
<1> QED BY <1>1, <1>2, <1>3 DEF BatchInductive

\* It comes upon a cancelled case, or one that raised.
LEMMA CollectLostKeeps ==
  ASSUME BatchInductive, NEW r \in Run, NEW c \in Case, CollectLost(r, c) PROVE BatchInductive'
<1> USE Apart DEF CollectLost, Goto
<1>0. Fields /\ Sound(r)
  BY DEF BatchInductive
<1>1. Fields'
  BY <1>0 DEF Fields, Before, Reserving, Pooled, Holding, Over, Busy, Finished, Lost
<1>2. Sound(r)'
  <2>1. Listed(r)'
    BY <1>0 DEF Fields, Sound, Listed, Before, Reserving, Pooled, Holding, Over
  <2>2. Owns(r)'
    BY <1>0 DEF Fields, Sound, Owns, Before, Reserving, Pooled, Holding, Over
  <2>3. HasLock(r)'
    BY <1>0 DEF Fields, Sound, HasLock, Before, Reserving, Pooled, Holding, Over
  <2>4. Phased(r)'
    BY <1>0 DEF Fields, Sound, Phased, Before, Reserving, Pooled, Holding, Over, Busy, Finished, Lost
  <2>5. Collected(r)'
    BY <1>0 DEF Fields, Sound, Collected, FailureSeen, Sweeping, Before, Reserving, Pooled, Holding,
      Over, Busy, Finished, Lost
  <2>6. Swept(r)'
    BY <1>0 DEF Fields, Sound, Swept, Sweeping, Before, Reserving, Pooled, Over, Busy, Finished
  <2> QED BY <2>1, <2>2, <2>3, <2>4, <2>5, <2>6 DEF Sound
<1>3. ASSUME NEW s \in Run \ {r} PROVE Sound(s)'
  BY <1>0, Frame DEF BatchInductive, Fields, Sound, HasLock, Before, Reserving, Pooled, Holding,
    Over
<1> QED BY <1>1, <1>2, <1>3 DEF BatchInductive

\* A worker takes a case.
LEMMA TakeKeeps ==
  ASSUME BatchInductive, NEW r \in Run, NEW c \in Case, Take(r, c) PROVE BatchInductive'
<1> USE Apart DEF Take, Becomes, Goto
<1>0. Fields /\ Sound(r)
  BY DEF BatchInductive
<1>1. Fields'
  BY <1>0 DEF Fields, Before, Reserving, Pooled, Holding, Over, Busy, Finished, Lost
<1>2. Sound(r)'
  <2>1. Listed(r)'
    BY <1>0 DEF Fields, Sound, Listed, Before, Reserving, Pooled, Holding, Over
  <2>2. Owns(r)'
    BY <1>0 DEF Fields, Sound, Owns, Before, Reserving, Pooled, Holding, Over
  <2>3. HasLock(r)'
    BY <1>0 DEF Fields, Sound, HasLock, Before, Reserving, Pooled, Holding, Over
  <2>4. Phased(r)'
    BY <1>0 DEF Fields, Sound, Phased, Before, Reserving, Pooled, Holding, Over, Busy, Finished, Lost
  <2>5. Collected(r)'
    BY <1>0 DEF Fields, Sound, Collected, FailureSeen, Sweeping, Before, Reserving, Pooled, Holding,
      Over, Busy, Finished, Lost
  <2>6. Swept(r)'
    BY <1>0 DEF Fields, Sound, Swept, Sweeping, Before, Reserving, Pooled, Over, Busy, Finished
  <2> QED BY <2>1, <2>2, <2>3, <2>4, <2>5, <2>6 DEF Sound
<1>3. ASSUME NEW s \in Run \ {r} PROVE Sound(s)'
  BY <1>0, Frame DEF BatchInductive, Fields, Sound, HasLock, Before, Reserving, Pooled, Holding,
    Over
<1> QED BY <1>1, <1>2, <1>3 DEF BatchInductive

\* It begins the case, or skips it.
LEMMA TestKeeps ==
  ASSUME BatchInductive, NEW r \in Run, NEW c \in Case, Test(r, c) PROVE BatchInductive'
<1> USE Apart DEF Test, Becomes, Goto
<1>0. Fields /\ Sound(r)
  BY DEF BatchInductive
<1>a. PICK value \in {"raised", "skipped", "handoff"} : fut' = [fut EXCEPT ![r][c] = value]
  OBVIOUS
<1>b. /\ fut[r][c] = "taken" /\ fut'[r][c] = value /\ value \notin {"pending", "failed"}
      /\ \A d \in Case \ {c} : fut'[r][d] = fut[r][d]
      /\ UNCHANGED <<lock, owner, pc, ports, results, asked, failFast, cancel>>
  BY <1>0, <1>a DEF Fields
<1>1. Fields'
  <2>1. value \in Busy \cup Finished \cup Lost
    BY DEF Busy, Finished, Lost
  <2>2. fut' \in [Run -> [Case -> {"pending", "cancelled"} \cup Busy \cup Finished \cup Lost]]
    BY <1>0, <1>a, <2>1 DEF Fields
  <2> QED BY <1>0, <1>b, <2>2 DEF Fields
<1>2. Sound(r)'
  <2>1. Listed(r)'
    BY <1>0 DEF Fields, Sound, Listed, Before, Reserving, Pooled, Holding, Over
  <2>2. Owns(r)'
    BY <1>0 DEF Fields, Sound, Owns, Before, Reserving, Pooled, Holding, Over
  <2>3. HasLock(r)'
    BY <1>0 DEF Fields, Sound, HasLock, Before, Reserving, Pooled, Holding, Over
  <2>4. Phased(r)'
    BY <1>0 DEF Fields, Sound, Phased, Before, Reserving, Pooled, Holding, Over, Busy, Finished, Lost
  <2>5. Collected(r)'
    <3>1. \A d \in results[r] : d # c /\ fut[r][d] \in Finished /\ fut'[r][d] = fut[r][d]
      BY <1>0, <1>b DEF Fields, Sound, Collected, Finished
    <3>2. FailureSeen(r)' = FailureSeen(r)
      BY <1>b, <3>1 DEF FailureSeen
    <3> QED BY <1>0, <1>b, <3>1, <3>2 DEF Sound, Collected
  <2>6. Swept(r)'
    <3>1. \A d \in 1 .. asked[r] : d \in Case /\ (d = c \/ fut'[r][d] = fut[r][d])
      BY <1>0, <1>b, BatchConstants DEF Fields, Sound, Swept, Sweeping, Case
    <3> QED BY <1>0, <1>b, <3>1 DEF Sound, Swept
  <2> QED BY <2>1, <2>2, <2>3, <2>4, <2>5, <2>6 DEF Sound
<1>3. ASSUME NEW s \in Run \ {r} PROVE Sound(s)'
  BY <1>0, Frame DEF BatchInductive, Fields, Sound, HasLock, Before, Reserving, Pooled, Holding,
    Over
<1> QED BY <1>1, <1>2, <1>3 DEF BatchInductive

\* A worker drops a cancelled case.
LEMMA NotifyKeeps ==
  ASSUME BatchInductive, NEW r \in Run, NEW c \in Case, Notify(r, c) PROVE BatchInductive'
<1> USE Apart DEF Notify, Becomes, Goto
<1>0. Fields /\ Sound(r)
  BY DEF BatchInductive
<1>1. Fields'
  BY <1>0 DEF Fields, Before, Reserving, Pooled, Holding, Over, Busy, Finished, Lost
<1>2. Sound(r)'
  <2>1. Listed(r)'
    BY <1>0 DEF Fields, Sound, Listed, Before, Reserving, Pooled, Holding, Over
  <2>2. Owns(r)'
    BY <1>0 DEF Fields, Sound, Owns, Before, Reserving, Pooled, Holding, Over
  <2>3. HasLock(r)'
    BY <1>0 DEF Fields, Sound, HasLock, Before, Reserving, Pooled, Holding, Over
  <2>4. Phased(r)'
    BY <1>0 DEF Fields, Sound, Phased, Before, Reserving, Pooled, Holding, Over, Busy, Finished, Lost
  <2>5. Collected(r)'
    BY <1>0 DEF Fields, Sound, Collected, FailureSeen, Sweeping, Before, Reserving, Pooled, Holding,
      Over, Busy, Finished, Lost
  <2>6. Swept(r)'
    BY <1>0 DEF Fields, Sound, Swept, Sweeping, Before, Reserving, Pooled, Over, Busy, Finished
  <2> QED BY <2>1, <2>2, <2>3, <2>4, <2>5, <2>6 DEF Sound
<1>3. ASSUME NEW s \in Run \ {r} PROVE Sound(s)'
  BY <1>0, Frame DEF BatchInductive, Fields, Sound, HasLock, Before, Reserving, Pooled, Holding,
    Over
<1> QED BY <1>1, <1>2, <1>3 DEF BatchInductive

\* A worker takes its port over.
LEMMA HandoffKeeps ==
  ASSUME BatchInductive, NEW r \in Run, NEW c \in Case, Handoff(r, c) PROVE BatchInductive'
<1> USE Apart DEF Handoff, Becomes, Goto
<1>0. Fields /\ Sound(r)
  BY DEF BatchInductive
<1>1. Fields'
  BY <1>0 DEF Fields, Before, Reserving, Pooled, Holding, Over, Busy, Finished, Lost
<1>2. Sound(r)'
  <2>1. Listed(r)'
    BY <1>0 DEF Fields, Sound, Listed, Before, Reserving, Pooled, Holding, Over
  <2>2. Owns(r)'
    BY <1>0 DEF Fields, Sound, Owns, Before, Reserving, Pooled, Holding, Over
  <2>3. HasLock(r)'
    BY <1>0 DEF Fields, Sound, HasLock, Before, Reserving, Pooled, Holding, Over
  <2>4. Phased(r)'
    BY <1>0 DEF Fields, Sound, Phased, Before, Reserving, Pooled, Holding, Over, Busy, Finished, Lost
  <2>5. Collected(r)'
    BY <1>0 DEF Fields, Sound, Collected, FailureSeen, Sweeping, Before, Reserving, Pooled, Holding,
      Over, Busy, Finished, Lost
  <2>6. Swept(r)'
    BY <1>0 DEF Fields, Sound, Swept, Sweeping, Before, Reserving, Pooled, Over, Busy, Finished
  <2> QED BY <2>1, <2>2, <2>3, <2>4, <2>5, <2>6 DEF Sound
<1>3. ASSUME NEW s \in Run \ {r} PROVE Sound(s)'
  BY <1>0, Frame DEF BatchInductive, Fields, Sound, HasLock, Before, Reserving, Pooled, Holding,
    Over
<1> QED BY <1>1, <1>2, <1>3 DEF BatchInductive

\* A case has ended.
LEMMA ExecutedKeeps ==
  ASSUME BatchInductive, NEW r \in Run, NEW c \in Case, Executed(r, c) PROVE BatchInductive'
<1> USE Apart DEF Executed, Becomes, Goto
<1>0. Fields /\ Sound(r)
  BY DEF BatchInductive
<1>1. Fields'
  BY <1>0 DEF Fields, Before, Reserving, Pooled, Holding, Over, Busy, Finished, Lost
<1>2. Sound(r)'
  <2>1. Listed(r)'
    BY <1>0 DEF Fields, Sound, Listed, Before, Reserving, Pooled, Holding, Over
  <2>2. Owns(r)'
    BY <1>0 DEF Fields, Sound, Owns, Before, Reserving, Pooled, Holding, Over
  <2>3. HasLock(r)'
    BY <1>0 DEF Fields, Sound, HasLock, Before, Reserving, Pooled, Holding, Over
  <2>4. Phased(r)'
    BY <1>0 DEF Fields, Sound, Phased, Before, Reserving, Pooled, Holding, Over, Busy, Finished, Lost
  <2>5. Collected(r)'
    <3>0. PICK outcome \in {"passed", "failed", "raised"} : fut' = [fut EXCEPT ![r][c] = outcome]
      OBVIOUS
    <3>1. c \notin results[r] /\ fut'[r][c] # "pending"
      BY <1>0, <3>0 DEF Fields, Sound, Collected, Finished
    <3>2. \A d \in Case \ {c} : fut'[r][d] = fut[r][d]
      BY <1>0 DEF Fields
    <3>3. \A d \in results[r] : d \in Case /\ fut'[r][d] = fut[r][d]
      BY <1>0, <3>1, <3>2 DEF Fields
    <3>4. FailureSeen(r)' = FailureSeen(r)
      BY <3>3 DEF FailureSeen
    <3> QED BY <1>0, <3>1, <3>2, <3>3, <3>4 DEF Sound, Collected
  <2>6. Swept(r)'
    BY <1>0 DEF Fields, Sound, Swept, Sweeping, Before, Reserving, Pooled, Over, Busy, Finished
  <2> QED BY <2>1, <2>2, <2>3, <2>4, <2>5, <2>6 DEF Sound
<1>3. ASSUME NEW s \in Run \ {r} PROVE Sound(s)'
  BY <1>0, Frame DEF BatchInductive, Fields, Sound, HasLock, Before, Reserving, Pooled, Holding,
    Over
<1> QED BY <1>1, <1>2, <1>3 DEF BatchInductive

\* The run's owner cancels it.
LEMMA SetCancelKeeps ==
  ASSUME BatchInductive, NEW r \in Run, SetCancel(r) PROVE BatchInductive'
<1> USE Apart DEF SetCancel, Goto
<1>0. Fields /\ Sound(r)
  BY DEF BatchInductive
<1>1. Fields'
  BY <1>0 DEF Fields, Before, Reserving, Pooled, Holding, Over, Busy, Finished, Lost
<1>2. Sound(r)'
  <2>1. Listed(r)'
    BY <1>0 DEF Fields, Sound, Listed, Before, Reserving, Pooled, Holding, Over
  <2>2. Owns(r)'
    BY <1>0 DEF Fields, Sound, Owns, Before, Reserving, Pooled, Holding, Over
  <2>3. HasLock(r)'
    BY <1>0 DEF Fields, Sound, HasLock, Before, Reserving, Pooled, Holding, Over
  <2>4. Phased(r)'
    BY <1>0 DEF Fields, Sound, Phased, Before, Reserving, Pooled, Holding, Over, Busy, Finished, Lost
  <2>5. Collected(r)'
    BY <1>0 DEF Fields, Sound, Collected, FailureSeen, Sweeping, Before, Reserving, Pooled, Holding,
      Over, Busy, Finished, Lost
  <2>6. Swept(r)'
    BY <1>0 DEF Fields, Sound, Swept, Sweeping, Before, Reserving, Pooled, Over, Busy, Finished
  <2> QED BY <2>1, <2>2, <2>3, <2>4, <2>5, <2>6 DEF Sound
<1>3. ASSUME NEW s \in Run \ {r} PROVE Sound(s)'
  BY <1>0, Frame DEF BatchInductive, Fields, Sound, HasLock, Before, Reserving, Pooled, Holding,
    Over
<1> QED BY <1>1, <1>2, <1>3 DEF BatchInductive

\* It reserves a port.
LEMMA ReserveOneKeeps ==
  ASSUME BatchInductive, NEW r \in Run, pc[r] = "reserving", Len(ports[r]) < Count,
         NEW p \in Port, owner[p] = None, owner' = [owner EXCEPT ![p] = r],
         ports' = [ports EXCEPT ![r] = Append(@, p)],
         UNCHANGED <<pc, lock, fut, results, asked, failFast, cancel>>
  PROVE  BatchInductive'
<1> USE Apart
<1>0. Fields /\ Sound(r)
  BY DEF BatchInductive
<1>1. Fields'
  <2>1. ports' \in [Run -> Seq(Port)]
    BY <1>0 DEF Fields
  <2>2. owner' \in [Port -> Run \cup {Other, None}]
    BY <1>0 DEF Fields
  <2> QED BY <1>0, <2>1, <2>2 DEF Fields
<1>n. /\ Len(ports'[r]) = Len(ports[r]) + 1 /\ Len(ports[r]) \in Nat
      /\ ports'[r] \in Seq(Port) /\ ports'[r][Len(ports[r]) + 1] = p
      /\ \A i \in 1 .. Len(ports[r]) : ports'[r][i] = ports[r][i] /\ ports[r][i] \in Port
  BY <1>0 DEF Fields, Sound, Listed
<1>2. Sound(r)'
  <2>1. Listed(r)'
    BY <1>n, BatchConstants DEF Listed
  <2>2. Owns(r)'
    <3>1. ASSUME NEW i \in 1 .. Len(ports[r]) PROVE owner[ports[r][i]] = r /\ ports[r][i] # p
      BY <1>0 DEF Sound, Owns, Holding, Reserving
    <3>2. \A i \in 1 .. Len(ports'[r]) : owner'[ports'[r][i]] = r
      BY <1>0, <1>n, <3>1 DEF Fields
    <3>3. \A i, j \in 1 .. Len(ports'[r]) : ports'[r][i] = ports'[r][j] => i = j
      BY <1>0, <1>n, <3>1 DEF Sound, Owns
    <3>4. ASSUME NEW q \in Port, owner'[q] = r PROVE \E i \in 1 .. Len(ports'[r]) : q = ports'[r][i]
      <4>1. CASE q = p
        BY <1>n, <4>1
      <4>2. CASE q # p
        BY <1>0, <1>n, <3>4, <4>2 DEF Fields, Sound, Owns
      <4> QED BY <4>1, <4>2
    <3> QED BY <3>2, <3>3, <3>4 DEF Owns, Before, Holding, Reserving
  <2>3. HasLock(r)' /\ Phased(r)' /\ Collected(r)' /\ Swept(r)'
    BY <1>0 DEF Sound, HasLock, Phased, Collected, FailureSeen, Swept, Sweeping, Pooled, Reserving, Before, Over
  <2> QED BY <2>1, <2>2, <2>3 DEF Sound
<1>3. ASSUME NEW s \in Run \ {r} PROVE Sound(s)'
  BY <1>0, Frame DEF BatchInductive, Fields
<1> QED BY <1>1, <1>2, <1>3 DEF BatchInductive

\* It finds no port and holds on to the lock.
LEMMA ReserveNoneKeeps ==
  ASSUME BatchInductive, NEW r \in Run, pc[r] = "reserving", Goto(r, "unwind"),
         UNCHANGED <<owner, ports, lock, fut, results, asked, failFast, cancel>>
  PROVE  BatchInductive'
<1> USE Apart DEF Goto
<1>0. Fields /\ Sound(r)
  BY DEF BatchInductive
<1>1. Fields'
  BY <1>0 DEF Fields, Reserving
<1>2. Sound(r)'
  BY <1>0 DEF Fields, Sound, Listed, Owns, HasLock, Phased, Collected, FailureSeen, Swept, Sweeping, Before,
    Reserving, Pooled, Holding, Over
<1>3. ASSUME NEW s \in Run \ {r} PROVE Sound(s)'
  BY <1>0, Frame DEF BatchInductive, Fields
<1> QED BY <1>1, <1>2, <1>3 DEF BatchInductive

-----------------------------------------------------------------------------

\* Every step keeps the invariant.
LEMMA BatchStep == BatchInductive /\ [Next]_vars => BatchInductive'
<1> SUFFICES ASSUME BatchInductive, [Next]_vars PROVE BatchInductive'
  OBVIOUS
<1>1. CASE UNCHANGED vars
  <2>1. Fields'
    BY <1>1 DEF vars, BatchInductive, Fields
  <2>2. ASSUME NEW s \in Run PROVE Sound(s)'
    BY <1>1, Frame DEF vars, BatchInductive
  <2> QED BY <2>1, <2>2 DEF BatchInductive
<1>2. ASSUME NEW r \in Run, Reserve(r) PROVE BatchInductive'
  BY <1>2, OfferedFree, ReserveOneKeeps, ReserveNoneKeeps DEF Reserve
<1>3. ASSUME NEW r \in Run, Caller(r) PROVE BatchInductive'
  BY <1>2, <1>3, EnterLockKeeps, AllocatedKeeps, FreeKeeps, AllCollectedKeeps, JoinKeeps,
    WriteResultsKeeps, CollectKeeps, SignalKeeps, CancelNextKeeps, CollectLostKeeps DEF Caller
<1>4. ASSUME NEW r \in Run, Worker(r) PROVE BatchInductive'
  BY <1>4, TakeKeeps, TestKeeps, NotifyKeeps, HandoffKeeps, ExecutedKeeps DEF Worker
<1> QED BY <1>1, <1>3, <1>4, StartKeeps, SetCancelKeeps DEF Next

\* The invariant holds of every run, however many run at a time and whoever else holds ports.
THEOREM BatchInvariance == Spec => []BatchInductive
<1>1. Init => BatchInductive
  <2> SUFFICES ASSUME Init PROVE BatchInductive
    OBVIOUS
  <2>1. Fields
    BY DEF Init, Fields, Before
  <2>2. ASSUME NEW r \in Run PROVE Sound(r)
    BY Apart, BatchConstants DEF Init, Sound, Listed, Owns, HasLock, Phased, Collected, FailureSeen,
      Swept, Sweeping, Before, Reserving, Pooled, Holding, Over
  <2> QED BY <2>1, <2>2 DEF BatchInductive
<1> QED BY <1>1, BatchStep, PTL DEF Spec

\* Every variable of the runs keeps its type; no run reserves more ports than it has cases.
THEOREM BatchTyping == Spec => []TypeOK
<1>1. BatchInductive => TypeOK
  <2> SUFFICES ASSUME BatchInductive PROVE TypeOK
    OBVIOUS
  <2>1. ASSUME NEW r \in Run PROVE ports[r] \in UNION {[1 .. n -> Port] : n \in 0 .. Count}
    <3>1. Len(ports[r]) \in 0 .. Count /\ ports[r] \in [1 .. Len(ports[r]) -> Port]
      BY DEF BatchInductive, Fields, Sound, Listed
    <3> QED BY <3>1
  <2>2. ports \in [Run -> UNION {[1 .. n -> Port] : n \in 0 .. Count}]
    BY <2>1 DEF BatchInductive, Fields
  <2>3. pc \in [Run -> {"idle", "reserving", "freeing", "write", "done", "raised"} \cup Pooled
                        \cup DOMAIN Locked]
    BY DEF BatchInductive, Fields, Locked, Before, Reserving, Over
  <2>4. ASSUME NEW r \in Run
        PROVE  asked[r] \in Nat /\ (asked[r] # 0 => pc[r] = "cancelling" /\ asked[r] < Count)
    BY DEF BatchInductive, Fields, Sound, Swept, Sweeping
  <2> QED BY <2>2, <2>3, <2>4 DEF BatchInductive, Fields, TypeOK
<1> QED BY <1>1, BatchInvariance, PTL

\* A case executes on a port of its run that no other executing case of any run uses.
THEOREM CasesIsolated == Spec => []PortsIsolated
<1>1. BatchInductive => PortsIsolated
  <2> SUFFICES ASSUME BatchInductive PROVE PortsIsolated
    OBVIOUS
  <2>1. ASSUME NEW s \in Run, NEW d \in Case, fut[s][d] = "executing"
        PROVE  d \in 1 .. Len(ports[s]) /\ owner[ports[s][d]] = s
    <3>1. pc[s] \in Pooled
      BY <2>1 DEF BatchInductive, Fields, Sound, Phased, Before, Reserving, Pooled, Over, Finished, Lost
    <3>2. Len(ports[s]) = Count
      BY <3>1 DEF BatchInductive, Sound, Phased
    <3> QED BY <3>1, <3>2 DEF BatchInductive, Sound, Owns, Holding, Case
  <2>2. \A r \in Run : \A i, j \in 1 .. Len(ports[r]) : ports[r][i] = ports[r][j] => i = j
    BY DEF BatchInductive, Sound, Owns
  <2> QED BY <2>1, <2>2 DEF PortsIsolated
<1> QED BY <1>1, BatchInvariance, PTL

\* A run that has ended, by results or by an exception, holds no port.
THEOREM NoPortKept == Spec => []PortsReturned
<1>1. BatchInductive => PortsReturned
  BY DEF BatchInductive, Sound, Owns, Holding, Reserving, Pooled, PortsReturned
<1> QED BY <1>1, BatchInvariance, PTL

\* The results that are written say of every case how it ended.
THEOREM ResultsTold == Spec => []ResultsComplete
<1>1. BatchInductive => ResultsComplete
  BY DEF BatchInductive, Fields, Sound, Collected, ResultsComplete
<1> QED BY <1>1, BatchInvariance, PTL

\* Once fail_fast has collected a failure and gone through the futures, no worker takes
\* another case; and once it has set the event, those taken meanwhile are not executed.
THEOREM FailFastHolds == Spec => FailFastStops
<1> DEFINE Stops == \A r \in Run, c \in Case : FailureSeen(r) /\ pc[r] # "signal" =>
             /\ pc[r] # "cancelling" => ~(fut[r][c] = "pending" /\ fut'[r][c] = "taken")
             /\ cancel[r] # "missing" => ~(fut[r][c] = "taken" /\ fut'[r][c] = "handoff")
<1>1. BatchInductive /\ [Next]_vars => [Stops]_vars
  <2> SUFFICES ASSUME BatchInductive, Next, NEW r \in Run, NEW c \in Case, FailureSeen(r),
                      pc[r] # "signal"
               PROVE  /\ pc[r] # "cancelling" => ~(fut[r][c] = "pending" /\ fut'[r][c] = "taken")
                      /\ cancel[r] # "missing" => ~(fut[r][c] = "taken" /\ fut'[r][c] = "handoff")
    OBVIOUS
  <2>1. /\ pc[r] \notin Sweeping => fut[r][c] # "pending"
        /\ cancel[r] \in {"missing", "set"}
    BY DEF BatchInductive, Sound, Collected
  <2>2. ASSUME cancel[r] = "set", fut[r][c] = "taken", fut'[r][c] = "handoff" PROVE FALSE
    <3>1. Fields
      BY DEF BatchInductive
    <3>2. ASSUME NEW s \in Run, NEW d \in Case, NEW value, Becomes(s, d, value) PROVE s = r /\ d = c
      BY <2>2, <3>1, <3>2 DEF Becomes, Fields
    <3>3. ASSUME NEW s \in Run, CancelNext(s) PROVE FALSE
      BY <2>2, <3>1, <3>3 DEF CancelNext, Fields
    <3>4. ASSUME NEW s \in Run, Worker(s) PROVE FALSE
      <4>1. PICK d \in Case : Take(s, d) \/ Test(s, d) \/ Notify(s, d) \/ Handoff(s, d) \/ Executed(s, d)
        BY <3>4 DEF Worker
      <4>2. s = r /\ d = c
        BY <3>2, <4>1 DEF Take, Test, Notify, Handoff, Executed
      <4> QED BY <2>2, <3>1, <4>1, <4>2 DEF Take, Test, Notify, Handoff, Executed, Becomes, Fields
    <3>5. fut' # fut
      BY <2>2
    <3> QED BY <3>3, <3>4, <3>5 DEF Next, Caller, Start, EnterLock, Reserve, Allocated, Free, Signal, AllCollected,
      Join, WriteResults, Collect, CollectLost, SetCancel
  <2> QED BY <2>1, <2>2 DEF Sweeping
<1> QED BY <1>1, BatchInvariance, PTL DEF FailFastStops, Spec

-----------------------------------------------------------------------------
(* Runs do not get stuck. *)

\* The thread that has the lock goes on, unless it is going to wait for it once more.
LEMMA LockHolderSteps ==
  ASSUME BatchInductive, lock # None
  PROVE  lock \in Run /\ (CanStep(lock) \/ pc[lock] = "unwind")
<1>1. lock \in Run
  BY DEF BatchInductive, Fields
<1>2. pc[lock] \in Reserving \cup {"freeing"} /\ Len(ports[lock]) <= Count
  BY <1>1 DEF BatchInductive, Sound, HasLock, Listed
<1> QED BY <1>1, <1>2 DEF CanStep, Reserving

\* Of the pending cases one is the first.
LEMMA FirstPending ==
  ASSUME NEW r \in Run, NEW c \in Case, fut[r][c] = "pending"
  PROVE  \E d \in Case : Waiting(r, d)
<1> DEFINE left == {d \in Case : fut[r][d] = "pending"}
<1>1. left \subseteq Nat /\ left # {}
  BY DEF Case
<1>2. PICK d \in left : \A e \in left : ~ (<<e, d>> \in OpToRel(<, Nat))
  BY <1>1, WFMin, NatLessThanWellFounded
<1>3. \A e \in left : ~ (e < d)
  BY <1>1, <1>2 DEF OpToRel
<1>4. \A e \in 1 .. d - 1 : e \in Case /\ e < d
  BY BatchConstants DEF Case
<1>5. \A e \in 1 .. d - 1 : fut[r][e] # "pending"
  BY <1>3, <1>4
<1> QED BY <1>5 DEF Waiting

\* While the lock is free a run with its pool goes on: a case is being executed, or is
\* waited for by an idle worker, or has ended and is collected or joined.
LEMMA PoolSteps ==
  ASSUME BatchInductive, lock = None, NEW r \in Run, pc[r] \in Pooled
  PROVE  CanStep(r)
<1> DEFINE busy == {c \in Case : fut[r][c] \in Busy}
<1>1. /\ fut[r] \in [Case -> {"pending", "cancelled"} \cup Busy \cup Finished \cup Lost]
      /\ results[r] \subseteq Case
  BY DEF BatchInductive, Fields
<1>2. CASE busy # {}
  BY <1>2 DEF CanStep, Busy
<1>3. CASE busy = {}
  <2>1. IdleWorker(r)
    BY <1>3, FS_EmptySet, BatchConstants DEF IdleWorker
  <2>2. CASE \E c \in Case : fut[r][c] \in {"pending", "cancelled"}
    <3>1. \E d \in Case : Waiting(r, d)
      BY <2>2, FirstPending DEF Waiting
    <3> QED BY <2>1, <3>1 DEF CanStep, Pooled
  <2>3. CASE \A c \in Case : fut[r][c] \notin {"pending", "cancelled"}
    <3>1. \A c \in Case : fut[r][c] \in Finished \cup Lost
      BY <1>1, <1>3, <2>3
    <3>2. CASE pc[r] = "join"
      BY <3>1, <3>2 DEF CanStep
    <3>3. CASE pc[r] = "pool"
      <4>1. results[r] = Case \/ \E c \in Case : c \notin results[r]
        BY <1>1
      <4> QED BY <3>1, <3>3, <4>1 DEF CanStep
    <3>4. CASE pc[r] \in Sweeping
      BY <3>4 DEF CanStep, Sweeping
    <3> QED BY <3>2, <3>3, <3>4 DEF Pooled, Sweeping
  <2> QED BY <2>2, <2>3
<1> QED BY <1>2, <1>3

\* However many runs, cases and workers there are and whichever cases fail or are cancelled,
\* a run that has not ended can go on or some other run can, unless a run that was refused a
\* port waits for the lock it holds: StuckOnlyExhausted but for its ENABLED.
THEOREM NeverStuck == Spec => []NoneStuck
<1>1. ASSUME BatchInductive PROVE NoneStuck
  <2>1. CASE lock # None
    BY <1>1, <2>1, LockHolderSteps DEF NoneStuck
  <2>2. CASE lock = None
    <3>1. SUFFICES ASSUME NEW r \in Run, pc[r] \notin Ended PROVE CanStep(r)
      BY DEF NoneStuck
    <3>2. pc[r] \notin Reserving \cup {"freeing"}
      BY <1>1, <2>2, Apart DEF BatchInductive, Sound, HasLock
    <3>3. pc[r] \in {"idle", "allocate", "release", "write"} \cup Pooled
      BY <1>1, <3>1, <3>2 DEF BatchInductive, Fields, Before, Over, Ended
    <3>4. CASE pc[r] \in Pooled
      BY <1>1, <2>2, <3>4, PoolSteps
    <3>5. CASE pc[r] \in {"idle", "allocate", "release", "write"}
      BY <2>2, <3>5 DEF CanStep, Locked
    <3> QED BY <3>3, <3>4, <3>5
  <2> QED BY <2>1, <2>2
<1> QED BY <1>1, BatchInvariance, PTL

-----------------------------------------------------------------------------
(* A run with a base port is refused a port only when every port is taken: *)

\* ports that are searched from a base port on leave none free behind them,
Filled(r) == pc[r] = "reserving" /\ r \in Based => \A p \in Port : p <= Len(ports[r]) => owner[p] # None

\* a run that waits for its own lock keeps it, with every port taken or one by somebody else,
AllTaken == \A p \in Port : owner[p] # None
Rivalled(r) == r \notin Based /\ \E p \in Port : owner[p] \notin {None, r}
Exhausted(r) == pc[r] = "unwind" => Len(ports[r]) < Count /\ (AllTaken \/ Rivalled(r))

\* and the ports of other processes are the ones they had.
Foreign == {p \in Port : owner[p] = Other}

Searched ==
  /\ \A r \in Run : Filled(r) /\ Exhausted(r)
  /\ Cardinality(Foreign) <= MaxTaken

\* A search from a base port on offers the first free port, if there is one.
LEMMA OfferedFirst ==
  ASSUME NEW r \in Run, NEW i \in Nat
  PROVE  /\ r \in Based => \A p \in Offered(r, i), q \in Port : owner[q] = None /\ q >= i => p <= q
         /\ Offered(r, i) = {} => \A q \in Port : owner[q] = None => r \in Based /\ q < i
<1> DEFINE free == {p \in Port : owner[p] = None /\ (r \in Based => p >= i)}
<1>1. free \subseteq Nat /\ Offered(r, i) = {p \in free : r \in Based => \A q \in free : p <= q}
  BY DEF Offered, Port
<1>2. ASSUME r \in Based, NEW p \in Offered(r, i), NEW q \in Port, owner[q] = None, q >= i PROVE p <= q
  BY <1>1, <1>2
<1>3. ASSUME Offered(r, i) = {}, NEW q \in Port, owner[q] = None PROVE r \in Based /\ q < i
  <2>1. free = {}
    <3>1. SUFFICES ASSUME free # {} PROVE FALSE
      OBVIOUS
    <3>2. PICK p \in free : \A k \in free : ~ (<<k, p>> \in OpToRel(<, Nat))
      BY <1>1, <3>1, WFMin, NatLessThanWellFounded
    <3>3. \A k \in free : p <= k
      <4> SUFFICES ASSUME NEW k \in free, k < p PROVE FALSE
        BY <1>1
      <4> QED BY <1>1, <3>2 DEF OpToRel
    <3> QED BY <1>1, <1>3, <3>2, <3>3
  <2> QED BY <1>3, <2>1, BatchConstants DEF Port
<1> QED BY <1>2, <1>3

\* A step of any run leaves what has been found of the ports, when they and the runs that
\* reserve stay as they are.
LEMMA SearchedKept ==
  ASSUME Searched, UNCHANGED <<owner, ports>>,
         \A r \in Run : pc'[r] \in Reserving =>
           pc'[r] = pc[r] \/ (ports[r] = <<>> /\ pc'[r] = "reserving")
  PROVE  Searched'
<1>1. ASSUME NEW r \in Run PROVE Filled(r)' /\ Exhausted(r)'
  BY BatchConstants DEF Searched, Filled, Exhausted, AllTaken, Rivalled, Reserving, Port
<1>2. Foreign' = Foreign
  BY DEF Foreign
<1> QED BY <1>1, <1>2 DEF Searched

\* Ports that come free do so while nobody reserves any.
LEMMA FreeSearched ==
  ASSUME BatchInductive, Searched, NEW r \in Run, Free(r) PROVE Searched'
<1>0. Fields /\ Sound(r) /\ pc[r] = "freeing"
  BY DEF BatchInductive, Free
<1>1. ASSUME NEW p \in Port
      PROVE  owner'[p] = IF \E i \in 1 .. Len(ports[r]) : p = ports[r][i] THEN None ELSE owner[p]
  BY <1>0 DEF Free, ToSet, Fields
<1>2. Foreign' = Foreign
  BY <1>0, <1>1, Apart DEF Sound, Owns, Holding, Foreign
<1>3. ASSUME NEW s \in Run PROVE pc'[s] \notin Reserving
  <2>1. CASE s = r
    BY <1>0, <2>1 DEF Free, Goto, Fields, Reserving
  <2>2. CASE s # r
    <3>1. lock # s /\ pc'[s] = pc[s]
      BY <1>0, <2>2 DEF Free, Goto, Fields, Sound, HasLock
    <3> QED BY <3>1 DEF BatchInductive, Sound, HasLock
  <2> QED BY <2>1, <2>2
<1> QED BY <1>2, <1>3 DEF Searched, Filled, Exhausted, Reserving

\* A port that is leased and not bound is not the run's that reserves.
LEMMA UnboundElsewhere ==
  ASSUME BatchInductive, NEW r \in Run, pc[r] = "reserving", NEW p \in Unbound
  PROVE  p \in Port /\ owner[p] \notin {None, r}
<1>1. CASE owner[p] = Other
  BY <1>1, Apart DEF Unbound
<1>2. ASSUME NEW s \in Run, NEW c \in Case, pc[s] \in Pooled \cup {"release", "freeing"}, ports[s][c] = p
      PROVE  owner[p] \notin {None, r}
  <2>1. Len(ports[s]) = Count /\ owner[ports[s][c]] = s
    BY <1>2 DEF BatchInductive, Sound, Phased, Owns, Holding, Case
  <2>2. s # r
    BY <1>2 DEF Pooled
  <2> QED BY <1>2, <2>1, <2>2, Apart
<1> QED BY <1>1, <1>2 DEF Unbound

\* The port a run reserves is the first that was free.
LEMMA ReserveSearched ==
  ASSUME BatchInductive, Searched, NEW r \in Run, Reserve(r) PROVE Searched'
<1> DEFINE i == Len(ports[r]) + 1
<1>0. Fields /\ Sound(r) /\ pc[r] = "reserving" /\ Len(ports[r]) \in Nat /\ Len(ports[r]) < Count
  BY DEF BatchInductive, Reserve, Fields
<1>1. ASSUME NEW s \in Run \ {r} PROVE pc[s] \notin Reserving
  BY <1>0 DEF BatchInductive, Sound, HasLock, Reserving
<1>2. CASE Refused(r, i) /\ Goto(r, "unwind") /\ UNCHANGED <<owner, ports>>
  <2>1. AllTaken \/ Rivalled(r)
    <3>1. CASE Offered(r, i) = {}
      <4> SUFFICES ASSUME NEW p \in Port, owner[p] = None PROVE FALSE
        BY DEF AllTaken
      <4>1. r \in Based /\ p < i
        BY <1>0, <3>1, OfferedFirst
      <4> QED BY <1>0, <4>1 DEF Searched, Filled, Port
    <3>2. CASE r \notin Based /\ Unbound # {}
      BY <1>0, <3>2, UnboundElsewhere DEF Rivalled
    <3> QED BY <1>2, <3>1, <3>2 DEF Refused
  <2>2. pc'[r] = "unwind" /\ \A s \in Run \ {r} : pc'[s] = pc[s]
    BY <1>0, <1>2 DEF Goto, Fields
  <2>3. Foreign' = Foreign
    BY <1>2 DEF Foreign
  <2>4. ASSUME NEW s \in Run PROVE Filled(s)' /\ Exhausted(s)'
    BY <1>0, <1>1, <1>2, <2>1, <2>2 DEF Filled, Exhausted, AllTaken, Rivalled, Reserving
  <2> QED BY <2>3, <2>4 DEF Searched
<1>3. ASSUME NEW p \in Offered(r, i), owner' = [owner EXCEPT ![p] = r],
             ports' = [ports EXCEPT ![r] = Append(@, p)], UNCHANGED pc
      PROVE  Searched'
  <2>1. p \in Port /\ owner[p] = None
    BY <1>3, OfferedFree
  <2>2. \A q \in Port : owner'[q] = IF q = p THEN r ELSE owner[q]
    BY <1>0, <1>3 DEF Fields
  <2>3. Foreign' = Foreign
    BY <2>1, <2>2, Apart DEF Foreign
  <2>4. Len(ports'[r]) = i
    BY <1>0, <1>3 DEF Fields
  <2>5. Filled(r)'
    <3> SUFFICES ASSUME r \in Based, NEW q \in Port, q <= i PROVE owner'[q] # None
      BY <2>4 DEF Filled
    <3>1. CASE q < i
      BY <1>0, <2>2, <3>1, Apart DEF Searched, Filled, Port
    <3>2. CASE q = i
      <4>1. owner[q] = None => p <= q
        BY <1>0, <3>2, OfferedFirst
      <4>2. p >= i
        BY DEF Offered
      <4> QED BY <1>0, <2>1, <2>2, <3>2, <4>1, <4>2, Apart DEF Port
    <3> QED BY <1>0, <3>1, <3>2 DEF Port
  <2>6. ASSUME NEW s \in Run PROVE Filled(s)' /\ Exhausted(s)'
    BY <1>0, <1>1, <1>3, <2>5 DEF Filled, Exhausted, Reserving
  <2> QED BY <2>3, <2>6 DEF Searched
<1> QED BY <1>2, <1>3 DEF Reserve

LEMMA SearchedStep ==
  BatchInductive /\ Searched /\ [Next]_vars => Searched'
<1> SUFFICES ASSUME BatchInductive, Searched, [Next]_vars PROVE Searched'
  OBVIOUS
<1>0. Fields
  BY DEF BatchInductive
<1>1. CASE UNCHANGED vars
  BY <1>1, SearchedKept DEF vars
<1>2. ASSUME NEW r \in Run, EnterLock(r) PROVE Searched'
  <2>1. pc[r] \in DOMAIN Locked /\ UNCHANGED <<owner, ports>>
        /\ pc'[r] = Locked[pc[r]] /\ (\A s \in Run \ {r} : pc'[s] = pc[s])
    BY <1>0, <1>2 DEF EnterLock, Goto, Fields
  <2>2. pc'[r] \in Reserving => pc[r] = "allocate" /\ pc'[r] = "reserving"
    BY <2>1 DEF Locked, Reserving
  <2>3. pc[r] = "allocate" => ports[r] = <<>>
    BY DEF BatchInductive, Sound, Owns, Before
  <2> QED BY <2>1, <2>2, <2>3, SearchedKept
<1>3. ASSUME NEW r \in Run,
             Start(r) \/ Allocated(r) \/ AllCollected(r) \/ Join(r) \/ WriteResults(r)
               \/ Signal(r) \/ \E c \in Case : CollectLost(r, c)
      PROVE  Searched'
  <2>1. PICK step \in {"allocate", "pool", "cancelling", "join", "release", "done"} :
          Goto(r, step) /\ UNCHANGED <<owner, ports>>
    BY <1>3 DEF Signal, Start, Allocated, AllCollected, Join, WriteResults, CollectLost
  <2>2. pc'[r] = step /\ \A s \in Run \ {r} : pc'[s] = pc[s]
    BY <1>0, <2>1 DEF Goto, Fields
  <2> QED BY <2>1, <2>2, SearchedKept DEF Reserving
<1>4. ASSUME NEW r \in Run,
             Worker(r) \/ SetCancel(r) \/ CancelNext(r) \/ \E c \in Case : Collect(r, c)
      PROVE  Searched'
  <2>1. UNCHANGED <<owner, ports>> /\ (pc' = pc \/ Goto(r, "signal") \/ Goto(r, "pool"))
    BY <1>4 DEF Worker, Take, Test, Notify, Handoff, Executed, SetCancel, Collect, CancelNext
  <2>2. \A s \in Run : pc'[s] \in Reserving => pc'[s] = pc[s]
    BY <1>0, <2>1 DEF Goto, Fields, Reserving
  <2> QED BY <2>1, <2>2, SearchedKept
<1> QED BY <1>1, <1>2, <1>3, <1>4, FreeSearched, ReserveSearched DEF Next, Caller

\* A run that was refused a port holds on to a lock that nobody gets after it.  Every port
\* was taken: the search from a base port on misses none.  A run without a base port may
\* have been refused one that somebody else has, with others free.
THEOREM ExhaustedMeansTaken ==
  Spec => [](\A r \in Run : pc[r] = "unwind" =>
               /\ lock = r
               /\ \/ \A p \in Port : owner[p] # None
                  \/ r \notin Based /\ \E p \in Port : owner[p] \notin {None, r})
<1>1. Init => Searched
  BY DEF Init, Searched, Filled, Exhausted, Foreign
<1>2. BatchInductive /\ Searched =>
        \A r \in Run : pc[r] = "unwind" =>
          /\ lock = r
          /\ \/ \A p \in Port : owner[p] # None
             \/ r \notin Based /\ \E p \in Port : owner[p] \notin {None, r}
  BY DEF BatchInductive, Sound, HasLock, Reserving, Searched, Exhausted, AllTaken, Rivalled
<1> QED BY <1>1, <1>2, SearchedStep, BatchInvariance, PTL DEF Spec

-----------------------------------------------------------------------------
(* With a base port for each run and a port for each case, whoever holds the others, no run is
   refused one: *)

EnoughPorts ==
  Based = Run /\ IsFiniteSet(Run) /\ Cardinality(Run) * Count + MaxTaken <= MaxPort

\* the ports of the runs are fewer than their cases while one of them has not got all of its.
LEMMA FewerThanCases ==
  ASSUME BatchInductive, IsFiniteSet(Run), NEW r \in Run, Len(ports[r]) < Count,
         pc[r] \in Reserving
  PROVE  LET owned == {p \in Port : owner[p] \in Run}
         IN /\ IsFiniteSet(owned)
            /\ Cardinality(owned) <= Cardinality(Run) * Count - 1
<1> DEFINE owned == {p \in Port : owner[p] \in Run}
           place == [p \in owned |-> <<owner[p], CHOOSE i \in 1 .. Len(ports[owner[p]]) :
                                                   p = ports[owner[p]][i]>>]
           cells == (Run \X Case) \ {<<r, Count>>}
<1>1. ASSUME NEW p \in owned
      PROVE  /\ place[p][1] = owner[p] /\ owner[p] \in Run
             /\ place[p][2] \in 1 .. Len(ports[owner[p]]) /\ p = ports[owner[p]][place[p][2]]
  <2>1. owner[p] \in Run /\ \E i \in 1 .. Len(ports[owner[p]]) : p = ports[owner[p]][i]
    BY DEF BatchInductive, Sound, Owns
  <2> QED BY <2>1
<1>2. ASSUME NEW p \in owned PROVE place[p] \in cells
  <2>1. PICK s \in Run : \E i \in 1 .. Len(ports[s]) : place[p] = <<s, i>>
    BY <1>1
  <2>2. Len(ports[s]) \in Nat /\ Len(ports[s]) <= Count
    BY DEF BatchInductive, Fields, Sound, Listed
  <2>3. PICK i \in 1 .. Len(ports[s]) : place[p] = <<s, i>>
    BY <2>1
  <2>4. i \in Case /\ (s = r => i # Count)
    BY <2>2, BatchConstants DEF Case
  <2> HIDE DEF place
  <2>5. <<s, i>> \in Run \X Case /\ <<s, i>> # <<r, Count>>
    BY <2>2, <2>4
  <2> QED BY <2>3, <2>5
<1>3. ASSUME NEW p \in owned, NEW q \in owned, place[p] = place[q] PROVE p = q
  <2> HIDE DEF place
  <2> QED BY <1>1, <1>3
<1>4. place \in Injection(owned, cells)
  <2>1. place \in [owned -> cells]
    BY <1>2
  <2> HIDE DEF place, owned, cells
  <2> QED BY <1>3, <2>1 DEF Injection, IsInjective
<1>5. IsFiniteSet(cells) /\ Cardinality(cells) = Cardinality(Run) * Count - 1
  <2>0. Count \in Nat /\ (1 > Count => Count = 0)
    BY BatchConstants
  <2>1. IsFiniteSet(Case) /\ Cardinality(Case) = Count
    BY <2>0, FS_Interval DEF Case
  <2>2. IsFiniteSet(Run \X Case) /\ Cardinality(Run \X Case) = Cardinality(Run) * Count
    BY <2>1, FS_Product
  <2>3. <<r, Count>> \in Run \X Case
    BY BatchConstants DEF BatchInductive, Fields, Case
  <2> QED BY <2>2, <2>3, FS_RemoveElement
<1>6. IsFiniteSet(owned) /\ Cardinality(owned) <= Cardinality(cells)
  <2> HIDE DEF place, owned, cells
  <2> QED BY <1>4, <1>5, FS_Injection
<1> QED BY <1>5, <1>6

LEMMA NoneExhausted ==
  ASSUME EnoughPorts, BatchInductive, Searched, NEW r \in Run, pc[r] = "unwind"
  PROVE  FALSE
<1> DEFINE owned == {p \in Port : owner[p] \in Run}
<1>1. Len(ports[r]) < Count /\ \A p \in Port : owner[p] # None
  BY DEF Searched, Exhausted, EnoughPorts, AllTaken, Rivalled
<1>2. IsFiniteSet(owned) /\ Cardinality(owned) <= Cardinality(Run) * Count - 1
  BY <1>1, FewerThanCases DEF EnoughPorts, Reserving
<1>3. IsFiniteSet(Port) /\ Cardinality(Port) = MaxPort
  BY FS_Interval, BatchConstants DEF Port
<1>4. IsFiniteSet(Foreign) /\ Cardinality(Foreign) \in Nat /\ Cardinality(Foreign) <= MaxTaken
  BY <1>3, FS_Subset, FS_CardinalityType DEF Foreign, Searched
<1>5. Port = owned \cup Foreign
  BY <1>1 DEF BatchInductive, Fields, Foreign
<1>6. Cardinality(Port) <= Cardinality(owned) + Cardinality(Foreign)
  <2>1. Cardinality(owned \cap Foreign) \in Nat
    BY <1>2, FS_Subset, FS_CardinalityType
  <2>2. Cardinality(owned) \in Nat
    BY <1>2, FS_CardinalityType
  <2> HIDE DEF owned
  <2> QED BY <1>2, <1>4, <1>5, <2>1, <2>2, FS_Union
<1>7. Cardinality(Run) \in Nat /\ Cardinality(Run) * Count \in Nat /\ Cardinality(owned) \in Nat
  BY <1>2, FS_CardinalityType, BatchConstants DEF EnoughPorts
<1> QED BY <1>2, <1>3, <1>4, <1>6, <1>7, BatchConstants DEF EnoughPorts

\* With a base port and ports enough for every case of every run there is no deadlock at all:
\* as long as a run has not ended some run can go on.
THEOREM EnoughPortsNeverStuck ==
  ASSUME EnoughPorts
  PROVE  Spec => []((\E r \in Run : CanStep(r)) \/ \A r \in Run : pc[r] \in Ended)
<1>1. Init => Searched
  BY DEF Init, Searched, Filled, Exhausted, Foreign
<1>2. BatchInductive /\ Searched => \A r \in Run : pc[r] # "unwind"
  BY NoneExhausted
<1>3. NoneStuck /\ (\A r \in Run : pc[r] # "unwind") =>
        (\E r \in Run : CanStep(r)) \/ \A r \in Run : pc[r] \in Ended
  BY DEF NoneStuck
<1> QED BY <1>1, <1>2, <1>3, SearchedStep, BatchInvariance, NeverStuck, PTL DEF Spec

-----------------------------------------------------------------------------
(* No step is undone: the calling thread and the futures only get further, *)

Stage == [idle |-> 0, allocate |-> 1, reserving |-> 2, unwind |-> 3, pool |-> 3, signal |-> 3,
          cancelling |-> 3, join |-> 4, release |-> 5, freeing |-> 6, write |-> 7, raised |-> 7, done |-> 8]
Age == [pending |-> 0, taken |-> 1, cancelled |-> 1, handoff |-> 2, executing |-> 3,
        notified |-> 4, raised |-> 4, passed |-> 4, failed |-> 4, skipped |-> 4]

\* after each result the loop of cancels is gone through once at most,
Sweep(r) ==
  IF pc[r] = "signal" THEN 0 ELSE IF pc[r] = "cancelling" THEN 1 + asked[r] ELSE 1 + Count

\* what a run has got, reserved, collected or cancelled it does not lose,
Onward(r) ==
  /\ Stage[pc[r]] <= Stage[pc'[r]]
  /\ Len(ports[r]) <= Len(ports'[r]) /\ results[r] \subseteq results'[r]
  /\ \A c \in Case : Age[fut[r][c]] <= Age[fut'[r][c]]
  /\ cancel[r] = "set" => cancel'[r] = "set"
  /\ results[r] = results'[r] => Sweep(r) <= Sweep(r)'

\* and one of these has grown.  All of them are bounded, so runs take finitely many steps.
Moved(r) ==
  \/ Stage[pc[r]] < Stage[pc'[r]]
  \/ Len(ports[r]) < Len(ports'[r]) \/ results[r] # results'[r]
  \/ \E c \in Case : Age[fut[r][c]] < Age[fut'[r][c]]
  \/ cancel[r] # "set" /\ cancel'[r] = "set"
  \/ results[r] = results'[r] /\ Sweep(r) < Sweep(r)'

\* A run none of whose variables changes has lost nothing.
LEMMA OnwardKept ==
  ASSUME BatchInductive, NEW s \in Run, pc'[s] = pc[s], ports'[s] = ports[s],
         results'[s] = results[s], fut'[s] = fut[s], cancel'[s] = cancel[s], asked'[s] = asked[s]
  PROVE  Onward(s)
<1>1. /\ pc[s] \in Before \cup Pooled \cup Over \cup Reserving /\ ports[s] \in Seq(Port)
      /\ fut[s] \in [Case -> {"pending", "cancelled"} \cup Busy \cup Finished \cup Lost]
  BY DEF BatchInductive, Fields
<1>2. Stage[pc[s]] \in Nat /\ Len(ports[s]) \in Nat
  BY <1>1 DEF Stage, Before, Pooled, Over, Reserving
<1>3. \A c \in Case : Age[fut[s][c]] \in Nat
  BY <1>1 DEF Age, Busy, Finished, Lost
<1>4. Sweep(s) \in Int /\ Sweep(s)' = Sweep(s)
  BY BatchConstants DEF Sweep, BatchInductive, Fields
<1> QED BY <1>2, <1>3, <1>4 DEF Onward

\* A step of the calling thread from one stage to a later one.
LEMMA StageAdvances ==
  ASSUME BatchInductive, NEW r \in Run, NEW step \in {"allocate", "reserving", "unwind", "pool",
           "join", "release", "freeing", "write", "raised", "done"},
         Goto(r, step), Stage[pc[r]] < Stage[step], pc[r] \notin Sweeping,
         UNCHANGED <<ports, fut, results, asked, cancel>>
  PROVE  (\A s \in Run : Onward(s)) /\ Moved(r)
<1>1. /\ pc'[r] = step /\ \A s \in Run \ {r} : pc'[s] = pc[s]
      /\ pc[r] \in Before \cup Pooled \cup Over \cup Reserving /\ ports[r] \in Seq(Port)
      /\ fut[r] \in [Case -> {"pending", "cancelled"} \cup Busy \cup Finished \cup Lost]
  BY DEF BatchInductive, Fields, Goto
<1>2. Stage[pc[r]] \in Nat /\ Stage[step] \in Nat /\ Len(ports[r]) \in Nat
  BY <1>1 DEF Stage, Before, Pooled, Over, Reserving
<1>3. \A c \in Case : Age[fut[r][c]] \in Nat
  BY <1>1 DEF Age, Busy, Finished, Lost
<1>4. Sweep(r) \in Int /\ Sweep(r)' = Sweep(r)
  BY <1>1, BatchConstants DEF Sweep, Sweeping
<1>5. Onward(r) /\ Moved(r)
  BY <1>1, <1>2, <1>3, <1>4 DEF Onward, Moved
<1> QED BY <1>1, <1>5, OnwardKept

\* A step of a worker with one future.
LEMMA FutureAdvances ==
  ASSUME BatchInductive, NEW r \in Run, NEW c \in Case,
         NEW value \in Busy \cup Finished \cup Lost,
         Becomes(r, c, value), Age[fut[r][c]] < Age[value],
         UNCHANGED <<pc, ports, results, asked, cancel>>
  PROVE  (\A s \in Run : Onward(s)) /\ Moved(r)
<1>1. /\ pc[r] \in Before \cup Pooled \cup Over \cup Reserving /\ ports[r] \in Seq(Port)
      /\ fut[r] \in [Case -> {"pending", "cancelled"} \cup Busy \cup Finished \cup Lost]
      /\ fut'[r][c] = value /\ \A d \in Case \ {c} : fut'[r][d] = fut[r][d]
      /\ \A s \in Run \ {r} : fut'[s] = fut[s]
  BY DEF BatchInductive, Fields, Becomes
<1>2. Stage[pc[r]] \in Nat /\ Len(ports[r]) \in Nat
  BY <1>1 DEF Stage, Before, Pooled, Over, Reserving
<1>3. \A d \in Case : Age[fut[r][d]] \in Nat
  BY <1>1 DEF Age, Busy, Finished, Lost
<1>4. Age[value] \in Nat
  BY DEF Age, Busy, Finished, Lost
<1>5. Sweep(r) \in Int /\ Sweep(r)' = Sweep(r)
  BY BatchConstants DEF Sweep, BatchInductive, Fields
<1>6. Onward(r) /\ Moved(r)
  BY <1>1, <1>2, <1>3, <1>4, <1>5 DEF Onward, Moved
<1> QED BY <1>1, <1>6, OnwardKept

LEMMA CallerAdvances ==
  ASSUME BatchInductive, NEW r \in Run,
         Start(r) \/ EnterLock(r) \/ Allocated(r) \/ Free(r) \/ AllCollected(r) \/ Join(r)
           \/ WriteResults(r) \/ \E c \in Case : CollectLost(r, c)
  PROVE  (\A s \in Run : Onward(s)) /\ Moved(r)
<1>1. UNCHANGED <<ports, fut, results, asked, cancel>>
  BY DEF Start, EnterLock, Allocated, Free, AllCollected, Join, WriteResults, CollectLost
<1>2. CASE EnterLock(r)
  <2>1. PICK step \in {"reserving", "freeing"} :
          Goto(r, step) /\ step = Locked[pc[r]] /\ pc[r] \in {"allocate", "unwind", "release"}
    BY <1>2 DEF EnterLock, Locked
  <2>2. Stage[pc[r]] < Stage[step]
    BY <2>1 DEF Stage, Locked
  <2>3. pc[r] \notin Sweeping
    BY <2>1 DEF Sweeping
  <2> QED BY <1>1, <2>1, <2>2, <2>3, StageAdvances
<1>3. CASE ~ EnterLock(r)
  <2>1. PICK step \in {"allocate", "pool", "join", "release", "write", "raised", "done"} :
          /\ Goto(r, step)
          /\ \/ step = "allocate" /\ pc[r] = "idle"
             \/ step = "pool" /\ pc[r] = "reserving"
             \/ step \in {"write", "raised"} /\ pc[r] = "freeing"
             \/ step = "join" /\ pc[r] = "pool"
             \/ step = "release" /\ pc[r] = "join"
             \/ step = "done" /\ pc[r] = "write"
    BY <1>3 DEF Start, Allocated, Free, AllCollected, Join, WriteResults, CollectLost
  <2>2. Stage[pc[r]] < Stage[step]
    BY <2>1 DEF Stage
  <2>3. pc[r] \notin Sweeping
    BY <2>1 DEF Sweeping
  <2> QED BY <1>1, <2>1, <2>2, <2>3, StageAdvances
<1> QED BY <1>2, <1>3

LEMMA ReserveAdvances ==
  ASSUME BatchInductive, NEW r \in Run, Reserve(r)
  PROVE  (\A s \in Run : Onward(s)) /\ Moved(r)
<1>1. CASE Goto(r, "unwind") /\ UNCHANGED <<owner, ports>>
  <2>1. Stage["reserving"] < Stage["unwind"] /\ pc[r] = "reserving" /\ pc[r] \notin Sweeping
    BY DEF Stage, Reserve, Sweeping
  <2> QED BY <1>1, <2>1, StageAdvances DEF Reserve
<1>2. ASSUME NEW p \in Port, ports' = [ports EXCEPT ![r] = Append(@, p)], UNCHANGED pc
      PROVE  (\A s \in Run : Onward(s)) /\ Moved(r)
  <2>1. /\ pc[r] = "reserving" /\ ports \in [Run -> Seq(Port)]
        /\ fut[r] \in [Case -> {"pending", "cancelled"} \cup Busy \cup Finished \cup Lost]
        /\ UNCHANGED <<fut, results, asked, cancel>>
    BY DEF BatchInductive, Fields, Reserve
  <2>2. Len(ports[r]) \in Nat /\ Len(ports'[r]) = Len(ports[r]) + 1
        /\ \A s \in Run \ {r} : ports'[s] = ports[s]
    BY <1>2, <2>1
  <2>3. Stage[pc[r]] \in Nat
    BY <2>1 DEF Stage
  <2>4. \A c \in Case : Age[fut[r][c]] \in Nat
    BY <2>1 DEF Age, Busy, Finished, Lost
  <2>5. Sweep(r) \in Int /\ Sweep(r)' = Sweep(r)
    BY <1>2, <2>1, BatchConstants DEF Sweep
  <2>6. Onward(r) /\ Moved(r)
    BY <1>2, <2>1, <2>2, <2>3, <2>4, <2>5 DEF Onward, Moved
  <2> QED BY <1>2, <2>1, <2>2, <2>6, OnwardKept
<1> QED BY <1>1, <1>2, OfferedFree DEF Reserve

LEMMA CollectAdvances ==
  ASSUME BatchInductive, NEW r \in Run, NEW c \in Case, Collect(r, c)
  PROVE  (\A s \in Run : Onward(s)) /\ Moved(r)
<1>1. /\ UNCHANGED <<ports, fut, asked, cancel>> /\ c \notin results[r] /\ pc[r] = "pool"
      /\ pc'[r] \in {"pool", "signal"} /\ \A s \in Run \ {r} : pc'[s] = pc[s]
      /\ results'[r] = results[r] \cup {c} /\ \A s \in Run \ {r} : results'[s] = results[s]
      /\ ports[r] \in Seq(Port)
      /\ fut[r] \in [Case -> {"pending", "cancelled"} \cup Busy \cup Finished \cup Lost]
  BY DEF Collect, Goto, BatchInductive, Fields
<1>2. Stage[pc[r]] <= Stage[pc'[r]] /\ Len(ports[r]) \in Nat
  BY <1>1 DEF Stage
<1>3. \A d \in Case : Age[fut[r][d]] \in Nat
  BY <1>1 DEF Age, Busy, Finished, Lost
<1>4. Onward(r) /\ Moved(r)
  BY <1>1, <1>2, <1>3 DEF Onward, Moved
<1> QED BY <1>1, <1>4, OnwardKept

\* The loop of cancels goes on.
LEMMA SweepAdvances ==
  ASSUME BatchInductive, NEW r \in Run, Signal(r) \/ CancelNext(r)
  PROVE  (\A s \in Run : Onward(s)) /\ Moved(r)
<1>0. Fields /\ Swept(r) /\ pc[r] \in Sweeping
  BY DEF BatchInductive, Sound, Signal, CancelNext, Sweeping
<1>1. /\ UNCHANGED <<ports, results>> /\ ports[r] \in Seq(Port)
      /\ pc[r] \in Sweeping /\ pc'[r] \in {"cancelling", "pool"}
      /\ \A s \in Run \ {r} : UNCHANGED <<pc[s], fut[s], asked[s], cancel[s]>>
      /\ cancel[r] = "set" => cancel'[r] = "set"
  BY <1>0 DEF Signal, CancelNext, Goto, Fields
<1>2. Stage[pc[r]] = 3 /\ Stage[pc'[r]] = 3 /\ Len(ports[r]) \in Nat
  BY <1>1 DEF Stage, Sweeping
<1>3. \A d \in Case : fut'[r][d] = fut[r][d] \/ (fut[r][d] = "pending" /\ fut'[r][d] = "cancelled")
  BY <1>0 DEF Signal, CancelNext, Fields
<1>4. ASSUME NEW d \in Case PROVE Age[fut[r][d]] \in Nat /\ Age[fut[r][d]] <= Age[fut'[r][d]]
  <2>1. fut[r][d] \in {"pending", "cancelled"} \cup Busy \cup Finished \cup Lost
    BY <1>0 DEF Fields
  <2> QED BY <1>3, <2>1 DEF Age, Busy, Finished, Lost
<1>5. Sweep(r) < Sweep(r)' /\ Sweep(r) \in Int /\ Sweep(r)' \in Int
  <2>1. CASE Signal(r)
    <3>1. pc[r] = "signal" /\ pc'[r] = "cancelling" /\ asked'[r] = asked[r] /\ asked[r] \in Nat
      BY <1>0, <2>1 DEF Signal, Goto, Fields
    <3> QED BY <3>1 DEF Sweep
  <2>2. CASE CancelNext(r)
    <3>1. /\ asked[r] \in Nat /\ asked[r] < Count /\ pc[r] = "cancelling"
          /\ \/ pc'[r] = "pool"
             \/ pc'[r] = "cancelling" /\ asked'[r] = asked[r] + 1
      BY <1>0, <2>2 DEF CancelNext, Goto, Fields, Swept
    <3> QED BY <3>1, BatchConstants DEF Sweep
  <2> QED BY <2>1, <2>2
<1>6. Onward(r) /\ Moved(r)
  BY <1>1, <1>2, <1>4, <1>5 DEF Onward, Moved
<1> QED BY <1>1, <1>6, OnwardKept

LEMMA WorkerAdvances ==
  ASSUME BatchInductive, NEW r \in Run, Worker(r)
  PROVE  (\A s \in Run : Onward(s)) /\ Moved(r)
<1>1. PICK c \in Case : Take(r, c) \/ Test(r, c) \/ Notify(r, c) \/ Handoff(r, c) \/ Executed(r, c)
  BY DEF Worker
<1>2. UNCHANGED <<pc, ports, results, asked, cancel>>
  BY <1>1 DEF Take, Test, Notify, Handoff, Executed
<1>3. PICK value \in Busy \cup Finished \cup Lost :
        /\ Becomes(r, c, value)
        /\ \/ fut[r][c] = "pending" /\ value = "taken"
           \/ fut[r][c] = "taken" /\ value \in {"raised", "skipped", "handoff"}
           \/ fut[r][c] = "cancelled" /\ value = "notified"
           \/ fut[r][c] = "handoff" /\ value \in {"executing", "failed"}
           \/ fut[r][c] = "executing" /\ value \in {"passed", "failed", "raised"}
  BY <1>1 DEF Take, Test, Notify, Handoff, Executed, Busy, Finished, Lost
<1>4. Age[fut[r][c]] < Age[value]
  BY <1>3 DEF Age
<1> QED BY <1>2, <1>3, <1>4, FutureAdvances

LEMMA SetCancelAdvances ==
  ASSUME BatchInductive, NEW r \in Run, SetCancel(r)
  PROVE  (\A s \in Run : Onward(s)) /\ Moved(r)
<1>1. /\ UNCHANGED <<pc, ports, results, asked, fut>> /\ cancel[r] = "clear" /\ cancel'[r] = "set"
      /\ \A s \in Run \ {r} : cancel'[s] = cancel[s]
  BY DEF SetCancel, BatchInductive, Fields
<1>2. /\ pc[r] \in Before \cup Pooled \cup Over \cup Reserving /\ ports[r] \in Seq(Port)
      /\ fut[r] \in [Case -> {"pending", "cancelled"} \cup Busy \cup Finished \cup Lost]
  BY DEF BatchInductive, Fields
<1>3. Stage[pc[r]] \in Nat /\ Len(ports[r]) \in Nat
  BY <1>2 DEF Stage, Before, Pooled, Over, Reserving
<1>4. \A c \in Case : Age[fut[r][c]] \in Nat
  BY <1>2 DEF Age, Busy, Finished, Lost
<1>5. Sweep(r) \in Int /\ Sweep(r)' = Sweep(r)
  BY <1>1, BatchConstants DEF Sweep, BatchInductive, Fields
<1>6. Onward(r) /\ Moved(r)
  BY <1>1, <1>3, <1>4, <1>5 DEF Onward, Moved
<1> QED BY <1>1, <1>6, OnwardKept

\* Every step of a run gets it or one of its futures further and takes nothing back of any
\* run, so that with NeverStuck the runs come to their ends.
THEOREM StepsAdvance == Spec => [][(\A r \in Run : Onward(r)) /\ \E r \in Run : Moved(r)]_vars
<1>1. BatchInductive /\ [Next]_vars =>
        [(\A r \in Run : Onward(r)) /\ \E r \in Run : Moved(r)]_vars
  <2> SUFFICES ASSUME BatchInductive, NEW r \in Run,
                      Start(r) \/ Caller(r) \/ Worker(r) \/ SetCancel(r)
               PROVE  (\A s \in Run : Onward(s)) /\ \E s \in Run : Moved(s)
    BY DEF Next
  <2> QED BY CallerAdvances, ReserveAdvances, CollectAdvances, SweepAdvances, WorkerAdvances, SetCancelAdvances
          DEF Caller
<1> QED BY <1>1, BatchInvariance, PTL DEF Spec
=============================================================================
