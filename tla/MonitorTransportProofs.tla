----------------------- MODULE MonitorTransportProofs -----------------------
(***************************************************************************)
(* Proofs about MonitorTransport, for any set of requests, any number of   *)
(* slots, ids and connections, and any size of the event queue.            *)
(***************************************************************************)
EXTENDS MonitorTransport, FiniteSetTheorems, SequenceTheorems, WellFoundedInduction, TLAPS

-----------------------------------------------------------------------------
(* What holds even when request ids wrap around *)

\* The tasks that wait for the write lock are in its queue once.
Queued ==
  /\ \A i \in 1 .. Len(lockQ) : pc[lockQ[i]] = "lock"
  /\ \A i, j \in 1 .. Len(lockQ) : lockQ[i] = lockQ[j] => i = j

Registered == pending \subseteq InFlight /\ IdsDistinct

TransportInductive == TypeOK /\ Queued /\ SlotsAccounted /\ Registered /\ EventsAccounted

-----------------------------------------------------------------------------
(* Queues and ids *)

\* The assumptions on the constants, one by one.
LEMMA ConstantTypes ==
  /\ MaxPending \in Nat \ {0} /\ MaxEvents \in Nat \ {0} /\ IdSpace \in Nat \ {0}
  /\ MaxConn \in Nat /\ MaxEmitted \in Nat /\ MaxPending <= IdSpace
  /\ IsFiniteSet(Req) /\ None \notin Req
BY TransportConstants

\* Taking a task out of a queue leaves a part of the queue.
LEMMA WithoutIsPart ==
  ASSUME NEW S, NEW queue \in Seq(S), NEW r
  PROVE  Without(queue, r) \in Seq(S)
<1>1. CASE ~ \E i \in DOMAIN queue : queue[i] = r
  BY <1>1 DEF Without
<1>2. CASE \E i \in DOMAIN queue : queue[i] = r
  <2> DEFINE k == CHOOSE i \in DOMAIN queue : queue[i] = r
  <2>1. k \in 1 .. Len(queue) /\ Len(queue) \in Nat
    BY <1>2, LenProperties
  <2>2. Without(queue, r) = SubSeq(queue, 1, k - 1) \o SubSeq(queue, k + 1, Len(queue))
    BY <1>2 DEF Without, RemoveAt
  <2> HIDE DEF k
  <2>3. \A i \in 1 .. Len(queue) : queue[i] \in S
    BY ElementOfSeq
  <2>4. SubSeq(queue, 1, k - 1) \in Seq(S)
    BY <2>1, <2>3, SubSeqProperties
  <2>5. SubSeq(queue, k + 1, Len(queue)) \in Seq(S)
    BY <2>1, <2>3, SubSeqProperties
  <2> QED BY <2>2, <2>4, <2>5, ConcatProperties
<1> QED BY <1>1, <1>2

\* A task that was in the queue once is not in it any more, and the others are in it once.
LEMMA WithoutDistinct ==
  ASSUME NEW S, NEW queue \in Seq(S), NEW r,
         \A i, j \in 1 .. Len(queue) : queue[i] = queue[j] => i = j
  PROVE  LET rest == Without(queue, r)
         IN  /\ \A i \in 1 .. Len(rest) :
                  rest[i] # r /\ \E j \in 1 .. Len(queue) : rest[i] = queue[j]
             /\ \A i, j \in 1 .. Len(rest) : rest[i] = rest[j] => i = j
<1> DEFINE rest == Without(queue, r)
<1>1. CASE ~ \E i \in DOMAIN queue : queue[i] = r
  BY <1>1, LenProperties DEF Without
<1>2. CASE \E i \in DOMAIN queue : queue[i] = r
  <2> DEFINE k == CHOOSE i \in DOMAIN queue : queue[i] = r
  <2>1. k \in 1 .. Len(queue) /\ Len(queue) \in Nat /\ queue[k] = r
    BY <1>2, LenProperties
  <2>2. rest = SubSeq(queue, 1, k - 1) \o SubSeq(queue, k + 1, Len(queue))
    BY <1>2 DEF Without, RemoveAt
  <2> HIDE DEF k, rest
  <2>3. \A i \in 1 .. Len(queue) : queue[i] \in S
    BY ElementOfSeq
  <2>4. /\ SubSeq(queue, 1, k - 1) \in Seq(S)
        /\ Len(SubSeq(queue, 1, k - 1)) = k - 1
        /\ \A i \in 1 .. k - 1 : SubSeq(queue, 1, k - 1)[i] = queue[i]
    <3>1. \A i \in 1 .. k - 1 : queue[i] \in S
      BY <2>1, <2>3
    <3>2. 1 \in Int /\ k - 1 \in Int /\ (1 <= k - 1 \/ k = 1)
      BY <2>1
    <3> QED BY <3>1, <3>2, <2>1, SubSeqProperties
  <2>5. /\ SubSeq(queue, k + 1, Len(queue)) \in Seq(S)
        /\ Len(SubSeq(queue, k + 1, Len(queue))) = Len(queue) - k
        /\ \A i \in 1 .. Len(queue) - k : SubSeq(queue, k + 1, Len(queue))[i] = queue[k + i]
    <3>1. \A i \in k + 1 .. Len(queue) : queue[i] \in S
      BY <2>1, <2>3
    <3>2. k + 1 \in Int /\ Len(queue) \in Int
      BY <2>1
    <3> DEFINE upper == SubSeq(queue, k + 1, Len(queue))
    <3>3. /\ upper \in Seq(S)
          /\ Len(upper) = IF k + 1 <= Len(queue) THEN Len(queue) - (k + 1) + 1 ELSE 0
          /\ \A i \in 1 .. Len(queue) - (k + 1) + 1 : upper[i] = queue[k + 1 + i - 1]
      BY <3>1, <3>2, SubSeqProperties
    <3> HIDE DEF upper
    <3>4. Len(upper) = Len(queue) - k /\ \A i \in 1 .. Len(queue) - k : upper[i] = queue[k + i]
      BY <2>1, <3>3
    <3> QED BY <3>3, <3>4 DEF upper
  <2>6. /\ Len(rest) = Len(queue) - 1
        /\ \A i \in 1 .. Len(rest) : rest[i] = queue[IF i < k THEN i ELSE i + 1]
    <3> DEFINE lower == SubSeq(queue, 1, k - 1)
               upper == SubSeq(queue, k + 1, Len(queue))
    <3>1. /\ Len(rest) = Len(lower) + Len(upper)
          /\ \A i \in 1 .. Len(lower) + Len(upper) :
               rest[i] = IF i <= Len(lower) THEN lower[i] ELSE upper[i - Len(lower)]
      BY <2>2, <2>4, <2>5, ConcatProperties
    <3>2. /\ Len(lower) = k - 1 /\ Len(upper) = Len(queue) - k
          /\ \A i \in 1 .. k - 1 : lower[i] = queue[i]
          /\ \A i \in 1 .. Len(queue) - k : upper[i] = queue[k + i]
      BY <2>4, <2>5
    <3> HIDE DEF lower, upper
    <3>3. Len(rest) = Len(queue) - 1
      BY <3>1, <3>2, <2>1
    <3>4. ASSUME NEW i \in 1 .. Len(rest) PROVE rest[i] = queue[IF i < k THEN i ELSE i + 1]
      <4>1. CASE i < k
        BY <4>1, <3>1, <3>2, <3>3, <2>1
      <4>2. CASE ~(i < k)
        <5>1. i - (k - 1) \in 1 .. Len(queue) - k /\ k + (i - (k - 1)) = i + 1
          BY <4>2, <3>3, <2>1
        <5>2. rest[i] = upper[i - (k - 1)]
          BY <4>2, <3>1, <3>2, <3>3, <2>1
        <5> QED BY <5>1, <5>2, <3>2, <4>2
      <4> QED BY <4>1, <4>2
    <3> QED BY <3>3, <3>4
  <2>7. \A i \in 1 .. Len(rest) : /\ (IF i < k THEN i ELSE i + 1) \in 1 .. Len(queue)
                                  /\ (IF i < k THEN i ELSE i + 1) # k
    BY <2>1, <2>6
  <2>8. ASSUME NEW i \in 1 .. Len(rest), NEW j \in 1 .. Len(rest), rest[i] = rest[j] PROVE i = j
    <3>1. (IF i < k THEN i ELSE i + 1) = (IF j < k THEN j ELSE j + 1)
      BY <2>6, <2>7, <2>8
    <3> QED BY <3>1, <2>1, <2>6
  <2>9. ASSUME NEW i \in 1 .. Len(rest)
        PROVE  rest[i] # r /\ \E j \in 1 .. Len(queue) : rest[i] = queue[j]
    BY <2>1, <2>6, <2>7
  <2> QED BY <2>8, <2>9 DEF rest
<1> QED BY <1>1, <1>2

\* What is at the head of a queue is in it, and the rest of it is the rest.
LEMMA HeadAndTail ==
  ASSUME NEW S, NEW queue \in Seq(S), queue # <<>>
  PROVE  /\ Len(queue) \in Nat /\ Len(queue) >= 1
         /\ Head(queue) = queue[1] /\ Tail(queue) \in Seq(S)
         /\ Len(Tail(queue)) = Len(queue) - 1
         /\ \A i \in 1 .. Len(Tail(queue)) : Tail(queue)[i] = queue[i + 1]
<1>1. Len(queue) \in Nat /\ Len(queue) # 0
  BY EmptySeq, LenProperties
<1> QED BY <1>1, HeadTailProperties

\* A set of naturals has a least element, and Min is it.
LEMMA MinIsLeast ==
  ASSUME NEW S, S \subseteq Nat, S # {}
  PROVE  Min(S) \in S /\ \A k \in S : Min(S) <= k
<1>1. PICK x \in S : \A y \in S : ~ (<<y, x>> \in OpToRel(<, Nat))
  BY WFMin, NatLessThanWellFounded
<1>2. \A y \in S : x <= y
  <2> SUFFICES ASSUME NEW y \in S, y < x PROVE FALSE
    OBVIOUS
  <2> QED BY <1>1 DEF OpToRel
<1> QED BY <1>2 DEF Min

\* With fewer requests registered than there are ids, NewId is an id none of them has.
LEMMA NewIdFree ==
  ASSUME TypeOK, IdsDistinct, IsFiniteSet(pending), Cardinality(pending) < IdSpace
  PROVE  NewId \in 0 .. IdSpace - 1 /\ \A q \in pending : rid[q] # NewId
<1> DEFINE after(k) == (nextId + k) % IdSpace
           free == {k \in 1 .. IdSpace : \A q \in pending : rid[q] # after(k)}
<1>1. /\ IdSpace \in Nat /\ IdSpace > 0 /\ nextId \in 0 .. IdSpace - 1
      /\ pending \subseteq Req /\ rid \in [Req -> 0 .. IdSpace - 1]
  BY ConstantTypes DEF TypeOK
<1>2. PICK v \in 0 .. IdSpace - 1 : \A q \in pending : rid[q] # v
  <2> SUFFICES ASSUME \A v \in 0 .. IdSpace - 1 : \E q \in pending : rid[q] = v PROVE FALSE
    OBVIOUS
  <2> DEFINE holder == [v \in 0 .. IdSpace - 1 |-> CHOOSE q \in pending : rid[q] = v]
  <2>1. \A v \in 0 .. IdSpace - 1 : holder[v] \in pending /\ rid[holder[v]] = v
    OBVIOUS
  <2>2. holder \in [0 .. IdSpace - 1 -> pending]
    BY <2>1
  <2>3. holder \in Injection(0 .. IdSpace - 1, pending)
    <3> HIDE DEF holder
    <3>1. \A u, v \in 0 .. IdSpace - 1 : holder[u] = holder[v] => u = v
      BY <2>1
    <3> QED BY <3>1, <2>2 DEF Injection, IsInjective
  <2>4. Cardinality(0 .. IdSpace - 1) <= Cardinality(pending)
    BY <2>3, FS_Injection
  <2>5. Cardinality(0 .. IdSpace - 1) = IdSpace
    BY <1>1, FS_Interval
  <2>6. Cardinality(pending) \in Nat
    BY FS_CardinalityType
  <2> QED BY <2>4, <2>5, <2>6, <1>1
<1>3. free # {}
  <2> DEFINE k == IF v > nextId THEN v - nextId ELSE v - nextId + IdSpace
  <2>1. k \in 1 .. IdSpace /\ (nextId + k = v \/ nextId + k = v + IdSpace)
    BY <1>1, <1>2
  <2>2. v % IdSpace = v /\ (v + IdSpace) % IdSpace = v
    BY <1>1, <1>2
  <2>3. after(k) = v
    BY <2>1, <2>2
  <2>4. k \in free
    BY <2>1, <2>3, <1>2
  <2> QED BY <2>4
<1>4. Min(free) \in free
  <2>1. free \subseteq Nat
    OBVIOUS
  <2> HIDE DEF free
  <2> QED BY <2>1, <1>3, MinIsLeast
<1>5. NewId = after(Min(free))
  BY DEF NewId
<1>6. \A k \in 1 .. IdSpace : after(k) \in 0 .. IdSpace - 1
  BY <1>1
<1>7. Min(free) \in 1 .. IdSpace /\ \A q \in pending : rid[q] # after(Min(free))
  BY <1>4
<1> HIDE DEF free
<1> QED BY <1>5, <1>6, <1>7

\* A call that leaves gives back the one slot it held.
LEMMA SlotFreed ==
  ASSUME TypeOK, SlotsAccounted, NEW r \in InFlight,
         InFlight' = InFlight \ {r}, slots' = slots + 1
  PROVE  SlotsAccounted' /\ slots' \in 0 .. MaxPending
<1>1. IsFiniteSet(InFlight)
  BY ConstantTypes, FS_Subset DEF InFlight
<1>2. Cardinality(InFlight \ {r}) = Cardinality(InFlight) - 1 /\ Cardinality(InFlight) \in Nat
  BY <1>1, FS_RemoveElement, FS_CardinalityType
<1>3. Cardinality(InFlight \ {r}) \in Nat
  BY <1>1, FS_RemoveElement, FS_CardinalityType
<1>4. MaxPending \in Nat /\ slots \in 0 .. MaxPending
  BY ConstantTypes DEF TypeOK
<1> QED BY <1>2, <1>3, <1>4 DEF SlotsAccounted

LEMMA SlotTaken ==
  ASSUME TypeOK, SlotsAccounted, NEW r \in Req, r \notin InFlight, slots > 0,
         InFlight' = InFlight \cup {r}, slots' = slots - 1
  PROVE  SlotsAccounted' /\ slots' \in 0 .. MaxPending
<1>1. IsFiniteSet(InFlight)
  BY ConstantTypes, FS_Subset DEF InFlight
<1>2. Cardinality(InFlight \cup {r}) = Cardinality(InFlight) + 1 /\ Cardinality(InFlight) \in Nat
  BY <1>1, FS_AddElement, FS_CardinalityType
<1>3. MaxPending \in Nat /\ slots \in 0 .. MaxPending
  BY ConstantTypes DEF TypeOK
<1> QED BY <1>2, <1>3 DEF SlotsAccounted

\* A request that finds a slot free finds an id free.
LEMMA IdAvailable ==
  ASSUME TypeOK, SlotsAccounted, Registered, slots > 0
  PROVE  NewId \in 0 .. IdSpace - 1 /\ \A q \in pending : rid[q] # NewId
<1>1. IsFiniteSet(InFlight) /\ pending \in SUBSET InFlight
  BY ConstantTypes, FS_Subset DEF InFlight, Registered
<1>2. IsFiniteSet(pending) /\ Cardinality(pending) <= Cardinality(InFlight)
  BY <1>1, FS_Subset
<1>3. Cardinality(pending) \in Nat /\ Cardinality(InFlight) \in Nat
  BY <1>1, <1>2, FS_CardinalityType
<1>4. Cardinality(pending) < IdSpace
  BY <1>2, <1>3, ConstantTypes DEF TypeOK, SlotsAccounted
<1> QED BY <1>2, <1>4, NewIdFree DEF Registered

-----------------------------------------------------------------------------
(* The steps *)

\* A step that leaves the calls where they are and registers nothing keeps their account.
LEMMA AccountKept ==
  ASSUME Queued, SlotsAccounted, Registered,
         UNCHANGED <<pc, rid, slots, lockQ>>, pending' \subseteq pending
  PROVE  Queued' /\ SlotsAccounted' /\ Registered'
<1>1. InFlight' = InFlight
  BY DEF InFlight
<1>2. SlotsAccounted'
  BY <1>1 DEF SlotsAccounted
<1>3. Registered'
  BY <1>1 DEF Registered, IdsDistinct
<1> QED BY <1>2, <1>3 DEF Queued

LEMMA EventsKept ==
  ASSUME EventsAccounted, UNCHANGED eventVars
  PROVE  EventsAccounted'
BY DEF EventsAccounted, eventVars

Outcome == {"none", "reply", "error", "timeout", "cancelled", "broken"}

LEMMA FinishKeeps ==
  ASSUME TypeOK, SlotsAccounted, Registered, NEW r \in InFlight, NEW how \in Outcome,
         Finish(r, how), rid' = rid
  PROVE  /\ SlotsAccounted' /\ Registered'
         /\ slots' \in 0 .. MaxPending /\ pending' \subseteq Req
         /\ pc' \in [Req -> {"new", "slot", "lock", "drain", "reply", "done"}]
         /\ res' \in [Req -> Outcome]
         /\ \A q \in Req \ {r} : pc'[q] = pc[q]
<1>1. r \in Req /\ pc \in [Req -> {"new", "slot", "lock", "drain", "reply", "done"}]
  BY DEF TypeOK, InFlight
<1>2. pc' = [pc EXCEPT ![r] = "done"]
  BY DEF Finish
<1>3. InFlight' = InFlight \ {r}
  BY <1>1, <1>2 DEF InFlight
<1>4. SlotsAccounted' /\ slots' \in 0 .. MaxPending
  BY <1>3, SlotFreed DEF Finish
<1>5. Registered'
  BY <1>3 DEF Registered, IdsDistinct, Finish
<1>6. pending' \subseteq Req /\ res' \in [Req -> Outcome]
  BY <1>1 DEF TypeOK, Finish, Outcome
<1> QED BY <1>1, <1>2, <1>4, <1>5, <1>6

LEMMA TransmitKeeps ==
  ASSUME TypeOK, NEW r \in Req, Transmit(r)
  PROVE  /\ pc' \in [Req -> {"new", "slot", "lock", "drain", "reply", "done"}]
         /\ pc'[r] \in {"drain", "reply"} /\ \A q \in Req \ {r} : pc'[q] = pc[q]
         /\ writing' \in Req \cup {None}
         /\ sentOn' \in [Req -> 0 .. MaxConn] /\ unanswered' \subseteq Req
<1>1. /\ pc' \in [Req -> {"new", "slot", "lock", "drain", "reply", "done"}]
      /\ pc'[r] \in {"drain", "reply"} /\ \A q \in Req \ {r} : pc'[q] = pc[q]
      /\ writing' \in Req \cup {None}
  BY DEF TypeOK, Transmit
<1>2. conn \in 0 .. MaxConn /\ sentOn \in [Req -> 0 .. MaxConn] /\ unanswered \subseteq Req
  BY DEF TypeOK
<1>3. \/ sentOn' = [sentOn EXCEPT ![r] = conn] /\ unanswered' = unanswered \cup {r}
      \/ sentOn' = sentOn /\ unanswered' = unanswered
  BY DEF Transmit
<1>4. sentOn' \in [Req -> 0 .. MaxConn] /\ unanswered' \subseteq Req
  BY <1>2, <1>3
<1> QED BY <1>1, <1>4

\* A task that is in no queue for the write lock goes on, or ends.
LEMMA OthersQueued ==
  ASSUME TypeOK, Queued, NEW r \in Req, pc[r] # "lock",
         \A q \in Req \ {r} : pc'[q] = pc[q], lockQ' = lockQ
  PROVE  Queued'
<1>1. \A i \in 1 .. Len(lockQ) : lockQ[i] \in Req
  BY ElementOfSeq DEF TypeOK
<1> QED BY <1>1 DEF Queued

LEMMA CallStep ==
  ASSUME TransportInductive, NEW r \in Req, Call(r)
  PROVE  TransportInductive'
<1> USE DEF TransportInductive
<1>1. pc' = [pc EXCEPT ![r] = "slot"] /\ pc[r] = "new" /\ slotQ' = Append(slotQ, r)
  BY DEF Call
<1>2. slotQ' \in Seq(Req)
  BY <1>1 DEF TypeOK
<1>3. TypeOK'
  BY <1>1, <1>2 DEF TypeOK, Call, lifeVars, eventVars
<1>4. InFlight' = InFlight
  BY <1>1 DEF InFlight, TypeOK
<1>5. SlotsAccounted' /\ Registered'
  BY <1>4 DEF SlotsAccounted, Registered, IdsDistinct, Call
<1>6. Queued'
  BY <1>1, OthersQueued DEF Call, TypeOK
<1> QED BY <1>3, <1>5, <1>6, EventsKept DEF Call

LEMMA WaiterStep ==
  ASSUME TransportInductive, NEW r \in Req, CancelWaiter(r)
  PROVE  TransportInductive'
<1> USE DEF TransportInductive
<1>1. pc' = [pc EXCEPT ![r] = "done"] /\ pc[r] = "slot" /\ slotQ' \in Seq(Req)
  BY WithoutIsPart DEF CancelWaiter, TypeOK
<1>2. TypeOK'
  BY <1>1 DEF TypeOK, CancelWaiter, lifeVars, eventVars
<1>3. InFlight' = InFlight
  BY <1>1 DEF InFlight, TypeOK
<1>4. SlotsAccounted' /\ Registered'
  BY <1>3 DEF SlotsAccounted, Registered, IdsDistinct, CancelWaiter
<1>5. Queued'
  BY <1>1, OthersQueued DEF CancelWaiter, TypeOK
<1> QED BY <1>2, <1>4, <1>5, EventsKept DEF CancelWaiter

\* The ways out of execute() but for that of a task in the queue for the write lock.
LEMMA LeaveStep ==
  ASSUME TransportInductive, NEW r \in InFlight, NEW how \in Outcome, pc[r] # "lock",
         Finish(r, how), writing' \in {writing, None},
         UNCHANGED <<lifeVars, slotQ, lockQ, nextId, rid, fut, got, admittedOn, sentOn,
                     unanswered, eventVars>>
  PROVE  TransportInductive'
<1> USE DEF TransportInductive
<1>1. /\ SlotsAccounted' /\ Registered'
      /\ slots' \in 0 .. MaxPending /\ pending' \subseteq Req
      /\ pc' \in [Req -> {"new", "slot", "lock", "drain", "reply", "done"}]
      /\ res' \in [Req -> Outcome]
      /\ \A q \in Req \ {r} : pc'[q] = pc[q]
  BY FinishKeeps
<1>2. TypeOK'
  BY <1>1 DEF TypeOK, Outcome, lifeVars, eventVars
<1>3. Queued'
  BY <1>1, OthersQueued DEF InFlight
<1> QED BY <1>1, <1>2, <1>3, EventsKept

LEMMA CancelStep ==
  ASSUME TransportInductive, NEW r \in Req, Cancel(r)
  PROVE  TransportInductive'
<1> USE DEF TransportInductive
<1>1. /\ SlotsAccounted' /\ Registered'
      /\ slots' \in 0 .. MaxPending /\ pending' \subseteq Req
      /\ pc' \in [Req -> {"new", "slot", "lock", "drain", "reply", "done"}]
      /\ res' \in [Req -> Outcome]
      /\ \A q \in Req \ {r} : pc'[q] = pc[q]
  BY FinishKeeps DEF Cancel, Outcome
<1>2. /\ lockQ' \in Seq(Req)
      /\ \A i \in 1 .. Len(lockQ') :
           lockQ'[i] # r /\ \E j \in 1 .. Len(lockQ) : lockQ'[i] = lockQ[j]
      /\ \A i, j \in 1 .. Len(lockQ') : lockQ'[i] = lockQ'[j] => i = j
  <2>1. lockQ' = Without(lockQ, r) /\ lockQ \in Seq(Req)
    BY DEF Cancel, TypeOK
  <2>2. \A i, j \in 1 .. Len(lockQ) : lockQ[i] = lockQ[j] => i = j
    BY DEF Queued
  <2>3. LET rest == Without(lockQ, r)
        IN  /\ \A i \in 1 .. Len(rest) :
                 rest[i] # r /\ \E j \in 1 .. Len(lockQ) : rest[i] = lockQ[j]
            /\ \A i, j \in 1 .. Len(rest) : rest[i] = rest[j] => i = j
    BY <2>1, <2>2, WithoutDistinct
  <2> QED BY <2>1, <2>3, WithoutIsPart
<1>3. TypeOK'
  BY <1>1, <1>2 DEF TypeOK, Outcome, Cancel, lifeVars, eventVars
<1>4. \A i \in 1 .. Len(lockQ') : pc'[lockQ'[i]] = "lock"
  <2>1. \A i \in 1 .. Len(lockQ) : lockQ[i] \in Req /\ pc[lockQ[i]] = "lock"
    BY ElementOfSeq DEF TypeOK, Queued
  <2> QED BY <1>1, <1>2, <2>1
<1>5. Queued'
  BY <1>2, <1>4 DEF Queued
<1> QED BY <1>1, <1>3, <1>5, EventsKept DEF Cancel

LEMMA AcquireStep ==
  ASSUME TransportInductive, NEW r \in Req, Acquire(r)
  PROVE  TransportInductive'
<1> USE DEF TransportInductive
<1>1. /\ lockQ # <<>> /\ r = lockQ[1] /\ lockQ' \in Seq(Req)
      /\ Len(lockQ) \in Nat /\ Len(lockQ) >= 1 /\ Len(lockQ') = Len(lockQ) - 1
      /\ \A i \in 1 .. Len(lockQ') : lockQ'[i] = lockQ[i + 1]
  BY HeadAndTail DEF Acquire, TypeOK
<1>2. pc[r] = "lock" /\ r \in InFlight
  BY <1>1 DEF Queued, InFlight
<1>3. \A i \in 1 .. Len(lockQ') :
        lockQ'[i] \in Req /\ lockQ'[i] # r /\ pc[lockQ'[i]] = "lock"
  <2>1. \A i \in 1 .. Len(lockQ) : lockQ[i] \in Req
    BY ElementOfSeq DEF TypeOK
  <2>2. \A i \in 1 .. Len(lockQ') : i + 1 \in 1 .. Len(lockQ) /\ i + 1 # 1
    BY <1>1
  <2> QED BY <1>1, <2>1, <2>2 DEF Queued
<1>4. \A i, j \in 1 .. Len(lockQ') : lockQ'[i] = lockQ'[j] => i = j
  <2>1. \A i \in 1 .. Len(lockQ') : i + 1 \in 1 .. Len(lockQ)
    BY <1>1
  <2>2. \A i, j \in 1 .. Len(lockQ') : lockQ'[i] = lockQ'[j] => i + 1 = j + 1
    BY <1>1, <2>1 DEF Queued
  <2> QED BY <2>2
<1>5. /\ SlotsAccounted' /\ Registered'
      /\ slots' \in 0 .. MaxPending /\ pending' \subseteq Req
      /\ pc' \in [Req -> {"new", "slot", "lock", "drain", "reply", "done"}]
      /\ res' \in [Req -> Outcome] /\ writing' \in Req \cup {None}
      /\ sentOn' \in [Req -> 0 .. MaxConn] /\ unanswered' \subseteq Req
      /\ \A q \in Req \ {r} : pc'[q] = pc[q]
  <2>1. CASE conn # 0 /\ Transmit(r) /\ UNCHANGED <<slots, pending, res>>
    <3>1. /\ pc' \in [Req -> {"new", "slot", "lock", "drain", "reply", "done"}]
          /\ pc'[r] \in {"drain", "reply"} /\ \A q \in Req \ {r} : pc'[q] = pc[q]
          /\ writing' \in Req \cup {None}
          /\ sentOn' \in [Req -> 0 .. MaxConn] /\ unanswered' \subseteq Req
      BY <2>1, TransmitKeeps
    <3>2. InFlight' = InFlight
      BY <3>1, <1>2 DEF InFlight
    <3>3. SlotsAccounted' /\ Registered'
      BY <2>1, <3>2 DEF SlotsAccounted, Registered, IdsDistinct, Acquire
    <3> QED BY <2>1, <3>1, <3>3 DEF TypeOK, Outcome
  <2>2. CASE Finish(r, "broken") /\ UNCHANGED <<writing, sentOn, unanswered>>
    BY <2>2, <1>2, FinishKeeps DEF TypeOK, Outcome, Acquire
  <2> QED BY <2>1, <2>2 DEF Acquire
<1>6. TypeOK'
  BY <1>1, <1>5 DEF TypeOK, Outcome, Acquire, lifeVars, eventVars
<1>7. Queued'
  BY <1>3, <1>4, <1>5 DEF Queued
<1> QED BY <1>5, <1>6, <1>7, EventsKept DEF Acquire

\* A request that is refused, or registered under a new id and written or queued.
LEMMA AdmitStep ==
  ASSUME TransportInductive, NEW r \in Req, Admit(r)
  PROVE  TransportInductive'
<1> USE DEF TransportInductive
<1>1. pc[r] = "slot" /\ r \notin InFlight /\ r \notin pending /\ slots > 0
  BY DEF Admit, InFlight, Registered
<1>2. slotQ' \in Seq(Req) /\ lockQ \in Seq(Req) /\ Len(lockQ) \in Nat
  <2>1. slotQ # <<>> => slotQ' \in Seq(Req)
    BY HeadAndTail DEF Admit, TypeOK
  <2>2. slotQ = <<>> => slotQ' \in Seq(Req)
    BY DEF Admit, TypeOK
  <2> QED BY <2>1, <2>2, LenProperties DEF TypeOK
<1>3. CASE /\ state # "connected" \/ conn = 0
           /\ pc' = [pc EXCEPT ![r] = "done"]
           /\ res' = [res EXCEPT ![r] = "error"]
           /\ UNCHANGED <<slots, writing, lockQ, nextId, pending, rid, fut, admittedOn,
                          sentOn, unanswered>>
  <2>1. TypeOK'
    BY <1>2, <1>3 DEF TypeOK, Admit, lifeVars, eventVars
  <2>2. InFlight' = InFlight
    BY <1>1, <1>3 DEF InFlight, TypeOK
  <2>3. SlotsAccounted' /\ Registered'
    BY <1>3, <2>2 DEF SlotsAccounted, Registered, IdsDistinct
  <2>4. Queued'
    BY <1>1, <1>3, OthersQueued DEF TypeOK
  <2> QED BY <2>1, <2>3, <2>4, EventsKept DEF Admit
<1>4. CASE /\ slots' = slots - 1 /\ nextId' = NewId
           /\ rid' = [rid EXCEPT ![r] = NewId]
           /\ pending' = pending \cup {r}
           /\ fut' = [fut EXCEPT ![r] = "open"]
           /\ admittedOn' = [admittedOn EXCEPT ![r] = conn]
           /\ IF writing = None /\ lockQ = <<>>
              THEN Transmit(r) /\ UNCHANGED lockQ
              ELSE /\ lockQ' = Append(lockQ, r)
                   /\ pc' = [pc EXCEPT ![r] = "lock"]
                   /\ UNCHANGED <<writing, sentOn, unanswered>>
           /\ UNCHANGED res
  <2>1. NewId \in 0 .. IdSpace - 1 /\ \A q \in pending : rid[q] # NewId
    BY <1>1, IdAvailable
  <2>2. /\ pc' \in [Req -> {"new", "slot", "lock", "drain", "reply", "done"}]
        /\ pc'[r] \in {"lock", "drain", "reply"} /\ \A q \in Req \ {r} : pc'[q] = pc[q]
        /\ writing' \in Req \cup {None} /\ lockQ' \in Seq(Req)
        /\ sentOn' \in [Req -> 0 .. MaxConn] /\ unanswered' \subseteq Req
    <3>1. CASE Transmit(r) /\ UNCHANGED lockQ
      BY <1>2, <3>1, TransmitKeeps
    <3>2. CASE /\ lockQ' = Append(lockQ, r)
               /\ pc' = [pc EXCEPT ![r] = "lock"]
               /\ UNCHANGED <<writing, sentOn, unanswered>>
      <4>1. lockQ' \in Seq(Req)
        BY <1>2, <3>2
      <4>2. /\ pc' \in [Req -> {"new", "slot", "lock", "drain", "reply", "done"}]
            /\ pc'[r] = "lock" /\ \A q \in Req \ {r} : pc'[q] = pc[q]
        BY <3>2 DEF TypeOK
      <4> QED BY <3>2, <4>1, <4>2 DEF TypeOK
    <3> QED BY <1>4, <3>1, <3>2
  <2>3. InFlight' = InFlight \cup {r}
    BY <1>1, <2>2 DEF InFlight
  <2>4. SlotsAccounted' /\ slots' \in 0 .. MaxPending
    BY <1>1, <1>4, <2>3, SlotTaken
  <2>5. Registered'
    BY <1>1, <1>4, <2>1, <2>3 DEF Registered, IdsDistinct, TypeOK
  <2>6. TypeOK'
    <3>1. /\ rid' \in [Req -> 0 .. IdSpace - 1] /\ nextId' \in 0 .. IdSpace - 1
          /\ pending' \subseteq Req
          /\ fut' \in [Req -> {"none", "open", "answered", "lost"}]
          /\ admittedOn' \in [Req -> 0 .. MaxConn]
      BY <1>4, <2>1 DEF TypeOK
    <3> QED BY <1>2, <1>4, <2>2, <2>4, <3>1 DEF TypeOK, Admit, lifeVars, eventVars
  <2>7. Queued'
    <3>1. CASE lockQ' = lockQ
      BY <1>1, <2>2, <3>1, OthersQueued
    <3>2. CASE lockQ' = Append(lockQ, r) /\ pc' = [pc EXCEPT ![r] = "lock"]
      <4>1. \A i \in 1 .. Len(lockQ) :
              lockQ[i] \in Req /\ lockQ[i] # r /\ pc[lockQ[i]] = "lock"
        BY <1>1, ElementOfSeq DEF TypeOK, Queued
      <4>2. /\ Len(lockQ') = Len(lockQ) + 1 /\ lockQ'[Len(lockQ) + 1] = r
            /\ \A i \in 1 .. Len(lockQ) : lockQ'[i] = lockQ[i]
        BY <1>2, <3>2
      <4>3. \A i \in 1 .. Len(lockQ') : i \in 1 .. Len(lockQ) \/ i = Len(lockQ) + 1
        BY <1>2, <4>2
      <4>4. \A i \in 1 .. Len(lockQ') : pc'[lockQ'[i]] = "lock"
        <5>1. pc'[r] = "lock" /\ \A q \in Req \ {r} : pc'[q] = pc[q]
          BY <3>2 DEF TypeOK
        <5> QED BY <4>1, <4>2, <4>3, <5>1
      <4>5. \A i, j \in 1 .. Len(lockQ') : lockQ'[i] = lockQ'[j] => i = j
        BY <4>1, <4>2, <4>3 DEF Queued
      <4> QED BY <4>4, <4>5 DEF Queued
    <3> QED BY <1>4, <3>1, <3>2
  <2> QED BY <2>4, <2>5, <2>6, <2>7, EventsKept DEF Admit
<1> QED BY <1>3, <1>4 DEF Admit

\* The steps of the read loop and of the lifecycle leave the calls where they are.
LEMMA LoopStep ==
  ASSUME TransportInductive, ReadFails \/ \E q \in Req : ReadReply(q)
  PROVE  TransportInductive'
<1> USE DEF TransportInductive
<1>1. UNCHANGED <<pc, rid, slots, lockQ, pending, eventVars>>
  BY DEF ReadReply, ReadFails, queueVars
<1>2. fut' \in [Req -> {"none", "open", "answered", "lost"}]
  <2>1. fut \in [Req -> {"none", "open", "answered", "lost"}]
    BY DEF TypeOK
  <2>2. Fail => fut' \in [Req -> {"none", "open", "answered", "lost"}]
    BY <2>1 DEF Fail, Lose
  <2>3. ASSUME NEW q \in Req, ReadReply(q), ~Fail
        PROVE  fut' \in [Req -> {"none", "open", "answered", "lost"}]
    <3>1. \E r \in Req : fut' = [fut EXCEPT ![r] = IF @ = "open" THEN "answered" ELSE @]
      BY <2>3 DEF ReadReply, TypeOK
    <3> QED BY <2>1, <3>1
  <2> QED BY <2>2, <2>3 DEF ReadFails
<1>3. got' \in [Req -> Req \cup {None}] /\ unanswered' \subseteq Req
  <2>1. CASE ReadFails
    BY <2>1 DEF ReadFails, Fail, TypeOK
  <2>2. ASSUME NEW q \in Req, ReadReply(q)
        PROVE  got' \in [Req -> Req \cup {None}] /\ unanswered' \subseteq Req
    <3>1. got' = got \/ \E r \in Req : got' = [got EXCEPT ![r] = IF fut[r] = "open" THEN q ELSE @]
      BY <2>2 DEF ReadReply, Fail, lifeVars, TypeOK
    <3>2. unanswered' = unanswered \ {q}
      BY <2>2 DEF ReadReply
    <3>3. got \in [Req -> Req \cup {None}] /\ unanswered \subseteq Req
      BY DEF TypeOK
    <3> QED BY <3>1, <3>2, <3>3
  <2> QED BY <2>1, <2>2
<1>4. /\ state' \in {"disconnected", "connected", "failed", "closed"}
      /\ UNCHANGED <<life, conn, opened>>
      /\ open' \in BOOLEAN /\ reader' \in {"none", "running", "cancelled"}
  BY DEF ReadReply, ReadFails, Fail, lifeVars, TypeOK
<1>5. UNCHANGED <<queueVars, nextId, pending, pc, rid, res, admittedOn, sentOn, eventVars>>
  BY DEF ReadReply, ReadFails
<1>6. TypeOK'
  BY <1>2, <1>3, <1>4, <1>5 DEF TypeOK, queueVars, eventVars
<1> QED BY <1>1, <1>6, AccountKept, EventsKept

LEMMA LifecycleStep ==
  ASSUME TransportInductive, Lifecycle
  PROVE  TransportInductive'
<1> USE DEF TransportInductive
<1>1. CASE StartConnect \/ Connected \/ ConnectFails \/ Closed
  <2>1. UNCHANGED <<queueVars, nextId, pending, pc, rid, fut, got, res, admittedOn, sentOn,
                    eventVars>>
    BY <1>1 DEF StartConnect, Connected, ConnectFails, Closed, callVars
  <2>2. unanswered' \subseteq Req
    BY <1>1 DEF StartConnect, Connected, ConnectFails, Closed, callVars, TypeOK
  <2>3. /\ state' \in {"disconnected", "connected", "failed", "closed"}
        /\ life' \in {"free", "opening", "cancelling", "flushing"}
        /\ conn' \in 0 .. MaxConn /\ opened' \in 0 .. MaxConn /\ open' \in BOOLEAN
        /\ reader' \in {"none", "running", "cancelled"}
    <3>1. CASE StartConnect
      BY <3>1 DEF StartConnect, TypeOK
    <3>2. CASE Connected
      BY <3>2, ConstantTypes DEF Connected, TypeOK
    <3>3. CASE ConnectFails
      BY <3>3 DEF ConnectFails, TypeOK
    <3>4. CASE Closed
      BY <3>4 DEF Closed, EndsAs, TypeOK
    <3> QED BY <1>1, <3>1, <3>2, <3>3, <3>4
  <2>4. TypeOK'
    BY <2>1, <2>2, <2>3 DEF TypeOK, queueVars, eventVars
  <2> QED BY <2>1, <2>4, AccountKept, EventsKept DEF queueVars
<1>2. CASE StartClose \/ ReaderEnds
  <2>1. UNCHANGED <<opened, queueVars, nextId, pc, rid, got, res, admittedOn, sentOn, eventVars>>
    BY <1>2 DEF StartClose, ReaderEnds
  <2>2. pending' \subseteq pending /\ unanswered' \subseteq Req
    BY <1>2 DEF StartClose, ReaderEnds, Detach, TypeOK
  <2>3. fut' \in [Req -> {"none", "open", "answered", "lost"}]
    BY <1>2 DEF StartClose, ReaderEnds, Detach, Lose, TypeOK
  <2>4. /\ state' \in {"disconnected", "connected", "failed", "closed"}
        /\ life' \in {"free", "opening", "cancelling", "flushing"}
        /\ conn' \in 0 .. MaxConn /\ open' \in BOOLEAN
        /\ reader' \in {"none", "running", "cancelled"}
    <3>1. CASE Detach
      <4>1. 0 \in 0 .. MaxConn
        BY ConstantTypes
      <4> QED BY <3>1, <4>1 DEF Detach, EndsAs, TypeOK
    <3>2. CASE reader' = "cancelled" /\ life' = "cancelling" /\ UNCHANGED <<state, conn, open>>
      BY <3>2 DEF TypeOK
    <3> QED BY <1>2, <3>1, <3>2 DEF StartClose, ReaderEnds
  <2>5. TypeOK'
    BY <2>1, <2>2, <2>3, <2>4 DEF TypeOK, queueVars, eventVars
  <2> QED BY <2>1, <2>2, <2>5, AccountKept, EventsKept DEF queueVars
<1> QED BY <1>1, <1>2 DEF Lifecycle

LEMMA ReadEventStep ==
  ASSUME TransportInductive, ReadEvent
  PROVE  TransportInductive'
<1> USE DEF TransportInductive
<1>1. UNCHANGED <<lifeVars, queueVars, callVars, consumed>> /\ emitted' = emitted + 1
  BY DEF ReadEvent
<1>2. emitted' = emitted + 1 /\ consumed' = consumed
  BY <1>1
<1>3. /\ MaxEvents \in Nat /\ MaxEvents > 0 /\ MaxEmitted \in Nat /\ emitted < MaxEmitted
      /\ emitted \in Nat /\ dropped \in Nat /\ consumed \in Nat
      /\ events \in Seq(1 .. MaxEmitted)
      /\ Len(events) \in Nat /\ Len(events) <= MaxEvents
      /\ consumed + dropped + Len(events) = emitted
  BY ConstantTypes, LenProperties DEF ReadEvent, TypeOK, EventsAccounted
<1>4. \A i \in 1 .. Len(events) : events[i] = emitted - Len(events) + i
  BY DEF EventsAccounted
<1>5. emitted' \in 1 .. MaxEmitted
  BY <1>2, <1>3
<1>6. /\ events' \in Seq(1 .. MaxEmitted)
      /\ Len(events') \in Nat /\ Len(events') <= MaxEvents
      /\ dropped' \in Nat /\ consumed' + dropped' + Len(events') = emitted'
      /\ \A i \in 1 .. Len(events') : events'[i] = emitted' - Len(events') + i
  <2>1. CASE Len(events) = MaxEvents /\ events' = Append(Tail(events), emitted')
             /\ dropped' = dropped + 1
    <3> DEFINE rest == Tail(events)
    <3>1. events # <<>>
      BY <2>1, <1>3, EmptySeq
    <3>2. /\ rest \in Seq(1 .. MaxEmitted) /\ Len(rest) = Len(events) - 1
          /\ \A i \in 1 .. Len(rest) : rest[i] = events[i + 1]
      BY <3>1, <1>3, HeadAndTail
    <3>3. events' = Append(rest, emitted')
      BY <2>1
    <3> HIDE DEF rest
    <3>4. /\ events' \in Seq(1 .. MaxEmitted) /\ Len(events') = Len(events)
          /\ events'[Len(events)] = emitted'
          /\ \A i \in 1 .. Len(rest) : events'[i] = rest[i]
      BY <3>2, <3>3, <1>3, <1>5
    <3>5. Len(events') = Len(events)
      BY <3>4
    <3>6. ASSUME NEW i \in 1 .. Len(events') PROVE events'[i] = emitted' - Len(events') + i
      <4>1. CASE i \in 1 .. Len(rest)
        <5>1. events'[i] = events[i + 1] /\ i + 1 \in 1 .. Len(events)
          BY <4>1, <3>2, <3>4, <1>3
        <5>2. events[i + 1] = emitted - Len(events) + (i + 1)
          BY <5>1, <1>4
        <5> QED BY <5>1, <5>2, <3>5, <1>2, <1>3
      <4>2. CASE i = Len(events)
        <5>1. events'[i] = emitted'
          BY <4>2, <3>4
        <5> QED BY <5>1, <4>2, <3>5, <1>2, <1>3
      <4> QED BY <4>1, <4>2, <3>2, <3>5, <1>3
    <3>7. /\ Len(events') \in Nat /\ Len(events') <= MaxEvents
          /\ dropped' \in Nat /\ consumed' + dropped' + Len(events') = emitted'
      <4>1. Len(events) = MaxEvents /\ dropped' = dropped + 1
        BY <2>1
      <4> QED BY <4>1, <3>5, <1>2, <1>3
    <3> QED BY <3>4, <3>6, <3>7
  <2>2. CASE Len(events) # MaxEvents /\ events' = Append(events, emitted') /\ UNCHANGED dropped
    <3>1. /\ events' \in Seq(1 .. MaxEmitted) /\ Len(events') = Len(events) + 1
          /\ events'[Len(events) + 1] = emitted'
          /\ \A i \in 1 .. Len(events) : events'[i] = events[i]
      BY <2>2, <1>3, <1>5
    <3>2. Len(events') = Len(events) + 1
      BY <3>1
    <3>3. ASSUME NEW i \in 1 .. Len(events') PROVE events'[i] = emitted' - Len(events') + i
      <4>1. CASE i \in 1 .. Len(events)
        <5>1. events'[i] = emitted - Len(events) + i
          BY <4>1, <3>1, <1>4
        <5> QED BY <5>1, <4>1, <3>2, <1>2, <1>3
      <4>2. CASE i = Len(events) + 1
        <5>1. events'[i] = emitted'
          BY <4>2, <3>1
        <5> QED BY <5>1, <4>2, <3>2, <1>2, <1>3
      <4> QED BY <4>1, <4>2, <3>2, <1>3
    <3>4. /\ Len(events') \in Nat /\ Len(events') <= MaxEvents
          /\ dropped' \in Nat /\ consumed' + dropped' + Len(events') = emitted'
      BY <2>2, <3>2, <1>2, <1>3
    <3> QED BY <3>1, <3>3, <3>4
  <2> QED BY <2>1, <2>2 DEF ReadEvent
<1>7. {emitted', dropped', consumed'} \subseteq 0 .. MaxEmitted
  <2>1. emitted' \in 0 .. MaxEmitted /\ dropped' \in 0 .. MaxEmitted /\ consumed' \in 0 .. MaxEmitted
    BY <1>2, <1>3, <1>5, <1>6
  <2> QED BY <2>1
<1>8. TypeOK'
  BY <1>1, <1>6, <1>7 DEF TypeOK, lifeVars, queueVars, callVars
<1>9. EventsAccounted'
  BY <1>6 DEF EventsAccounted
<1> QED BY <1>1, <1>8, <1>9, AccountKept DEF queueVars, callVars

LEMMA TakeEventStep ==
  ASSUME TransportInductive, TakeEvent
  PROVE  TransportInductive'
<1> USE DEF TransportInductive
<1>1. UNCHANGED <<lifeVars, queueVars, callVars, emitted, dropped>>
  BY DEF TakeEvent
<1>2. emitted' = emitted /\ dropped' = dropped /\ consumed' = consumed + 1
  BY DEF TakeEvent
<1>3. /\ MaxEvents \in Nat /\ MaxEmitted \in Nat /\ emitted \in 0 .. MaxEmitted
      /\ dropped \in Nat /\ consumed \in Nat /\ Len(events) <= MaxEvents
      /\ consumed + dropped + Len(events) = emitted
  BY ConstantTypes DEF TypeOK, EventsAccounted
<1>4. /\ Len(events) \in Nat /\ Len(events) >= 1
      /\ events' \in Seq(1 .. MaxEmitted) /\ Len(events') = Len(events) - 1
      /\ \A i \in 1 .. Len(events') : events'[i] = events[i + 1]
  BY HeadAndTail DEF TakeEvent, TypeOK
<1>5. Len(events) \in Nat /\ Len(events) >= 1 /\ Len(events') = Len(events) - 1
  BY <1>4
<1>6. ASSUME NEW i \in 1 .. Len(events') PROVE events'[i] = emitted' - Len(events') + i
  <2>1. i + 1 \in 1 .. Len(events) /\ events'[i] = events[i + 1]
    BY <1>4
  <2>2. events[i + 1] = emitted - Len(events) + (i + 1)
    BY <2>1 DEF EventsAccounted
  <2> QED BY <2>1, <2>2, <1>2, <1>3, <1>5
<1>7. EventsAccounted'
  <2>1. consumed' + dropped' + Len(events') = emitted'
    BY <1>2, <1>3, <1>5
  <2> QED BY <2>1, <1>6 DEF EventsAccounted
<1>8. TypeOK'
  <2>1. consumed' \in 0 .. MaxEmitted /\ Len(events') <= MaxEvents
    BY <1>2, <1>3, <1>5
  <2> QED BY <1>1, <1>4, <2>1 DEF TypeOK, lifeVars, queueVars, callVars
<1> QED BY <1>1, <1>7, <1>8, AccountKept DEF queueVars, callVars

\* Whatever the calls, VICE, the read loop and the lifecycle do, slots, registrations and
\* events stay accounted for.
THEOREM TransportInvariance == Spec => []TransportInductive
<1>1. Init => TransportInductive
  <2> SUFFICES ASSUME Init PROVE TransportInductive
    OBVIOUS
  <2>1. InFlight = {}
    BY DEF Init, InFlight
  <2>2. TypeOK
    <3>1. 0 \in 0 .. MaxConn /\ 0 \in 0 .. MaxEmitted /\ MaxPending \in 0 .. MaxPending
          /\ 0 \in 0 .. IdSpace - 1
      BY ConstantTypes
    <3>2. <<>> \in Seq(Req) /\ <<>> \in Seq(1 .. MaxEmitted) /\ Len(<<>>) = 0
      OBVIOUS
    <3>3. /\ state \in {"disconnected", "connected", "failed", "closed"}
          /\ life \in {"free", "opening", "cancelling", "flushing"}
          /\ conn \in 0 .. MaxConn /\ opened \in 0 .. MaxConn /\ open \in BOOLEAN
          /\ reader \in {"none", "running", "cancelled"}
          /\ slots \in 0 .. MaxPending /\ writing \in Req \cup {None}
          /\ slotQ \in Seq(Req) /\ lockQ \in Seq(Req) /\ nextId \in 0 .. IdSpace - 1
          /\ pending \subseteq Req /\ unanswered \subseteq Req
      BY <3>1, <3>2 DEF Init
    <3>4. /\ pc \in [Req -> {"new", "slot", "lock", "drain", "reply", "done"}]
          /\ rid \in [Req -> 0 .. IdSpace - 1]
          /\ fut \in [Req -> {"none", "open", "answered", "lost"}]
          /\ got \in [Req -> Req \cup {None}]
          /\ res \in [Req -> {"none", "reply", "error", "timeout", "cancelled", "broken"}]
          /\ admittedOn \in [Req -> 0 .. MaxConn] /\ sentOn \in [Req -> 0 .. MaxConn]
      BY <3>1 DEF Init
    <3>5. /\ events \in Seq(1 .. MaxEmitted) /\ Len(events) <= MaxEvents
          /\ {emitted, dropped, consumed} \subseteq 0 .. MaxEmitted
      BY <3>1, <3>2, ConstantTypes DEF Init
    <3> QED BY <3>3, <3>4, <3>5 DEF TypeOK
  <2>3. Queued /\ Registered /\ EventsAccounted
    BY DEF Init, Queued, Registered, IdsDistinct, EventsAccounted
  <2>4. SlotsAccounted
    BY <2>1, FS_EmptySet, ConstantTypes DEF Init, SlotsAccounted
  <2> QED BY <2>2, <2>3, <2>4 DEF TransportInductive
<1>2. TransportInductive /\ [Next]_vars => TransportInductive'
  <2> SUFFICES ASSUME TransportInductive, [Next]_vars PROVE TransportInductive'
    OBVIOUS
  <2>1. CASE UNCHANGED vars
    <3>1. TypeOK'
      BY <2>1 DEF TransportInductive, TypeOK, vars, lifeVars, queueVars, callVars, eventVars
    <3> QED BY <2>1, <3>1, AccountKept, EventsKept
            DEF TransportInductive, vars, queueVars, callVars
  <2>2. ASSUME NEW r \in Req, Drained(r) PROVE TransportInductive'
    <3>1. r \in InFlight /\ pc[r] # "lock"
      BY <2>2 DEF Drained, InFlight
    <3>2. CASE Finish(r, "error")
      BY <2>2, <3>1, <3>2, LeaveStep DEF Drained, Outcome
    <3>3. CASE pc' = [pc EXCEPT ![r] = "reply"] /\ UNCHANGED <<slots, pending, res>>
      <4>1. InFlight' = InFlight
        BY <3>1, <3>3 DEF InFlight, TransportInductive, TypeOK
      <4>2. SlotsAccounted' /\ Registered'
        BY <2>2, <3>3, <4>1
           DEF TransportInductive, SlotsAccounted, Registered, IdsDistinct, Drained
      <4>3. Queued'
        BY <2>2, <3>1, <3>3, OthersQueued DEF TransportInductive, TypeOK, Drained
      <4>4. TypeOK'
        BY <2>2, <3>3 DEF TransportInductive, TypeOK, Drained, lifeVars, eventVars
      <4> QED BY <2>2, <4>2, <4>3, <4>4, EventsKept DEF TransportInductive, Drained
    <3> QED BY <2>2, <3>2, <3>3 DEF Drained
  <2>3. ASSUME NEW r \in Req, GetReply(r) PROVE TransportInductive'
    <3>1. r \in InFlight /\ pc[r] # "lock"
      BY <2>3 DEF GetReply, InFlight
    <3>2. \E how \in Outcome : Finish(r, how)
      BY <2>3 DEF GetReply, Outcome
    <3> QED BY <2>3, <3>1, <3>2, LeaveStep DEF GetReply
  <2>4. ASSUME NEW r \in Req, Timeout(r) PROVE TransportInductive'
    <3>1. r \in InFlight /\ pc[r] # "lock" /\ "timeout" \in Outcome
      BY <2>4 DEF Timeout, InFlight, Outcome
    <3> QED BY <2>4, <3>1, LeaveStep DEF Timeout
  <2>5. ASSUME Next PROVE TransportInductive'
    <3>1. ASSUME NEW r \in Req, Resume(r) PROVE TransportInductive'
      BY <3>1, <2>2, <2>3, <2>4, AcquireStep, AdmitStep DEF Resume
    <3>2. ASSUME NEW r \in Req, Call(r) \/ CancelWaiter(r) \/ Cancel(r) PROVE TransportInductive'
      BY <3>2, CallStep, WaiterStep, CancelStep
    <3>3. CASE ReadFails
      BY <3>3, LoopStep
    <3>4. ASSUME NEW q \in Req, ReadReply(q) PROVE TransportInductive'
      BY <3>4, LoopStep
    <3> QED BY <2>5, <3>1, <3>2, <3>3, <3>4, ReadEventStep, TakeEventStep, LifecycleStep DEF Next
  <2> QED BY <2>1, <2>5
<1> QED BY <1>1, <1>2, PTL DEF Spec

\* Every variable of the transport keeps its type, for any constants.
THEOREM TransportTyping == Spec => []TypeOK
BY TransportInvariance, PTL DEF TransportInductive

\* Whichever way a call leaves, its slot is given back once.
THEOREM SlotsNeverLost == Spec => []SlotsAccounted
BY TransportInvariance, PTL DEF TransportInductive

\* No two requests in _pending share an id, however often the ids have wrapped around: a
\* request that holds a slot finds an id free, as there are no more slots than ids.
THEOREM IdsNeverShared == Spec => []IdsDistinct
BY TransportInvariance, PTL DEF TransportInductive, Registered

\* The event queue holds the newest events in order, and every other one is accounted for.
THEOREM EventsInOrder == Spec => []EventsAccounted
BY TransportInvariance, PTL DEF TransportInductive

-----------------------------------------------------------------------------
(* What holds while ids that are in use differ *)

\* An id is in use from the admission of its request until that has ended and VICE has
\* answered it or lost its connection.  _request_id compares with _pending only, which a
\* request leaves when its caller gives up or close() clears it: once ids have wrapped around
\* it may give out one that is still in use.
IdsApart == \A q, r \in InFlight \cup unanswered : rid[q] = rid[r] => q = r

\* The read loop lives as long as the connection is open, whoever closes or replaces it.
Reading ==
  /\ open <=> reader # "none"
  /\ open => conn # 0
  /\ reader = "running" => state = "connected"
  /\ reader = "cancelled" <=> life = "cancelling"
  /\ life = "opening" => state # "connected"
  /\ life = "flushing" => reader = "none"
  /\ state = "connected" /\ conn # 0 => open
  /\ conn <= opened

\* The future of a request is completed by its own reply or by a teardown;
Tracked(r) ==
  /\ pc[r] \in {"new", "slot"} => fut[r] = "none"
  /\ r \in InFlight => fut[r] # "none"
  /\ pc[r] # "done" => res[r] = "none"
  /\ fut[r] = "answered" => got[r] = r
  /\ res[r] = "reply" => fut[r] = "answered"
  /\ r \in InFlight /\ fut[r] = "open" => r \in pending /\ open

\* and what VICE has not answered on this connection is open, unless it was given up.
Awaited(r) ==
  /\ admittedOn[r] <= opened
  /\ pc[r] \in {"new", "slot", "lock"} => sentOn[r] = 0
  /\ pc[r] = "lock" /\ open /\ admittedOn[r] = conn => fut[r] = "open"
  /\ r \in unanswered => fut[r] # "none" /\ sentOn[r] = conn /\ sentOn[r] # 0
  /\ r \in unanswered /\ open /\ admittedOn[r] = conn =>
       (r \in pending /\ fut[r] = "open") \/ res[r] \in {"timeout", "cancelled"}

Followed(r) == Tracked(r) /\ Awaited(r)

ServedInductive == Reading /\ \A r \in Req : Followed(r)

LEMMA ReadingKept ==
  ASSUME Reading, UNCHANGED lifeVars
  PROVE  Reading'
BY DEF Reading, lifeVars

\* A step of another actor that leaves the connection alone.
LEMMA FollowedKept ==
  ASSUME NEW s \in Req, Followed(s), UNCHANGED <<open, conn, opened>>,
         UNCHANGED <<pc[s], fut[s], got[s], res[s], admittedOn[s], sentOn[s]>>,
         s \in pending' <=> s \in pending, s \in unanswered' <=> s \in unanswered
  PROVE  Followed(s)'
<1>1. s \in InFlight' <=> s \in InFlight
  BY DEF InFlight
<1> QED BY <1>1 DEF Followed, Tracked, Awaited

\* A request under whose id nothing else is registered takes itself off only.
LEMMA OwnIdOnly ==
  ASSUME TransportInductive, IdsApart, NEW r \in InFlight \cup unanswered
  PROVE  /\ {q \in pending : rid[q] # rid[r]} = pending \ {r}
         /\ {q \in pending : rid[q] = rid[r]} = pending \cap {r}
<1>1. \A q \in pending : q \in InFlight
  BY DEF TransportInductive, Registered
<1> QED BY <1>1 DEF IdsApart

\* A step of a request that leaves the connection and the futures alone.
LEMMA ServedByOne ==
  ASSUME ServedInductive, NEW r \in Req, Followed(r)',
         UNCHANGED <<lifeVars, fut, got>>,
         \A s \in Req \ {r} :
           /\ UNCHANGED <<pc[s], res[s], admittedOn[s], sentOn[s]>>
           /\ s \in pending' <=> s \in pending
           /\ s \in unanswered' <=> s \in unanswered
  PROVE  ServedInductive'
<1>2. Reading'
  BY ReadingKept DEF ServedInductive
<1>3. ASSUME NEW s \in Req \ {r} PROVE Followed(s)'
  <2>1. Followed(s)
    BY DEF ServedInductive
  <2>2. UNCHANGED <<open, conn, opened>> /\ UNCHANGED <<fut[s], got[s]>>
    BY DEF lifeVars
  <2>3. UNCHANGED <<pc[s], fut[s], got[s], res[s], admittedOn[s], sentOn[s]>>
    BY <2>2
  <2> QED BY <2>1, <2>2, <2>3, FollowedKept
<1> QED BY <1>2, <1>3 DEF ServedInductive

\* A request that leaves with a slot: by its reply, by an error once its connection has
\* gone or its future is lost, or given up.
LEMMA ServedLeave ==
  ASSUME TransportInductive, ServedInductive, IdsApart, NEW r \in InFlight, NEW how \in Outcome,
         Finish(r, how),
         how = "reply" => fut[r] = "answered",
         r \in unanswered /\ open /\ admittedOn[r] = conn
           => fut[r] # "open" \/ how \in {"timeout", "cancelled"},
         UNCHANGED <<lifeVars, nextId, rid, fut, got, admittedOn, sentOn, unanswered>>
  PROVE  ServedInductive'
<1>1. /\ r \in Req /\ pc' = [pc EXCEPT ![r] = "done"] /\ res' = [res EXCEPT ![r] = how]
      /\ pc \in [Req -> {"new", "slot", "lock", "drain", "reply", "done"}]
      /\ res \in [Req -> Outcome] /\ pc[r] # "done"
  BY DEF Finish, TransportInductive, TypeOK, InFlight, Outcome
<1>2. Followed(r)
  BY <1>1 DEF ServedInductive
<1>4. pending' = pending \ {r}
  BY OwnIdOnly DEF Finish
<1>5. pc'[r] = "done" /\ res'[r] = how /\ r \notin InFlight'
  BY <1>1 DEF InFlight
<1>6. UNCHANGED <<open, conn, opened, fut[r], got[r], admittedOn[r], sentOn[r]>>
      /\ (r \in unanswered' <=> r \in unanswered)
  BY DEF lifeVars
<1>7. Tracked(r)'
  BY <1>2, <1>5, <1>6 DEF Followed, Tracked
<1>8. Awaited(r)'
  BY <1>1, <1>2, <1>5, <1>6 DEF Followed, Tracked, Awaited
<1>9. \A s \in Req \ {r} :
        /\ UNCHANGED <<pc[s], res[s], admittedOn[s], sentOn[s]>>
        /\ s \in pending' <=> s \in pending
        /\ s \in unanswered' <=> s \in unanswered
  BY <1>1, <1>4
<1> QED BY <1>1, <1>7, <1>8, <1>9, ServedByOne DEF Followed

\* A request that is written, or would be if its connection were not closing.
LEMMA TransmitFollowed ==
  ASSUME TransportInductive, TransportInductive', ServedInductive,
         NEW r \in Req, pc[r] = "lock", conn # 0, Transmit(r),
         UNCHANGED <<lifeVars, nextId, rid, fut, got, res, admittedOn, pending>>
  PROVE  ServedInductive'
<1>1. Followed(r)
  BY DEF ServedInductive
<1>2. pc'[r] \in {"drain", "reply"} /\ \A s \in Req \ {r} : pc'[s] = pc[s]
  BY TransmitKeeps DEF TransportInductive
<1>3. r \in InFlight /\ r \in InFlight'
  BY <1>2 DEF InFlight
<1>4. UNCHANGED <<open, conn, opened, fut[r], got[r], res[r], admittedOn[r]>>
      /\ (r \in pending' <=> r \in pending)
  BY DEF lifeVars
<1>5. CASE open
  <2>1. sentOn' = [sentOn EXCEPT ![r] = conn] /\ unanswered' = unanswered \cup {r}
    BY <1>5 DEF Transmit
  <2>2. sentOn'[r] = conn /\ \A s \in Req \ {r} : sentOn'[s] = sentOn[s]
    BY <2>1 DEF TransportInductive, TypeOK
  <2>3. Tracked(r)'
    BY <1>1, <1>2, <1>3, <1>4 DEF Followed, Tracked
  <2>4. Awaited(r)'
    BY <1>1, <1>2, <1>3, <1>4, <1>5, <2>1, <2>2 DEF Followed, Tracked, Awaited
  <2>5. \A s \in Req \ {r} :
          /\ UNCHANGED <<pc[s], res[s], admittedOn[s], sentOn[s]>>
          /\ s \in pending' <=> s \in pending
          /\ s \in unanswered' <=> s \in unanswered
    BY <1>2, <2>1, <2>2
  <2> QED BY <2>3, <2>4, <2>5, ServedByOne DEF Followed
<1>6. CASE ~open
  <2>1. UNCHANGED <<sentOn, unanswered>>
    BY <1>6 DEF Transmit
  <2>2. Tracked(r)'
    BY <1>1, <1>2, <1>3, <1>4 DEF Followed, Tracked
  <2>3. Awaited(r)'
    BY <1>1, <1>2, <1>4, <1>6, <2>1 DEF Followed, Awaited
  <2>4. \A s \in Req \ {r} :
          /\ UNCHANGED <<pc[s], res[s], admittedOn[s], sentOn[s]>>
          /\ s \in pending' <=> s \in pending
          /\ s \in unanswered' <=> s \in unanswered
    BY <1>2, <2>1
  <2> QED BY <2>2, <2>3, <2>4, ServedByOne DEF Followed
<1> QED BY <1>5, <1>6

LEMMA AcquireServed ==
  ASSUME TransportInductive, TransportInductive', ServedInductive, IdsApart, NEW r \in Req, Acquire(r)
  PROVE  ServedInductive'
<1>1. pc[r] = "lock" /\ r \in InFlight
  <2>1. Len(lockQ) \in Nat /\ Len(lockQ) >= 1 /\ r = lockQ[1]
    BY HeadAndTail DEF Acquire, TransportInductive, TypeOK
  <2> QED BY <2>1 DEF TransportInductive, Queued, InFlight
<1>2. CASE conn # 0 /\ Transmit(r) /\ UNCHANGED <<slots, pending, res>>
  BY <1>1, <1>2, TransmitFollowed DEF Acquire
<1>3. CASE Finish(r, "broken") /\ UNCHANGED <<writing, sentOn, unanswered>>
  <2>1. r \notin unanswered
    BY <1>1 DEF ServedInductive, Followed, Awaited
  <2> QED BY <1>1, <1>3, <2>1, ServedLeave DEF Acquire, Outcome
<1> QED BY <1>2, <1>3 DEF Acquire

LEMMA CallServed ==
  ASSUME TransportInductive, ServedInductive, NEW r \in Req, Call(r) \/ CancelWaiter(r)
  PROVE  ServedInductive'
<1>1. /\ pc[r] \in {"new", "slot"}
      /\ (pc'[r] = "slot" /\ res'[r] = res[r]) \/ (pc'[r] = "done" /\ res'[r] = "cancelled")
      /\ \A s \in Req \ {r} : UNCHANGED <<pc[s], res[s]>>
  <2>1. CASE Call(r)
    <3>1. pc' = [pc EXCEPT ![r] = "slot"] /\ pc[r] = "new" /\ res' = res
      BY <2>1 DEF Call
    <3>2. pc'[r] = "slot" /\ \A s \in Req \ {r} : pc'[s] = pc[s]
      BY <3>1 DEF TransportInductive, TypeOK
    <3>3. \A s \in Req : res'[s] = res[s]
      BY <3>1
    <3>4. \A s \in Req \ {r} : UNCHANGED <<pc[s], res[s]>>
      BY <3>2, <3>3
    <3> QED BY <3>1, <3>2, <3>3, <3>4
  <2>2. CASE CancelWaiter(r)
    BY <2>2 DEF CancelWaiter, TransportInductive, TypeOK
  <2> QED BY <2>1, <2>2
<1>2. UNCHANGED <<lifeVars, nextId, pending, rid, fut, got, admittedOn, sentOn, unanswered>>
  BY DEF Call, CancelWaiter
<1>3. Followed(r)
  BY DEF ServedInductive
<1>4. r \notin InFlight'
  BY <1>1 DEF InFlight
<1>5. UNCHANGED <<open, conn, opened, fut[r], got[r], admittedOn[r], sentOn[r], pending, unanswered>>
  BY <1>2 DEF lifeVars
<1>6. Followed(r)'
  BY <1>1, <1>3, <1>4, <1>5 DEF Followed, Tracked, Awaited
<1>7. \A s \in Req \ {r} :
        /\ UNCHANGED <<pc[s], res[s], admittedOn[s], sentOn[s]>>
        /\ s \in pending' <=> s \in pending
        /\ s \in unanswered' <=> s \in unanswered
  BY <1>1, <1>2
<1> QED BY <1>2, <1>6, <1>7, ServedByOne

LEMMA AdmitServed ==
  ASSUME TransportInductive, TransportInductive', ServedInductive, NEW r \in Req, Admit(r)
  PROVE  ServedInductive'
<1>1. Followed(r) /\ pc[r] = "slot"
  BY DEF ServedInductive, Admit
<1>2. fut[r] = "none" /\ sentOn[r] = 0 /\ res[r] = "none" /\ r \notin unanswered
  BY <1>1 DEF Followed, Tracked, Awaited
<1>3. CASE /\ pc' = [pc EXCEPT ![r] = "done"]
           /\ res' = [res EXCEPT ![r] = "error"]
           /\ UNCHANGED <<slots, writing, lockQ, nextId, pending, rid, fut, admittedOn,
                          sentOn, unanswered>>
  <2>1. /\ pc'[r] = "done" /\ res'[r] = "error" /\ r \notin InFlight'
        /\ \A s \in Req \ {r} : UNCHANGED <<pc[s], res[s]>>
    BY <1>3 DEF TransportInductive, TypeOK, InFlight
  <2>2. UNCHANGED <<lifeVars, got>>
    BY DEF Admit
  <2>3. UNCHANGED <<open, conn, opened, fut[r], got[r], admittedOn[r], sentOn[r], unanswered>>
    BY <1>3, <2>2 DEF lifeVars
  <2>4. Followed(r)'
    BY <1>1, <1>2, <2>1, <2>3 DEF Followed, Tracked, Awaited
  <2>5. \A s \in Req \ {r} :
          /\ UNCHANGED <<pc[s], res[s], admittedOn[s], sentOn[s]>>
          /\ s \in pending' <=> s \in pending
          /\ s \in unanswered' <=> s \in unanswered
    BY <1>3, <2>1
  <2> QED BY <1>3, <2>2, <2>4, <2>5, ServedByOne
<1>4. CASE /\ state = "connected" /\ conn # 0
           /\ slots' = slots - 1 /\ nextId' = NewId
           /\ rid' = [rid EXCEPT ![r] = NewId]
           /\ pending' = pending \cup {r}
           /\ fut' = [fut EXCEPT ![r] = "open"]
           /\ admittedOn' = [admittedOn EXCEPT ![r] = conn]
           /\ IF writing = None /\ lockQ = <<>>
              THEN Transmit(r) /\ UNCHANGED lockQ
              ELSE /\ lockQ' = Append(lockQ, r)
                   /\ pc' = [pc EXCEPT ![r] = "lock"]
                   /\ UNCHANGED <<writing, sentOn, unanswered>>
           /\ UNCHANGED res
  <2>2. UNCHANGED <<lifeVars, got>>
    BY DEF Admit
  <2>3. UNCHANGED <<open, conn, opened>> /\ UNCHANGED <<got[r], res[r]>>
    BY <1>4, <2>2 DEF lifeVars
  <2>4. Reading' /\ open /\ conn <= opened
    BY <1>4, <2>2, ReadingKept DEF ServedInductive, Reading
  <2>5. /\ fut'[r] = "open" /\ admittedOn'[r] = conn /\ r \in pending'
        /\ \A s \in Req \ {r} : /\ UNCHANGED <<fut[s], admittedOn[s]>>
                                /\ s \in pending' <=> s \in pending
    <3>1. /\ fut \in [Req -> {"none", "open", "answered", "lost"}]
          /\ admittedOn \in [Req -> 0 .. MaxConn]
      BY DEF TransportInductive, TypeOK
    <3>2. fut'[r] = "open" /\ \A s \in Req \ {r} : fut'[s] = fut[s]
      BY <1>4, <3>1
    <3>3. admittedOn'[r] = conn /\ \A s \in Req \ {r} : admittedOn'[s] = admittedOn[s]
      BY <1>4, <3>1
    <3> QED BY <1>4, <3>2, <3>3
  <2>6. /\ pc'[r] \in {"lock", "drain", "reply"}
        /\ pc'[r] = "lock" => sentOn'[r] = 0
        /\ r \in unanswered' => sentOn'[r] = conn
        /\ \A s \in Req \ {r} : /\ UNCHANGED <<pc[s], sentOn[s]>>
                                /\ s \in unanswered' <=> s \in unanswered
    <3>1. CASE Transmit(r)
      <4>1. pc'[r] \in {"drain", "reply"} /\ \A s \in Req \ {r} : pc'[s] = pc[s]
        BY <3>1, TransmitKeeps DEF TransportInductive
      <4>2. sentOn' = [sentOn EXCEPT ![r] = conn] /\ unanswered' = unanswered \cup {r}
        BY <3>1, <2>4 DEF Transmit
      <4>3. sentOn'[r] = conn /\ \A s \in Req \ {r} : sentOn'[s] = sentOn[s]
        BY <4>2 DEF TransportInductive, TypeOK
      <4> QED BY <4>1, <4>2, <4>3
    <3>2. CASE pc' = [pc EXCEPT ![r] = "lock"] /\ UNCHANGED <<sentOn, unanswered>>
      BY <3>2, <1>2 DEF TransportInductive, TypeOK
    <3> QED BY <1>4, <3>1, <3>2
  <2>7. Followed(r)'
    <3>1. Tracked(r)'
      BY <1>2, <2>3, <2>4, <2>5, <2>6 DEF Tracked
    <3>2. Awaited(r)'
      BY <1>4, <2>3, <2>4, <2>5, <2>6 DEF Awaited
    <3> QED BY <3>1, <3>2 DEF Followed
  <2>8. ASSUME NEW s \in Req \ {r} PROVE Followed(s)'
    <3>1. Followed(s)
      BY DEF ServedInductive
    <3>2. UNCHANGED <<pc[s], fut[s], got[s], res[s], admittedOn[s], sentOn[s]>>
      BY <1>4, <2>2, <2>5, <2>6
    <3> QED BY <3>1, <3>2, <2>3, <2>5, <2>6, FollowedKept
  <2> QED BY <2>4, <2>7, <2>8 DEF ServedInductive
<1> QED BY <1>3, <1>4 DEF Admit

LEMMA DrainedServed ==
  ASSUME TransportInductive, ServedInductive, IdsApart, NEW r \in Req, Drained(r)
  PROVE  ServedInductive'
<1>1. r \in InFlight /\ pc[r] = "drain"
  BY DEF Drained, InFlight
<1>2. Followed(r)
  BY DEF ServedInductive
<1>3. CASE ~(open /\ sentOn[r] = conn) /\ Finish(r, "error")
  <2>1. r \in unanswered => ~open
    BY <1>2, <1>3 DEF Followed, Awaited
  <2> QED BY <1>1, <1>3, <2>1, ServedLeave DEF Drained, Outcome
<1>4. CASE pc' = [pc EXCEPT ![r] = "reply"] /\ UNCHANGED <<slots, pending, res>>
  <2>1. pc'[r] = "reply" /\ \A s \in Req \ {r} : pc'[s] = pc[s]
    BY <1>4 DEF TransportInductive, TypeOK
  <2>2. UNCHANGED <<lifeVars, nextId, rid, fut, got, admittedOn, sentOn, unanswered>>
    BY DEF Drained
  <2>3. r \in InFlight'
    BY <2>1 DEF InFlight
  <2>4. UNCHANGED <<open, conn, opened, fut[r], got[r], res[r], admittedOn[r], sentOn[r],
                    pending, unanswered>>
    BY <1>4, <2>2 DEF lifeVars
  <2>5. Followed(r)'
    BY <1>1, <1>2, <2>1, <2>3, <2>4 DEF Followed, Tracked, Awaited
  <2> QED BY <1>4, <2>1, <2>2, <2>5, ServedByOne
<1> QED BY <1>3, <1>4 DEF Drained

LEMMA EndsServed ==
  ASSUME TransportInductive, ServedInductive, IdsApart, NEW r \in Req,
         GetReply(r) \/ Timeout(r) \/ Cancel(r)
  PROVE  ServedInductive'
<1>1. r \in InFlight
  BY DEF GetReply, Timeout, Cancel, InFlight
<1>2. UNCHANGED <<lifeVars, nextId, rid, fut, got, admittedOn, sentOn, unanswered>>
  BY DEF GetReply, Timeout, Cancel
<1>3. CASE GetReply(r)
  <2>1. PICK how \in {"reply", "error"} :
          Finish(r, how) /\ (how = "reply" => fut[r] = "answered") /\ fut[r] # "open"
    BY <1>3 DEF GetReply
  <2> QED BY <1>1, <1>2, <2>1, ServedLeave DEF Outcome
<1>4. CASE Timeout(r) \/ Cancel(r)
  <2>1. PICK how \in {"timeout", "cancelled"} : Finish(r, how)
    BY <1>4 DEF Timeout, Cancel
  <2> QED BY <1>1, <1>2, <2>1, ServedLeave DEF Outcome
<1> QED BY <1>3, <1>4

\* What the end of a connection does to a request: its future is lost, not forgotten.
LEMMA TornDown ==
  ASSUME TransportInductive, ServedInductive, Lose(pending), open' = FALSE, opened' = opened,
         unanswered' \subseteq unanswered, conn' = conn \/ unanswered' = {},
         pending' = pending \/ pending' = {},
         UNCHANGED <<nextId, rid, pc, got, res, admittedOn, sentOn>>
  PROVE  \A r \in Req : Followed(r)'
<1>1. /\ fut \in [Req -> {"none", "open", "answered", "lost"}]
      /\ \A r \in Req : fut'[r] = IF r \in pending /\ fut[r] = "open" THEN "lost" ELSE fut[r]
  BY DEF Lose, TransportInductive, TypeOK
<1>3. ASSUME NEW r \in Req PROVE Followed(r)'
  <2>1. Followed(r)
    BY DEF ServedInductive
  <2>2. r \in InFlight' <=> r \in InFlight
    BY DEF InFlight
  <2>3. Tracked(r)'
    BY <1>1, <2>1, <2>2 DEF Followed, Tracked
  <2>4. Awaited(r)'
    BY <1>1, <2>1 DEF Followed, Awaited
  <2> QED BY <2>3, <2>4 DEF Followed
<1> QED BY <1>3

LEMMA FailServed ==
  ASSUME TransportInductive, ServedInductive, Fail, reader = "running",
         unanswered' \subseteq unanswered,
         UNCHANGED <<nextId, rid, pc, res, admittedOn, sentOn, pending>>
  PROVE  ServedInductive'
<1>1. \A r \in Req : Followed(r)'
  BY TornDown DEF Fail
<1>2. Reading'
  BY DEF Fail, ServedInductive, Reading
<1> QED BY <1>1, <1>2 DEF ServedInductive

LEMMA ReplyServed ==
  ASSUME TransportInductive, ServedInductive, IdsApart, NEW q \in Req, ReadReply(q)
  PROVE  ServedInductive'
<1>1. /\ reader = "running" /\ q \in unanswered /\ unanswered' = unanswered \ {q}
      /\ UNCHANGED <<nextId, pending, pc, rid, res, admittedOn, sentOn>>
  BY DEF ReadReply
<1>2. Followed(q)
  BY DEF ServedInductive
<1>3. {r \in pending : rid[r] = rid[q]} = pending \cap {q}
  BY <1>1, OwnIdOnly
<1>4. CASE Fail
  BY <1>1, <1>4, FailServed
<1>5. CASE /\ q \in pending /\ UNCHANGED lifeVars
           /\ fut' = [fut EXCEPT ![q] = IF @ = "open" THEN "answered" ELSE @]
           /\ got' = [got EXCEPT ![q] = IF fut[q] = "open" THEN q ELSE @]
  <2>1. /\ fut \in [Req -> {"none", "open", "answered", "lost"}]
        /\ got \in [Req -> Req \cup {None}]
    BY DEF TransportInductive, TypeOK
  <2>2. /\ fut'[q] = IF fut[q] = "open" THEN "answered" ELSE fut[q]
        /\ got'[q] = IF fut[q] = "open" THEN q ELSE got[q]
        /\ \A s \in Req \ {q} : fut'[s] = fut[s] /\ got'[s] = got[s]
    BY <1>5, <2>1
  <2>3. UNCHANGED <<open, conn, opened>>
    BY <1>5 DEF lifeVars
  <2>5. Reading'
    BY <1>5, ReadingKept DEF ServedInductive
  <2>6. Followed(q)'
    <3>1. q \in InFlight' <=> q \in InFlight
      BY <1>1 DEF InFlight
    <3>2. Tracked(q)'
      BY <1>1, <1>2, <2>2, <2>3, <3>1 DEF Followed, Tracked
    <3>3. Awaited(q)'
      BY <1>1, <1>2, <2>2, <2>3 DEF Followed, Awaited
    <3> QED BY <3>2, <3>3 DEF Followed
  <2>7. ASSUME NEW s \in Req \ {q} PROVE Followed(s)'
    <3>1. Followed(s)
      BY DEF ServedInductive
    <3>2. UNCHANGED <<pc[s], fut[s], got[s], res[s], admittedOn[s], sentOn[s]>>
      BY <1>1, <2>2
    <3>3. (s \in pending' <=> s \in pending) /\ (s \in unanswered' <=> s \in unanswered)
      BY <1>1
    <3> QED BY <3>1, <3>2, <3>3, <2>3, FollowedKept
  <2> QED BY <2>5, <2>6, <2>7 DEF ServedInductive
<1> QED BY <1>3, <1>4, <1>5 DEF ReadReply

LEMMA LifecycleServed ==
  ASSUME TransportInductive, ServedInductive, Lifecycle
  PROVE  ServedInductive'
<1>1. UNCHANGED <<nextId, pc, rid, got, res, admittedOn, sentOn>>
  BY DEF Lifecycle, StartConnect, Connected, ConnectFails, StartClose, ReaderEnds, Closed,
         callVars
<1>2. CASE Detach /\ ((life = "free" /\ reader # "running") \/ life = "cancelling") /\ UNCHANGED opened
  <2>1. \A r \in Req : Followed(r)'
    BY <1>1, <1>2, TornDown DEF Detach
  <2>2. Reading'
    BY <1>2, ConstantTypes
       DEF Detach, EndsAs, ServedInductive, Reading, TransportInductive, TypeOK
  <2> QED BY <2>1, <2>2 DEF ServedInductive
<1>3. CASE Connected
  <2>1. UNCHANGED <<pending, fut>> /\ conn' = opened + 1 /\ opened' = opened + 1 /\ unanswered' = {}
        /\ opened \in Nat /\ life = "opening"
    BY <1>3, ConstantTypes DEF Connected, TransportInductive, TypeOK
  <2>2. ~open /\ reader = "none"
    BY <2>1 DEF ServedInductive, Reading, TransportInductive, TypeOK
  <2>4. Reading'
    BY <1>3, <2>1 DEF Connected, Reading
  <2>5. ASSUME NEW r \in Req PROVE Followed(r)'
    <3>1. Followed(r) /\ admittedOn[r] \in Nat
      BY ConstantTypes DEF ServedInductive, TransportInductive, TypeOK
    <3>2. r \in InFlight' <=> r \in InFlight
      BY <1>1 DEF InFlight
    <3>3. Tracked(r)'
      BY <1>1, <2>1, <2>2, <3>1, <3>2 DEF Followed, Tracked
    <3>4. admittedOn[r] <= opened' /\ admittedOn[r] # conn'
      BY <2>1, <3>1 DEF Followed, Awaited
    <3>5. Awaited(r)'
      BY <1>1, <2>1, <3>1, <3>4 DEF Followed, Awaited
    <3> QED BY <3>3, <3>5 DEF Followed
  <2> QED BY <2>4, <2>5 DEF ServedInductive
<1>4. CASE \/ StartConnect \/ ConnectFails \/ Closed
           \/ /\ StartClose /\ reader = "running"
              /\ reader' = "cancelled" /\ life' = "cancelling"
              /\ UNCHANGED <<state, conn, open, pending, fut, unanswered>>
  <2>1. UNCHANGED <<pending, fut, unanswered, open, conn, opened>>
    BY <1>4 DEF StartConnect, ConnectFails, Closed, StartClose, callVars
  <2>3. Reading'
    <3>1. CASE StartConnect
      BY <3>1, <2>1 DEF StartConnect, ServedInductive, Reading
    <3>2. CASE ConnectFails
      BY <3>2, <2>1 DEF ConnectFails, ServedInductive, Reading, TransportInductive, TypeOK
    <3>3. CASE Closed
      BY <3>3, <2>1 DEF Closed, EndsAs, ServedInductive, Reading
    <3>4. CASE /\ StartClose /\ reader = "running"
               /\ reader' = "cancelled" /\ life' = "cancelling"
               /\ UNCHANGED <<state, conn, open, pending, fut, unanswered>>
      BY <3>4, <2>1 DEF ServedInductive, Reading
    <3> QED BY <1>4, <3>1, <3>2, <3>3, <3>4
  <2>4. ASSUME NEW r \in Req PROVE Followed(r)'
    <3>1. Followed(r)
      BY DEF ServedInductive
    <3> QED BY <3>1, <1>1, <2>1, FollowedKept
  <2> QED BY <2>3, <2>4 DEF ServedInductive
<1> QED BY <1>2, <1>3, <1>4 DEF Lifecycle, StartClose, ReaderEnds

\* What each request may rely on is kept by a step from ids that differ.
LEMMA ServedStep ==
  TransportInductive /\ TransportInductive' /\ IdsApart /\ ServedInductive /\ [Next]_vars
    => ServedInductive'
<1> SUFFICES ASSUME TransportInductive, TransportInductive', IdsApart, ServedInductive, [Next]_vars
             PROVE  ServedInductive'
  OBVIOUS
<1>1. CASE UNCHANGED vars
  BY <1>1 DEF vars, lifeVars, callVars, ServedInductive, Reading, Followed, Tracked, Awaited,
     InFlight
<1>2. ASSUME NEW r \in Req, Resume(r) PROVE ServedInductive'
  BY <1>2, AdmitServed, AcquireServed, DrainedServed, EndsServed DEF Resume
<1>3. ASSUME NEW r \in Req, Call(r) \/ CancelWaiter(r) \/ Cancel(r) PROVE ServedInductive'
  BY <1>3, CallServed, EndsServed
<1>4. CASE ReadFails
  BY <1>4, FailServed DEF ReadFails
<1>5. CASE ReadEvent \/ TakeEvent
  <2>1. UNCHANGED <<lifeVars, callVars>>
    BY <1>5 DEF ReadEvent, TakeEvent
  <2> QED BY <2>1 DEF lifeVars, callVars, ServedInductive, Reading, Followed, Tracked, Awaited,
          InFlight
<1>6. ASSUME NEW q \in Req, ReadReply(q) PROVE ServedInductive'
  BY <1>6, ReplyServed
<1> QED BY <1>1, <1>2, <1>3, <1>4, <1>5, <1>6, LifecycleServed DEF Next

LEMMA ServedInitially == Init => ServedInductive
<1> SUFFICES ASSUME Init PROVE ServedInductive
  OBVIOUS
<1>1. Reading
  BY DEF Init, Reading
<1>2. \A r \in Req : Followed(r)
  BY DEF Init, Followed, Tracked, Awaited, InFlight
<1> QED BY <1>1, <1>2 DEF ServedInductive

\* What the theorems below need of a state, or of a state and the answer it gets.
LEMMA ServedCorrelates == TransportInductive /\ ServedInductive => Correlated
BY DEF ServedInductive, Followed, Tracked, Correlated

LEMMA ServedServes == TransportInductive /\ ServedInductive => OpenFutureServed
<1> SUFFICES ASSUME TransportInductive, ServedInductive, NEW r \in InFlight, fut[r] = "open"
             PROVE  /\ r \in pending
                    /\ (reader = "running" /\ state = "connected") \/ life = "cancelling"
  BY DEF OpenFutureServed
<1>1. r \in pending /\ open
  BY DEF ServedInductive, Followed, Tracked, InFlight
<1> QED BY <1>1 DEF ServedInductive, Reading, TransportInductive, TypeOK

LEMMA ServedExpects ==
  TransportInductive /\ ServedInductive
    => [\A q \in Req : ReadReply(q) /\ state' = "failed" /\ sentOn[q] = admittedOn[q]
          => res[q] \in {"timeout", "cancelled"}]_vars
<1>1. ASSUME TransportInductive, ServedInductive, NEW q \in Req, ReadReply(q),
             state' = "failed", sentOn[q] = admittedOn[q]
      PROVE  res[q] \in {"timeout", "cancelled"}
  <2>1. q \in unanswered /\ reader = "running" /\ state = "connected"
    BY <1>1 DEF ReadReply, ServedInductive, Reading
  <2>2. {r \in pending : rid[r] = rid[q]} = {}
    BY <1>1, <2>1 DEF ReadReply, lifeVars
  <2>3. q \notin pending
    BY <2>2
  <2>4. open
    BY <1>1, <2>1 DEF ServedInductive, Reading
  <2>5. Followed(q)
    BY <1>1 DEF ServedInductive
  <2> QED BY <1>1, <2>1, <2>3, <2>4, <2>5 DEF Followed, Awaited
<1> QED BY <1>1

\* While ids that are in use differ, what each request may rely on holds at every moment,
\* however many requests there are and however often the ids have wrapped around.
THEOREM ServedInvariance == Spec /\ []IdsApart => [](TransportInductive /\ ServedInductive)
BY ServedInitially, ServedStep, TransportInvariance, PTL DEF Spec

\* Each reply goes to the request it answers, for any number of requests, slots and
\* connections, whichever requests were timed out, cancelled or overtaken by a reconnect,
\* unless _request_id gives out an id that is in use.
THEOREM Correlation == Spec /\ []IdsApart => []Correlated
BY ServedCorrelates, ServedInvariance, PTL

\* Under the same condition no teardown leaves a caller to its timeout.
THEOREM FuturesServed == Spec /\ []IdsApart => []OpenFutureServed
BY ServedServes, ServedInvariance, PTL

\* Under the same condition an answer fails the connection only when the request it answers
\* was given up, as long as that was written to the connection it was admitted on.
THEOREM OnlyAbandoned == Spec /\ []IdsApart => UnexpectedWasAbandoned
BY ServedExpects, ServedInvariance, PTL DEF UnexpectedWasAbandoned

-----------------------------------------------------------------------------
(* Ids differ as long as they have not wrapped around *)

\* The code has 2^32 - 1 of them.
EnoughIds == Cardinality(Req) <= IdSpace

Admitted == {r \in Req : fut[r] # "none"}

\* Ids are given out in their order, each of them once.
Unwrapped ==
  /\ \A q, r \in Admitted : rid[q] = rid[r] => q = r
  /\ Cardinality(Admitted) < IdSpace =>
       /\ nextId = Cardinality(Admitted)
       /\ \A r \in Admitted : rid[r] \in 1 .. Cardinality(Admitted)

LEMMA UnwrappedKept ==
  ASSUME Unwrapped, UNCHANGED <<nextId, rid>>,
         \A r \in Req : fut'[r] = "none" <=> fut[r] = "none"
  PROVE  Unwrapped'
<1>1. Admitted' = Admitted
  BY DEF Admitted
<1> QED BY <1>1 DEF Unwrapped

\* An id in use is that of an admitted request.
LEMMA InUseAdmitted ==
  ASSUME TransportInductive, ServedInductive
  PROVE  InFlight \cup unanswered \subseteq Admitted
BY DEF TransportInductive, TypeOK, ServedInductive, Followed, Tracked, Awaited, InFlight, Admitted

LEMMA UnwrappedApart == TransportInductive /\ ServedInductive /\ Unwrapped => IdsApart
BY InUseAdmitted DEF Unwrapped, IdsApart

\* A new request finds fewer of them admitted than there are ids.
LEMMA AdmitUnwrapped ==
  ASSUME EnoughIds, TransportInductive, Unwrapped, NEW r \in Req, fut[r] = "none",
         pending \subseteq Admitted, nextId' = NewId, rid' = [rid EXCEPT ![r] = NewId], fut' = [fut EXCEPT ![r] = "open"]
  PROVE  Unwrapped'
<1> DEFINE n == Cardinality(Admitted)
<1>1. /\ IdSpace \in Nat /\ IdSpace > 0 /\ nextId \in 0 .. IdSpace - 1
      /\ rid \in [Req -> 0 .. IdSpace - 1]
      /\ fut \in [Req -> {"none", "open", "answered", "lost"}]
  BY ConstantTypes DEF TransportInductive, TypeOK
<1>2. r \notin Admitted /\ Admitted' = Admitted \cup {r} /\ Admitted \subseteq Req
  BY <1>1 DEF Admitted
<1>3. /\ IsFiniteSet(Admitted) /\ n \in Nat
      /\ Cardinality(Admitted') = n + 1 /\ n + 1 <= IdSpace
  <2>1. IsFiniteSet(Admitted) /\ n \in Nat
    BY <1>2, ConstantTypes, FS_Subset, FS_CardinalityType
  <2>2. Cardinality(Admitted \cup {r}) = n + 1
    BY <1>2, <2>1, FS_AddElement
  <2>3. (Admitted \cup {r}) \in SUBSET Req
    BY <1>2
  <2>4. Cardinality(Admitted \cup {r}) <= Cardinality(Req) /\ Cardinality(Req) \in Nat
    BY <2>3, ConstantTypes, FS_Subset, FS_CardinalityType
  <2> QED BY <1>1, <1>2, <2>1, <2>2, <2>4 DEF EnoughIds
<1>4. nextId = n /\ \A s \in Admitted : rid[s] \in 1 .. n
  BY <1>3, <1>1 DEF Unwrapped
<1>5. NewId = IF n + 1 = IdSpace THEN 0 ELSE n + 1
  <2> DEFINE after(k) == (nextId + k) % IdSpace
             free == {k \in 1 .. IdSpace : \A q \in pending : rid[q] # after(k)}
  <2>1. after(1) = IF n + 1 = IdSpace THEN 0 ELSE n + 1
    <3>1. CASE n + 1 = IdSpace
      <4>1. (0 + IdSpace) % IdSpace = 0
        BY <1>1
      <4> QED BY <3>1, <4>1, <1>3, <1>4
    <3>2. CASE n + 1 # IdSpace
      <4>1. n + 1 \in 0 .. IdSpace - 1
        BY <3>2, <1>1, <1>3
      <4>2. (n + 1) % IdSpace = n + 1
        BY <4>1, <1>1
      <4> QED BY <3>2, <4>2, <1>4
    <3> QED BY <3>1, <3>2
  <2>2. \A q \in pending : rid[q] \in 1 .. n
    BY <1>4
  <2>3. 1 \in free
    <3>1. \A q \in pending : rid[q] # after(1)
      BY <2>1, <2>2, <1>3, <1>1
    <3>2. 1 \in 1 .. IdSpace
      BY <1>1
    <3> QED BY <3>1, <3>2
  <2>4. free \subseteq Nat /\ \A k \in free : k >= 1
    OBVIOUS
  <2>5. NewId = after(Min(free))
    BY DEF NewId
  <2> HIDE DEF free
  <2>6. Min(free) \in free /\ \A k \in free : Min(free) <= k
    BY <2>3, <2>4, MinIsLeast
  <2>7. Min(free) = 1
    <3>1. Min(free) \in Nat /\ Min(free) >= 1 /\ Min(free) <= 1
      BY <2>3, <2>4, <2>6
    <3> QED BY <3>1
  <2> QED BY <2>1, <2>5, <2>7
<1>6. rid'[r] = NewId /\ \A s \in Admitted : rid'[s] = rid[s]
  BY <1>1, <1>2
<1>7. \A s \in Admitted : rid[s] # NewId
  BY <1>1, <1>3, <1>4, <1>5
<1>8. \A p, q \in Admitted' : rid'[p] = rid'[q] => p = q
  BY <1>2, <1>6, <1>7 DEF Unwrapped
<1>9. ASSUME Cardinality(Admitted') < IdSpace
      PROVE  /\ nextId' = Cardinality(Admitted')
             /\ \A s \in Admitted' : rid'[s] \in 1 .. Cardinality(Admitted')
  <2>1. n + 1 < IdSpace /\ NewId = n + 1
    BY <1>3, <1>5, <1>9
  <2>2. \A s \in Admitted : rid'[s] \in 1 .. n + 1
    BY <1>3, <1>4, <1>6
  <2>3. rid'[r] \in 1 .. n + 1
    BY <2>1, <1>3, <1>6
  <2> QED BY <2>1, <2>2, <2>3, <1>2, <1>3
<1> QED BY <1>8, <1>9 DEF Unwrapped

LEMMA UnwrappedStep ==
  ASSUME EnoughIds, TransportInductive, ServedInductive, Unwrapped, [Next]_vars
  PROVE  Unwrapped'
<1>0. fut \in [Req -> {"none", "open", "answered", "lost"}]
  BY DEF TransportInductive, TypeOK
<1>1. CASE UNCHANGED <<nextId, rid, fut>>
  BY <1>1, UnwrappedKept
<1>2. CASE UNCHANGED <<nextId, rid>> /\ \E futures : Lose(futures)
  BY <1>0, <1>2, UnwrappedKept DEF Lose
<1>3. ASSUME NEW r \in Req, Admit(r) PROVE Unwrapped'
  <2>1. CASE UNCHANGED <<nextId, rid, fut>>
    BY <2>1, <1>1
  <2>2. CASE nextId' = NewId /\ rid' = [rid EXCEPT ![r] = NewId] /\ fut' = [fut EXCEPT ![r] = "open"]
    <3>1. fut[r] = "none"
      BY <1>3 DEF Admit, ServedInductive, Followed, Tracked
    <3>2. pending \subseteq Admitted
      BY InUseAdmitted DEF TransportInductive, Registered
    <3> QED BY <2>2, <3>1, <3>2, AdmitUnwrapped
  <2> QED BY <1>3, <2>1, <2>2 DEF Admit
<1>4. ASSUME NEW q \in Req, ReadReply(q) PROVE Unwrapped'
  <2>1. UNCHANGED <<nextId, rid>>
    BY <1>4 DEF ReadReply
  <2>2. CASE Fail
    BY <1>2, <2>1, <2>2 DEF Fail
  <2>3. CASE \E r \in pending : fut' = [fut EXCEPT ![r] = IF @ = "open" THEN "answered" ELSE @]
    BY <1>0, <2>1, <2>3, UnwrappedKept
  <2> QED BY <1>4, <2>2, <2>3 DEF ReadReply
<1>5. ASSUME NEW r \in Req, Call(r) \/ (Resume(r) /\ ~ Admit(r)) \/ CancelWaiter(r) \/ Cancel(r)
      PROVE  Unwrapped'
  BY <1>1, <1>5 DEF Call, Resume, Acquire, Drained, GetReply, Timeout, CancelWaiter, Cancel
<1>6. CASE ReadEvent \/ TakeEvent
  BY <1>1, <1>6 DEF ReadEvent, TakeEvent, callVars
<1>7. CASE ReadFails
  BY <1>2, <1>7 DEF ReadFails, Fail
<1>8. CASE Lifecycle
  <2>1. UNCHANGED <<nextId, rid>>
    BY <1>8 DEF Lifecycle, StartConnect, Connected, ConnectFails, StartClose, ReaderEnds, Closed,
       callVars
  <2>2. UNCHANGED fut \/ Lose(pending)
    BY <1>8 DEF Lifecycle, StartConnect, Connected, ConnectFails, StartClose, ReaderEnds, Closed,
       Detach, callVars
  <2> QED BY <1>1, <1>2, <2>1, <2>2
<1>9. CASE UNCHANGED vars
  BY <1>1, <1>9 DEF vars, callVars
<1> QED BY <1>3, <1>4, <1>5, <1>6, <1>7, <1>8, <1>9 DEF Next

\* With as many ids as requests none is given out twice, so that none is in use twice.
THEOREM EnoughIdsApart ==
  ASSUME EnoughIds
  PROVE  Spec => []IdsApart
<1>1. Init => Unwrapped
  <2> SUFFICES ASSUME Init PROVE Unwrapped
    OBVIOUS
  <2>1. Admitted = {} /\ Cardinality(Admitted) = 0
    BY FS_EmptySet DEF Init, Admitted
  <2> QED BY <2>1 DEF Init, Unwrapped
<1>2. TransportInductive /\ ServedInductive /\ Unwrapped /\ [Next]_vars => Unwrapped'
  BY UnwrappedStep
<1> QED BY <1>1, <1>2, ServedInitially, ServedStep, UnwrappedApart, TransportInvariance, PTL
        DEF Spec

\* A transport whose ids have not wrapped around correlates its replies, completes its
\* futures and gives up its connection only for a reply that nobody waits for any more.
COROLLARY EnoughIdsServe ==
  ASSUME EnoughIds
  PROVE  Spec => []Correlated /\ []OpenFutureServed /\ UnexpectedWasAbandoned
BY EnoughIdsApart, Correlation, FuturesServed, OnlyAbandoned, PTL
=============================================================================
