-------------------------- MODULE SyncMonitorProofs --------------------------
(* Proofs about SyncMonitor, for any number of threads, calls, ids and events. *)
EXTENDS SyncMonitor, FiniteSetTheorems, SequenceTheorems, TLAPS

-----------------------------------------------------------------------------
(* The inductive invariant *)

Result == {None, "ok", "refused", "mismatch", "invalid", "timeout", "closed"}

Typed ==
  /\ open \in BOOLEAN /\ alive \in BOOLEAN /\ lock \in Thread \cup {None}
  /\ sent \in Nat /\ served \in Nat /\ emitted \in Nat /\ served <= sent
  /\ stream \in Seq(Int) /\ \A i \in 1 .. Len(stream) : stream[i] \in -1 .. served
  /\ todo \in [Thread -> Nat] /\ result \in [Thread -> Result]
  /\ calls \in [Thread -> Seq(Nat)] /\ answers \in [Thread -> Seq(Nat)]
  /\ lost \subseteq 1 .. sent /\ IsFiniteSet(lost)

Holds(n) == \E i \in 1 .. Len(stream) : stream[i] = n

\* The replies in the stream are in order and leave none out but the first ones; the rest
\* of a frame comes first, and from a call that was lost.
Frames ==
  /\ ~open => stream = <<>>
  /\ \A i \in 1 .. Len(stream) : stream[i] = Rest => i = 1 /\ lost # {}
  /\ \A i, j \in 1 .. Len(stream) : i < j /\ stream[j] >= 1 => stream[i] < stream[j]
  /\ \A i \in 1 .. Len(stream) : 1 <= stream[i] /\ stream[i] < served => Holds(stream[i] + 1)

\* The request of the call in progress is the last one.
InProgress(g) == g = sent /\ lock # None

Missed(n) == \A g \in n .. sent : g \in lost \/ InProgress(g)

\* Who is to come upon a reply, now or when VICE gives it, has missed it and those after it.
Due ==
  /\ \A i \in 1 .. Len(stream) : stream[i] >= 1 => Missed(stream[i])
  /\ open /\ alive => Missed(served + 1)

\* The reply of the call in progress is passed over only with the id of events.
Pending == lock # None /\ open /\ sent % IdSpace # EventId => served < sent \/ Holds(sent)

\* The last request of which the outcome is known.
Prior == IF lock = None THEN sent ELSE sent - 1

EventIn(a, b) == \E e \in a .. b : e % IdSpace = EventId

\* After a lost call the stream stays out of step, until a request has the id of events.
Behind ==
  open => \A m \in lost :
    \/ EventIn(m, Prior) \/ served < Prior
    \/ \E i \in 1 .. Len(stream) : stream[i] # Event /\ stream[i] <= Prior

Stream == Frames /\ Due /\ Pending /\ Behind

\* The thread that holds the lock is the one that waits, for the reply to the last request.
Locked ==
  /\ lock # None => sent \notin lost
  /\ \A t \in Thread : lock = t <=> todo[t] > 0 /\ Len(calls[t]) > Len(answers[t])
  /\ \A t \in Thread : lock = t => Last(calls[t]) = sent

\* An operation has had the reply to each of its calls, but for the last.
Taken(t) ==
  /\ Len(answers[t]) <= Len(calls[t]) /\ Len(calls[t]) <= Len(answers[t]) + 1
  /\ \A k \in 1 .. Len(calls[t]) : 1 <= calls[t][k] /\ calls[t][k] <= sent
  /\ \A k \in 1 .. Len(answers[t]) : answers[t][k] = calls[t][k] /\ answers[t][k] <= served
  /\ result[t] = "ok" => todo[t] = 0 /\ Len(answers[t]) = Len(calls[t])
  /\ todo[t] > 0 => result[t] = None

\* What a lost call has done to it.
Told(t) ==
  /\ result[t] \in {"mismatch", "invalid"} => Len(calls[t]) > 0 /\ \E m \in lost : m < Last(calls[t])
  /\ \A k \in 1 .. Len(answers[t]) : \A m \in lost :
       m < answers[t][k] => EventIn(m, answers[t][k] - 1)

Active == {t \in Thread : todo[t] > 0}

\* The operations in progress may all lose their call before another one begins.
Room == Cardinality(lost) + Cardinality(Active) <= MaxLost + Cardinality(Thread)

Threads == Locked /\ Room /\ \A t \in Thread : Taken(t) /\ Told(t)

SyncInductive == Typed /\ Stream /\ Threads

-----------------------------------------------------------------------------

\* What the assumption on the constants gives.
LEMMA Constants ==
  /\ IdSpace \in Nat /\ IdSpace > 0 /\ MaxCount \in Nat /\ MaxLost \in Nat
  /\ None \notin Thread /\ None \notin {"ok", "mismatch", "invalid"}
  /\ Cardinality(Thread) \in Nat /\ IsFiniteSet(Thread) /\ Cardinality(Thread) + MaxLost <= IdSpace
<1>1. {IdSpace, MaxCount} \subseteq Nat \ {0} /\ {MaxSent, MaxLost, MaxEmitted} \subseteq Nat
  BY SyncMonitorConstants
<1>2. IdSpace \in Nat \ {0} /\ MaxCount \in Nat \ {0} /\ MaxLost \in Nat
  BY <1>1
<1>3. /\ IsFiniteSet(Thread) /\ Cardinality(Thread) + MaxLost <= IdSpace
      /\ None \notin Thread /\ None \notin {"ok", "mismatch", "invalid"}
  BY SyncMonitorConstants
<1>4. Cardinality(Thread) \in Nat
  BY <1>3, FS_CardinalityType
<1> QED BY <1>2, <1>3, <1>4

\* Two requests with one id are at least IdSpace requests apart.
LEMMA Congruent ==
  ASSUME NEW f \in Nat, NEW s \in Nat, f < s, f % IdSpace = s % IdSpace
  PROVE  f + IdSpace <= s
<1>1. /\ IdSpace \in Nat /\ IdSpace > 0
  BY Constants
<1>2. ASSUME NEW x \in Nat PROVE x = IdSpace * (x \div IdSpace) + (x % IdSpace)
                               /\ x \div IdSpace \in Int /\ x % IdSpace \in Int
  BY <1>1
<1>3. s - f = IdSpace * ((s \div IdSpace) - (f \div IdSpace))
  BY <1>1, <1>2
<1> DEFINE d == (s \div IdSpace) - (f \div IdSpace)
<1>4. d \in Int /\ s - f = IdSpace * d
  BY <1>2, <1>3
<1> HIDE DEF d
<1>5. d >= 1
  BY <1>1, <1>4
<1>6. IdSpace * d >= IdSpace
  BY <1>1, <1>4, <1>5
<1> QED BY <1>1, <1>4, <1>6

\* Tails, point by point.
LEMMA Shorter ==
  ASSUME NEW s \in Seq(Int), s # <<>>
  PROVE  /\ Len(s) \in Nat /\ Len(s) >= 1 /\ Head(s) = s[1] /\ Tail(s) \in Seq(Int)
         /\ Len(Tail(s)) = Len(s) - 1
         /\ \A i \in 1 .. Len(s) - 1 : Tail(s)[i] = s[i + 1]
  BY HeadTailProperties, LenProperties, EmptySeq

\* The operations in progress are finitely many, and one more or less counts as one.
LEMMA Counting ==
  /\ IsFiniteSet(Active) /\ Cardinality(Active) \in Nat
  /\ Cardinality(Active) <= Cardinality(Thread)
  /\ \A t : t \in Active => /\ Cardinality(Active \ {t}) = Cardinality(Active) - 1
                            /\ Cardinality(Active) >= 1
<1>1. IsFiniteSet(Active) /\ Cardinality(Active) \in Nat /\ Cardinality(Active) <= Cardinality(Thread)
  BY Constants, FS_Subset, FS_CardinalityType DEF Active
<1>2. ASSUME NEW t, t \in Active
      PROVE  Cardinality(Active \ {t}) = Cardinality(Active) - 1 /\ Cardinality(Active \ {t}) \in Nat
  BY <1>1, <1>2, FS_RemoveElement, FS_CardinalityType
<1> QED BY <1>1, <1>2

\* A frame with the id of the request in progress is the reply to it: too few calls are
\* lost for the numbers of the requests to have gone round.
LEMMA SameId ==
  ASSUME SyncInductive, NEW t \in Thread, Waits(t), stream # <<>>, Head(stream) >= 1
  PROVE  /\ Head(stream) \in Nat /\ Head(stream) <= served
         /\ \A g \in Head(stream) .. sent - 1 : g \in lost
         /\ Head(stream) % IdSpace = sent % IdSpace => Head(stream) = sent
<1> DEFINE f == Head(stream)
<1>1. f = stream[1] /\ 1 \in 1 .. Len(stream) /\ f \in Nat /\ f <= served
  BY Shorter DEF SyncInductive, Typed
<1>2. sent \in Nat /\ served \in Nat /\ served <= sent /\ IsFiniteSet(lost)
  BY DEF SyncInductive, Typed
<1>3. \A g \in f .. sent - 1 : g \in lost
  BY <1>1, <1>2 DEF SyncInductive, Stream, Due, Missed, InProgress
<1> HIDE DEF f
<1>4. ASSUME f % IdSpace = sent % IdSpace, f # sent PROVE FALSE
  <2>0. f < sent /\ IdSpace \in Nat /\ IdSpace > 0
    <3>1. f < sent
      BY <1>1, <1>2, <1>4
    <3> QED BY <3>1, Constants
  <2>1. f + IdSpace <= sent
    BY <1>1, <1>2, <1>4, <2>0, Congruent
  <2> DEFINE gone == f .. (sent - 1)
  <2>2. gone \subseteq lost
    BY <1>3
  <2>3. IsFiniteSet(gone) /\ Cardinality(gone) = sent - f
    <3>1. f \in Int /\ sent - 1 \in Int /\ f <= sent - 1
      BY <1>1, <1>2, <2>0
    <3>2. IsFiniteSet(gone) /\ Cardinality(gone) = (sent - 1) - f + 1
      BY <3>1, FS_Interval
    <3> QED BY <1>1, <1>2, <3>2
  <2> HIDE DEF gone
  <2>4. sent - f <= Cardinality(lost) /\ Cardinality(lost) \in Nat
    BY <1>2, <2>2, <2>3, FS_Subset, FS_CardinalityType
  <2>5. Cardinality(Active) \in Nat /\ Cardinality(Active) >= 1
    BY Counting DEF Waits, Active
  <2>6. Cardinality(lost) + Cardinality(Active) <= MaxLost + Cardinality(Thread)
    BY DEF SyncInductive, Threads, Room
  <2>7. MaxLost \in Nat /\ Cardinality(Thread) \in Nat /\ Cardinality(Thread) + MaxLost <= IdSpace
    BY Constants
  <2> HIDE DEF Active
  <2> QED BY <1>1, <1>2, <2>0, <2>1, <2>4, <2>5, <2>6, <2>7
<1> QED BY <1>1, <1>3, <1>4

-----------------------------------------------------------------------------
(* The threads *)

\* What is said of the threads does not depend on the stream, nor on how far VICE is ahead.
LEMMA ThreadsKeep ==
  ASSUME SyncInductive, UNCHANGED <<lock, sent, threadVars, lost>>, served' \in Nat, served <= served'
  PROVE  Threads'
<1> USE DEF threadVars
<1>1. Locked' /\ Room'
  BY DEF SyncInductive, Threads, Locked, Room, Active
<1>2. ASSUME NEW t \in Thread PROVE Told(t)'
  BY DEF SyncInductive, Threads, Told, EventIn
<1>3. ASSUME NEW t \in Thread PROVE Taken(t)'
  <2>1. Taken(t)
    BY DEF SyncInductive, Threads
  <2>2. /\ served \in Nat /\ answers[t] \in Seq(Nat)
        /\ \A k \in 1 .. Len(answers[t]) : answers[t][k] \in Nat
    BY ElementOfSeq DEF SyncInductive, Typed
  <2> QED BY <2>1, <2>2 DEF Taken
<1> QED BY <1>1, <1>2, <1>3 DEF Threads

\* An exception gives the lock back, and tells of a stream out of step only if a call has
\* been lost before.
LEMMA ThreadsRaise ==
  ASSUME SyncInductive, NEW t \in Thread, todo[t] > 0, lock \in {t, None},
         NEW how \in {"refused", "mismatch", "invalid", "timeout", "closed"}, Raises(t, how),
         sent' = sent, served' = served,
         lost' = lost \/ (lock = t /\ lost' = lost \cup {sent}),
         how \in {"mismatch", "invalid"} => lock = t /\ \E m \in lost : m < sent
  PROVE  Threads'
<1>1. /\ lock' = None /\ None \notin Thread /\ calls' = calls /\ answers' = answers
      /\ todo' = [todo EXCEPT ![t] = 0] /\ result' = [result EXCEPT ![t] = how]
  BY Constants DEF Raises
<1>2. /\ todo \in [Thread -> Nat] /\ result \in [Thread -> Result] /\ sent \in Nat /\ served \in Nat
      /\ served <= sent /\ IsFiniteSet(lost) /\ lost \subseteq 1 .. sent
      /\ Locked /\ Room
  BY DEF SyncInductive, Typed, Threads
<1>3. Locked'
  BY <1>1, <1>2 DEF Locked
<1>4. Room'
  <2>1. t \in Active /\ Active' = Active \ {t}
    BY <1>1, <1>2 DEF Active
  <2>2. Cardinality(Active') = Cardinality(Active) - 1 /\ Cardinality(Active) \in Nat
    BY <2>1, Counting
  <2>3. Cardinality(lost) \in Nat /\ Cardinality(lost') \in Nat /\ Cardinality(lost') <= Cardinality(lost) + 1
    <3>1. Cardinality(lost) \in Nat
      BY <1>2, FS_CardinalityType
    <3>2. CASE lost' = lost
      BY <3>1, <3>2
    <3>3. CASE lost' = lost \cup {sent}
      <4>1. Cardinality(lost') = Cardinality(lost) \/ Cardinality(lost') = Cardinality(lost) + 1
        BY <1>2, <3>3, FS_AddElement
      <4> QED BY <3>1, <4>1
    <3> QED BY <3>2, <3>3
  <2>4. Cardinality(lost) + Cardinality(Active) <= MaxLost + Cardinality(Thread)
    BY <1>2 DEF Room
  <2>5. MaxLost \in Nat /\ Cardinality(Thread) \in Nat
    BY Constants
  <2>6. Cardinality(lost') + Cardinality(Active') <= MaxLost + Cardinality(Thread)
    BY <2>2, <2>3, <2>4, <2>5
  <2> QED BY <2>6 DEF Room
<1>5. ASSUME NEW u \in Thread PROVE Taken(u)'
  <2>1. Taken(u)
    BY DEF SyncInductive, Threads
  <2>2. /\ result'[u] = "ok" => result[u] = "ok" /\ u # t
        /\ u # t => todo'[u] = todo[u] /\ result'[u] = result[u]
        /\ ~(todo'[t] > 0)
    BY <1>1, <1>2
  <2> QED BY <1>1, <2>1, <2>2 DEF Taken
<1>6. ASSUME NEW u \in Thread PROVE Told(u)'
  <2>1. Told(u) /\ Taken(u) /\ Taken(t)
    BY DEF SyncInductive, Threads
  <2>2. lost \subseteq lost'
    OBVIOUS
  <2>3. ASSUME result'[u] \in {"mismatch", "invalid"}
        PROVE  Len(calls[u]) > 0 /\ \E m \in lost : m < Last(calls[u])
    <3>1. CASE u # t
      BY <1>1, <1>2, <2>1, <2>3, <3>1 DEF Told
    <3>2. CASE u = t
      <4>1. lock = t /\ \E m \in lost : m < sent
        BY <1>1, <1>2, <2>3, <3>2
      <4>2. Len(calls[t]) > Len(answers[t]) /\ Last(calls[t]) = sent
        BY <1>2, <4>1 DEF Locked
      <4>3. Len(calls[t]) > 0
        BY <4>2, LenProperties DEF SyncInductive, Typed
      <4> QED BY <3>2, <4>1, <4>2, <4>3
    <3> QED BY <3>1, <3>2
  <2>4. ASSUME NEW k \in 1 .. Len(answers[u]), NEW m \in lost', m < answers[u][k]
        PROVE  m \in lost
    <3>1. answers[u][k] <= served /\ answers[u][k] \in Nat
      BY <2>1, ElementOfSeq DEF Taken, SyncInductive, Typed
    <3> QED BY <1>2, <2>4, <3>1
  <2> QED BY <1>1, <2>1, <2>2, <2>3, <2>4 DEF Told, EventIn
<1> QED BY <1>3, <1>4, <1>5, <1>6 DEF Threads

\* An operation begins with nothing to tell.
LEMMA ThreadsBegin ==
  ASSUME SyncInductive, NEW t \in Thread, Begin(t)
  PROVE  Threads'
<1>1. PICK n \in 1 .. MaxCount : todo' = [todo EXCEPT ![t] = n]
  BY DEF Begin
<1>2. /\ calls' = [calls EXCEPT ![t] = <<>>] /\ answers' = [answers EXCEPT ![t] = <<>>]
      /\ result' = [result EXCEPT ![t] = None] /\ UNCHANGED <<lock, sent, served, lost>>
      /\ todo[t] = 0 /\ Cardinality(lost) < MaxLost
  BY DEF Begin
<1>3. /\ todo \in [Thread -> Nat] /\ result \in [Thread -> Result]
      /\ calls \in [Thread -> Seq(Nat)] /\ answers \in [Thread -> Seq(Nat)] /\ IsFiniteSet(lost)
      /\ Locked
  BY DEF SyncInductive, Typed, Threads
<1>4. /\ Len(calls'[t]) = 0 /\ Len(answers'[t]) = 0 /\ result'[t] = None
      /\ \A u \in Thread \ {t} : /\ calls'[u] = calls[u] /\ answers'[u] = answers[u]
                                 /\ todo'[u] = todo[u] /\ result'[u] = result[u]
  BY <1>1, <1>2, <1>3
<1>5. Locked'
  <2>1. lock # t
    BY <1>2, <1>3 DEF Locked
  <2>2. lock' # None => sent' \notin lost'
    BY <1>2, <1>3 DEF Locked
  <2>3. \A u \in Thread \ {t} : /\ lock' = u <=> todo'[u] > 0 /\ Len(calls'[u]) > Len(answers'[u])
                                /\ lock' = u => Last(calls'[u]) = sent'
    BY <1>2, <1>3, <1>4 DEF Locked
  <2> QED BY <1>2, <1>4, <2>1, <2>2, <2>3 DEF Locked
<1>6. Room'
  <2>1. Active' \subseteq Thread
    BY DEF Active
  <2>2. Cardinality(Active') <= Cardinality(Thread) /\ Cardinality(Active') \in Nat
    BY <2>1, Constants, FS_Subset, FS_CardinalityType
  <2>3. Cardinality(lost) \in Nat /\ MaxLost \in Nat /\ Cardinality(Thread) \in Nat
    BY <1>3, Constants, FS_CardinalityType
  <2> QED BY <1>2, <2>2, <2>3 DEF Room
<1>7. ASSUME NEW u \in Thread PROVE Taken(u)' /\ Told(u)'
  <2>1. CASE u = t
    <3>1. result'[t] \notin {"ok", "mismatch", "invalid"}
      BY <1>4, Constants
    <3> QED BY <1>4, <2>1, <3>1 DEF Taken, Told
  <2>2. CASE u # t
    BY <1>2, <1>4, <2>2 DEF SyncInductive, Threads, Taken, Told, EventIn
  <2> QED BY <2>1, <2>2
<1> QED BY <1>5, <1>6, <1>7 DEF Threads

\* A request is sent by the thread that takes the lock.
LEMMA ThreadsSend ==
  ASSUME SyncInductive, NEW t \in Thread, todo[t] > 0, lock = None, lock' = t, sent' = sent + 1,
         calls' = [calls EXCEPT ![t] = Append(@, sent')],
         UNCHANGED <<todo, answers, result, lost, served>>
  PROVE  Threads'
<1>1. /\ todo \in [Thread -> Nat] /\ result \in [Thread -> Result] /\ sent \in Nat
      /\ calls \in [Thread -> Seq(Nat)] /\ answers \in [Thread -> Seq(Nat)]
      /\ lost \subseteq 1 .. sent /\ served \in Nat
      /\ Locked /\ Room /\ \A u \in Thread : Taken(u) /\ Told(u)
  BY DEF SyncInductive, Typed, Threads
<1>2. calls[t] \in Seq(Nat) /\ Len(calls[t]) \in Nat /\ Len(answers[t]) \in Nat
  BY <1>1, LenProperties
<1>3. /\ calls'[t] = Append(calls[t], sent + 1) /\ \A u \in Thread \ {t} : calls'[u] = calls[u]
  BY <1>1
<1>4. /\ Len(calls'[t]) = Len(calls[t]) + 1 /\ calls'[t][Len(calls[t]) + 1] = sent + 1
      /\ \A k \in 1 .. Len(calls[t]) : calls'[t][k] = calls[t][k]
  BY <1>1, <1>2, <1>3, AppendProperties
<1>5. Len(calls[t]) = Len(answers[t])
  <2>1. ~(Len(calls[t]) > Len(answers[t]))
    BY <1>1, Constants DEF Locked
  <2> QED BY <1>1, <1>2, <2>1 DEF Taken
<1>6. Locked'
  <2>1. sent' \notin lost'
    BY <1>1
  <2>2. Last(calls'[t]) = sent'
    BY <1>4 DEF Last
  <2>3. \A u \in Thread \ {t} : ~(todo'[u] > 0 /\ Len(calls'[u]) > Len(answers'[u]))
    BY <1>1, <1>3, Constants DEF Locked
  <2>4. todo'[t] > 0 /\ Len(calls'[t]) > Len(answers'[t])
    BY <1>2, <1>4, <1>5
  <2> QED BY <2>1, <2>2, <2>3, <2>4 DEF Locked
<1>7. Room'
  BY <1>1 DEF Room, Active
<1>8. ASSUME NEW u \in Thread PROVE Taken(u)' /\ Told(u)'
  <2>1. CASE u = t
    <3>1. result[t] \notin {"ok", "mismatch", "invalid"} /\ (todo[t] > 0 => result[t] = None)
      BY <1>1, Constants DEF Taken
    <3>2. \A k \in 1 .. Len(calls'[t]) : 1 <= calls'[t][k] /\ calls'[t][k] <= sent'
      <4> SUFFICES ASSUME NEW k \in 1 .. Len(calls'[t])
                   PROVE  1 <= calls'[t][k] /\ calls'[t][k] <= sent'
        OBVIOUS
      <4>1. CASE k = Len(calls[t]) + 1
        BY <1>1, <1>4, <4>1
      <4>2. CASE k \in 1 .. Len(calls[t])
        <5>1. calls[t][k] \in Nat /\ 1 <= calls[t][k] /\ calls[t][k] <= sent
          BY <1>1, <1>2, <4>2, ElementOfSeq DEF Taken
        <5> QED BY <1>1, <1>4, <4>2, <5>1
      <4> QED BY <1>2, <1>4, <4>1, <4>2
    <3>3. \A k \in 1 .. Len(answers[t]) : answers[t][k] = calls'[t][k] /\ answers[t][k] <= served
      BY <1>1, <1>4, <1>5 DEF Taken
    <3>4. Taken(t)'
      BY <1>2, <1>4, <1>5, <3>1, <3>2, <3>3 DEF Taken
    <3>5. Told(t)'
      BY <1>1, <3>1 DEF Told, EventIn
    <3> QED BY <2>1, <3>4, <3>5
  <2>2. CASE u # t
    <3>1. calls'[u] = calls[u] /\ Taken(u) /\ Told(u)
      BY <1>1, <1>3, <2>2
    <3>2. \A k \in 1 .. Len(calls[u]) : calls[u][k] \in Nat
      BY <1>1, ElementOfSeq
    <3>3. \A k \in 1 .. Len(calls[u]) : 1 <= calls[u][k] /\ calls[u][k] <= sent'
      BY <1>1, <3>1, <3>2 DEF Taken
    <3>4. Taken(u)'
      BY <3>1, <3>3 DEF Taken
    <3>5. Told(u)'
      BY <3>1 DEF Told, EventIn
    <3> QED BY <3>4, <3>5
  <2> QED BY <2>1, <2>2
<1> QED BY <1>6, <1>7, <1>8 DEF Threads

\* A call has its own reply, and no call before it was lost without a request since whose
\* id was that of events.
LEMMA ThreadsAnswered ==
  ASSUME SyncInductive, NEW t \in Thread, lock = t, lock' = None, sent <= served,
         todo' = [todo EXCEPT ![t] = @ - 1],
         answers' = [answers EXCEPT ![t] = Append(@, sent)],
         result' = IF todo[t] = 1 THEN [result EXCEPT ![t] = "ok"] ELSE result,
         UNCHANGED <<calls, lost, sent, served>>,
         \A m \in lost : EventIn(m, sent - 1)
  PROVE  Threads'
<1>1. /\ todo \in [Thread -> Nat] /\ result \in [Thread -> Result] /\ sent \in Nat
      /\ calls \in [Thread -> Seq(Nat)] /\ answers \in [Thread -> Seq(Nat)]
      /\ lost \subseteq 1 .. sent /\ served \in Nat
      /\ Locked /\ Room /\ \A u \in Thread : Taken(u) /\ Told(u)
  BY DEF SyncInductive, Typed, Threads
<1>2. /\ answers[t] \in Seq(Nat) /\ Len(calls[t]) \in Nat /\ Len(answers[t]) \in Nat
  BY <1>1, LenProperties
<1>3. /\ todo[t] > 0 /\ Len(calls[t]) > Len(answers[t]) /\ Last(calls[t]) = sent
  BY <1>1 DEF Locked
<1>4. Len(calls[t]) = Len(answers[t]) + 1 /\ calls[t][Len(calls[t])] = sent
  <2>1. Len(calls[t]) <= Len(answers[t]) + 1
    BY <1>1 DEF Taken
  <2> QED BY <1>2, <1>3, <2>1 DEF Last
<1>5. /\ answers'[t] = Append(answers[t], sent) /\ todo'[t] = todo[t] - 1 /\ todo[t] \in Nat
      /\ \A u \in Thread \ {t} : /\ answers'[u] = answers[u] /\ todo'[u] = todo[u]
                                 /\ result'[u] = result[u]
      /\ result'[t] = (IF todo[t] = 1 THEN "ok" ELSE result[t])
  BY <1>1
<1>6. /\ Len(answers'[t]) = Len(answers[t]) + 1 /\ answers'[t][Len(answers[t]) + 1] = sent
      /\ \A k \in 1 .. Len(answers[t]) : answers'[t][k] = answers[t][k]
  BY <1>1, <1>2, <1>5, AppendProperties
<1>7. Locked'
  <2>1. \A u \in Thread \ {t} : ~(todo'[u] > 0 /\ Len(calls'[u]) > Len(answers'[u]))
    BY <1>1, <1>5 DEF Locked
  <2>2. ~(Len(calls'[t]) > Len(answers'[t]))
    BY <1>2, <1>4, <1>6
  <2> QED BY <2>1, <2>2, Constants DEF Locked
<1>8. Room'
  <2>1. Active' \subseteq Active /\ IsFiniteSet(Active)
    BY <1>1, <1>5, Counting DEF Active
  <2>2. Cardinality(Active') <= Cardinality(Active) /\ Cardinality(Active') \in Nat
    BY <2>1, FS_Subset, FS_CardinalityType
  <2>3. Cardinality(lost) + Cardinality(Active) <= MaxLost + Cardinality(Thread)
    BY <1>1 DEF Room
  <2>4. Cardinality(lost) \in Nat
    BY FS_CardinalityType DEF SyncInductive, Typed
  <2>5. MaxLost \in Nat /\ Cardinality(Thread) \in Nat /\ Cardinality(Active) \in Nat
    BY Constants, Counting
  <2>6. Cardinality(lost) + Cardinality(Active') <= MaxLost + Cardinality(Thread)
    BY <2>2, <2>3, <2>4, <2>5
  <2> QED BY <2>6 DEF Room
<1>9. ASSUME NEW u \in Thread PROVE Taken(u)' /\ Told(u)'
  <2>1. CASE u = t
    <3>1. result[t] = None /\ None \notin {"ok", "mismatch", "invalid"}
      BY <1>1, <1>3, Constants DEF Taken
    <3>2. /\ result'[t] \notin {"mismatch", "invalid"} /\ (result'[t] = "ok" => todo[t] = 1)
          /\ todo'[t] > 0 => result'[t] = None
      BY <1>5, <3>1
    <3>3. \A k \in 1 .. Len(answers'[t]) : answers'[t][k] = calls[t][k] /\ answers'[t][k] <= served
      <4> SUFFICES ASSUME NEW k \in 1 .. Len(answers'[t])
                   PROVE  answers'[t][k] = calls[t][k] /\ answers'[t][k] <= served
        OBVIOUS
      <4>1. CASE k = Len(answers[t]) + 1
        BY <1>4, <1>6, <4>1
      <4>2. CASE k \in 1 .. Len(answers[t])
        BY <1>1, <1>6, <4>2 DEF Taken
      <4> QED BY <1>2, <1>6, <4>1, <4>2
    <3>4. Taken(t)'
      <4>1. \A k \in 1 .. Len(calls[t]) : 1 <= calls[t][k] /\ calls[t][k] <= sent
        BY <1>1 DEF Taken
      <4>2. Len(answers'[t]) = Len(calls[t])
        BY <1>4, <1>6
      <4>3. result'[t] = "ok" => todo'[t] = 0
        BY <1>5, <3>2
      <4> QED BY <1>2, <3>2, <3>3, <4>1, <4>2, <4>3 DEF Taken
    <3>5. \A k \in 1 .. Len(answers'[t]) : \A m \in lost :
            m < answers'[t][k] => EventIn(m, answers'[t][k] - 1)
      <4> SUFFICES ASSUME NEW k \in 1 .. Len(answers'[t]), NEW m \in lost, m < answers'[t][k]
                   PROVE  EventIn(m, answers'[t][k] - 1)
        OBVIOUS
      <4>1. CASE k = Len(answers[t]) + 1
        BY <1>6, <4>1
      <4>2. CASE k \in 1 .. Len(answers[t])
        BY <1>1, <1>6, <4>2 DEF Told
      <4> QED BY <1>2, <1>6, <4>1, <4>2
    <3>6. Told(t)'
      BY <3>2, <3>5 DEF Told, EventIn
    <3> QED BY <2>1, <3>4, <3>6
  <2>2. CASE u # t
    BY <1>1, <1>5, <2>2 DEF Taken, Told, EventIn
  <2> QED BY <2>1, <2>2
<1> QED BY <1>7, <1>8, <1>9 DEF Threads

-----------------------------------------------------------------------------
(* The stream *)

\* The types of the stream, apart from those of the threads.
LEMMA StreamTyped ==
  ASSUME SyncInductive
  PROVE  /\ sent \in Nat /\ served \in Nat /\ served <= sent /\ stream \in Seq(Int) /\ Len(stream) \in Nat
         /\ \A i \in 1 .. Len(stream) : stream[i] \in Int /\ -1 <= stream[i] /\ stream[i] <= served
         /\ lost \subseteq 1 .. sent
  BY LenProperties DEF SyncInductive, Typed

\* A call is in progress only after a request.
LEMMA SentSome ==
  ASSUME SyncInductive, lock # None
  PROVE  sent # 0
<1>1. PICK t \in Thread : lock = t
  BY DEF SyncInductive, Typed
<1>2. Len(calls[t]) > Len(answers[t]) /\ Last(calls[t]) = sent /\ Taken(t)
  BY <1>1 DEF SyncInductive, Threads, Locked
<1>3. /\ Len(calls[t]) \in Nat /\ Len(answers[t]) \in Nat
  BY LenProperties DEF SyncInductive, Typed
<1>4. Len(calls[t]) \in 1 .. Len(calls[t]) /\ calls[t][Len(calls[t])] = sent
  BY <1>2, <1>3 DEF Last
<1>5. 1 <= sent
  BY <1>2, <1>4 DEF Taken
<1> QED BY <1>5

\* Without its first frame the stream is still in order.
LEMMA FramesTail ==
  ASSUME SyncInductive, stream # <<>>, stream' = Tail(stream), UNCHANGED <<open, served>>, lost \subseteq lost'
  PROVE  /\ Frames'
         /\ Len(stream') = Len(stream) - 1
         /\ \A i \in 1 .. Len(stream') : stream'[i] = stream[i + 1] /\ i + 1 \in 1 .. Len(stream)
         /\ \A j \in 2 .. Len(stream) : j - 1 \in 1 .. Len(stream') /\ stream'[j - 1] = stream[j]
<1>1. /\ Len(stream') = Len(stream) - 1 /\ Len(stream) \in Nat /\ Len(stream) >= 1
      /\ \A i \in 1 .. Len(stream') : stream'[i] = stream[i + 1]
  BY Shorter, StreamTyped
<1>2. /\ \A i \in 1 .. Len(stream') : stream'[i] = stream[i + 1] /\ i + 1 \in 1 .. Len(stream)
      /\ \A j \in 2 .. Len(stream) : j - 1 \in 1 .. Len(stream') /\ stream'[j - 1] = stream[j]
  BY <1>1
<1>3. Frames /\ \A i \in 1 .. Len(stream) : stream[i] \in Int
  BY StreamTyped DEF SyncInductive, Stream
<1>4. ~open' => stream' = <<>>
  BY <1>3 DEF Frames
<1>5. \A i \in 1 .. Len(stream') : stream'[i] = Rest => i = 1 /\ lost' # {}
  BY <1>1, <1>2, <1>3 DEF Frames
<1>6. \A i, j \in 1 .. Len(stream') : i < j /\ stream'[j] >= 1 => stream'[i] < stream'[j]
  BY <1>1, <1>2, <1>3 DEF Frames
<1>7. ASSUME NEW i \in 1 .. Len(stream'), 1 <= stream'[i], stream'[i] < served'
      PROVE  \E j \in 1 .. Len(stream') : stream'[j] = stream'[i] + 1
  <2>1. stream'[i] = stream[i + 1] /\ i + 1 \in 1 .. Len(stream)
    BY <1>2
  <2>2. PICK j \in 1 .. Len(stream) : stream[j] = stream[i + 1] + 1
    BY <1>3, <1>7, <2>1 DEF Frames, Holds
  <2>3. j # 1
    <3> SUFFICES ASSUME j = 1 PROVE FALSE
      OBVIOUS
    <3>1. 1 < i + 1 /\ stream[i + 1] >= 1
      BY <1>7, <2>1
    <3>2. stream[1] < stream[i + 1]
      BY <1>3, <2>1, <2>2, <3>1 DEF Frames
    <3> QED BY <1>3, <2>1, <2>2, <3>2
  <2>4. j - 1 \in 1 .. Len(stream') /\ stream'[j - 1] = stream'[i] + 1
    BY <1>1, <1>2, <2>1, <2>2, <2>3
  <2> QED BY <2>4
<1>8. Frames'
  BY <1>4, <1>5, <1>6, <1>7 DEF Frames, Holds
<1> QED BY <1>1, <1>2, <1>8

\* So is what a read leaves that went from the rest of one frame into the next.
LEMMA FramesRead ==
  ASSUME SyncInductive, Len(stream) > 1, open, open', Head(stream) = Rest,
         stream' = <<Rest>> \o Tail(Tail(stream)), UNCHANGED <<open, served>>, lost' # {}
  PROVE  /\ Frames'
         /\ Len(stream') \in Nat /\ Len(stream') >= 1 /\ stream'[1] = Rest
         /\ \A i \in 2 .. Len(stream') : stream'[i] = stream[i + 1] /\ i + 1 \in 2 .. Len(stream)
<1>1. /\ Frames /\ stream \in Seq(Int) /\ Len(stream) \in Nat
      /\ \A i \in 1 .. Len(stream) : stream[i] \in Int /\ -1 <= stream[i]
  BY StreamTyped DEF SyncInductive, Stream
<1>2. /\ stream # <<>> /\ Tail(stream) \in Seq(Int) /\ Len(Tail(stream)) = Len(stream) - 1
      /\ \A i \in 1 .. Len(stream) - 1 : Tail(stream)[i] = stream[i + 1]
      /\ stream[1] = Rest
  <2>1. stream # <<>>
    BY <1>1
  <2> QED BY <1>1, <2>1, Shorter
<1> DEFINE u == Tail(Tail(stream))
<1>3. /\ u \in Seq(Int) /\ Len(u) = Len(stream) - 2
      /\ \A i \in 1 .. Len(stream) - 2 : u[i] = stream[i + 2]
  <2>1. Tail(stream) # <<>>
    <3> DEFINE v == Tail(stream)
    <3>1. Len(v) >= 1 /\ v \in Seq(Int)
      BY <1>1, <1>2
    <3> HIDE DEF v
    <3>2. v # <<>>
      BY <3>1, EmptySeq
    <3> QED BY <3>2 DEF v
  <2>2. /\ u \in Seq(Int) /\ Len(u) = Len(Tail(stream)) - 1
        /\ \A i \in 1 .. Len(Tail(stream)) - 1 : u[i] = Tail(stream)[i + 1]
    BY <1>2, <2>1, Shorter
  <2> QED BY <1>1, <1>2, <2>2
<1> HIDE DEF u
<1>4. /\ Len(<<Rest>>) = 1 /\ <<Rest>>[1] = Rest /\ <<Rest>> \in Seq(Int)
  BY DEF Rest
<1>5. /\ Len(stream') = Len(stream) - 1 /\ stream'[1] = Rest
      /\ \A i \in 2 .. Len(stream') : stream'[i] = u[i - 1]
  <2> DEFINE v == <<Rest>> \o u
  <2>1. /\ Len(v) = 1 + Len(u)
        /\ \A i \in 1 .. 1 + Len(u) : v[i] = IF i <= 1 THEN <<Rest>>[i] ELSE u[i - 1]
    BY <1>3, <1>4, ConcatProperties
  <2>2. stream' = v
    BY DEF u
  <2> HIDE DEF v
  <2>3. Len(u) \in Nat /\ 1 + Len(u) = Len(stream) - 1
    BY <1>1, <1>3
  <2>4. v[1] = Rest
    BY <1>4, <2>1, <2>3
  <2>5. \A i \in 2 .. 1 + Len(u) : v[i] = u[i - 1]
    BY <2>1, <2>3
  <2> QED BY <2>1, <2>2, <2>3, <2>4, <2>5
<1>6. \A i \in 2 .. Len(stream') : stream'[i] = stream[i + 1] /\ i + 1 \in 2 .. Len(stream)
  BY <1>1, <1>3, <1>5
<1>7. \A i \in 1 .. Len(stream') : i # 1 => i \in 2 .. Len(stream')
  BY <1>1, <1>5
<1>8. \A i \in 1 .. Len(stream') : stream'[i] = Rest => i = 1 /\ lost' # {}
  <2>1. \A i \in 2 .. Len(stream) : stream[i] # Rest
    BY <1>1 DEF Frames
  <2> QED BY <1>6, <1>7, <2>1
<1>9. \A i, j \in 1 .. Len(stream') : i < j /\ stream'[j] >= 1 => stream'[i] < stream'[j]
  <2> SUFFICES ASSUME NEW i \in 1 .. Len(stream'), NEW j \in 1 .. Len(stream'), i < j, stream'[j] >= 1
               PROVE  stream'[i] < stream'[j]
    OBVIOUS
  <2>1. j \in 2 .. Len(stream') /\ stream'[j] = stream[j + 1] /\ j + 1 \in 2 .. Len(stream)
    <3>1. j # 1
      BY <1>1, <1>5
    <3> QED BY <1>6, <1>7, <3>1
  <2>2. CASE i = 1
    <3>1. stream[j + 1] \in Int
      BY <1>1, <2>1
    <3> DEFINE x == stream'[i]
               y == stream'[j]
    <3>2. x = -1
      BY <1>5, <2>2 DEF Rest
    <3>3. y \in Int /\ y >= 1
      BY <2>1, <3>1
    <3> HIDE DEF x, y
    <3>4. x < y
      BY <3>2, <3>3
    <3> QED BY <3>4 DEF x, y
  <2>3. CASE i # 1
    <3>1. stream'[i] = stream[i + 1] /\ i + 1 \in 2 .. Len(stream) /\ i + 1 < j + 1
      <4>1. i \in 2 .. Len(stream')
        BY <1>7, <2>3
      <4>2. i + 1 < j + 1
        OBVIOUS
      <4> QED BY <1>6, <4>1, <4>2
    <3>2. stream[i + 1] < stream[j + 1]
      BY <1>1, <2>1, <3>1 DEF Frames
    <3> QED BY <2>1, <3>1, <3>2
  <2> QED BY <2>2, <2>3
<1>10. ASSUME NEW i \in 1 .. Len(stream'), 1 <= stream'[i], stream'[i] < served'
       PROVE  \E j \in 1 .. Len(stream') : stream'[j] = stream'[i] + 1
  <2>1. i \in 2 .. Len(stream') /\ stream'[i] = stream[i + 1] /\ i + 1 \in 2 .. Len(stream)
    BY <1>5, <1>6, <1>7, <1>10 DEF Rest
  <2>2. PICK j \in 1 .. Len(stream) : stream[j] = stream[i + 1] + 1
    <3>1. \A k \in 1 .. Len(stream) : 1 <= stream[k] /\ stream[k] < served =>
            \E j \in 1 .. Len(stream) : stream[j] = stream[k] + 1
      BY <1>1 DEF Frames, Holds
    <3>2. i + 1 \in 1 .. Len(stream) /\ 1 <= stream[i + 1] /\ stream[i + 1] < served
      BY <1>10, <2>1
    <3> QED BY <3>1, <3>2
  <2>3. ~(j < i + 1)
    <3> SUFFICES ASSUME j < i + 1 PROVE FALSE
      OBVIOUS
    <3>1. stream[j] < stream[i + 1]
      BY <1>1, <1>10, <2>1 DEF Frames
    <3> QED BY <1>1, <2>1, <2>2, <3>1
  <2>4. j - 1 \in 2 .. Len(stream') /\ j - 1 \in 1 .. Len(stream')
    BY <1>1, <1>5, <2>1, <2>2, <2>3
  <2>5. stream'[j - 1] = stream[(j - 1) + 1] /\ (j - 1) + 1 = j
    BY <1>6, <2>4
  <2> QED BY <2>1, <2>2, <2>4, <2>5
<1>11. Frames'
  <2>1. ~open' => stream' = <<>>
    OBVIOUS
  <2> QED BY <1>8, <1>9, <1>10, <2>1 DEF Frames, Holds
<1>12. Len(stream') \in Nat /\ Len(stream') >= 1
  BY <1>1, <1>5
<1> QED BY <1>5, <1>6, <1>11, <1>12

\* A call that is lost leaves the stream out of step, if anything of its reply or of those
\* before it is left, or is to come.
LEMMA StreamLost ==
  ASSUME SyncInductive, lock' = None, lost' = lost \cup {sent}, UNCHANGED <<open, alive, sent, served>>,
         Frames',
         \A i \in 1 .. Len(stream') : stream'[i] >= 1 => \E j \in 1 .. Len(stream) : stream[j] = stream'[i],
         \/ sent % IdSpace = EventId \/ served < sent
         \/ \E i \in 1 .. Len(stream') : stream'[i] # Event /\ stream'[i] <= sent
  PROVE  Stream'
<1>1. /\ Due /\ sent \in Nat /\ lost \subseteq 1 .. sent
  BY StreamTyped DEF SyncInductive, Stream
<1>2. ASSUME NEW n, Missed(n) PROVE Missed(n)'
  BY <1>2 DEF Missed, InProgress
<1>3. Due'
  BY <1>1, <1>2 DEF Due
<1>4. Pending'
  BY DEF Pending
<1>5. Behind'
  <2> SUFFICES ASSUME NEW m \in lost'
               PROVE  \/ EventIn(m, sent) \/ served < sent
                      \/ \E i \in 1 .. Len(stream') : stream'[i] # Event /\ stream'[i] <= sent
    BY DEF Behind, Prior, EventIn
  <2>1. m \in Nat /\ m <= sent
    BY <1>1
  <2>2. sent % IdSpace = EventId => EventIn(m, sent)
    BY <1>1, <2>1 DEF EventIn
  <2> QED BY <2>2
<1> QED BY <1>3, <1>4, <1>5 DEF Stream

\* What an exception leaves of the stream, or of the rest of a frame in it, is a failure
\* of the next call; the id of events alone can hide it.
LEMMA MisreadStream ==
  ASSUME SyncInductive, NEW t \in Thread, Misread(t)
  PROVE  Stream'
<1>1. /\ todo[t] > 0 /\ Len(calls[t]) > Len(answers[t]) /\ open /\ stream # <<>> /\ Head(stream) = Rest
      /\ lock' = None /\ lost' = lost \cup {Last(calls[t])} /\ UNCHANGED <<open, alive, sent, served>>
  BY DEF Misread, Waits, Loses, Raises
<1>2. lock = t /\ Last(calls[t]) = sent /\ lock # None
  BY <1>1, Constants DEF SyncInductive, Threads, Locked
<1>3. Pending /\ Frames
  BY DEF SyncInductive, Stream
<1>4. /\ Len(stream) \in Nat /\ Len(stream) >= 1 /\ stream[1] = Rest /\ sent \in Nat
  BY <1>1, Shorter, StreamTyped
<1>5. sent % IdSpace = EventId \/ served < sent \/ Holds(sent)
  BY <1>1, <1>2, <1>3 DEF Pending
<1>6. CASE UNCHANGED stream
  <2>1. Frames'
    BY <1>1, <1>2, <1>3, <1>6 DEF Frames, Holds
  <2>2. 1 \in 1 .. Len(stream') /\ stream'[1] # Event /\ stream'[1] <= sent
    BY <1>4, <1>6 DEF Rest, Event
  <2>3. \A i \in 1 .. Len(stream') : stream'[i] >= 1 => \E j \in 1 .. Len(stream) : stream[j] = stream'[i]
    BY <1>6
  <2> QED BY <1>1, <1>2, <2>1, <2>2, <2>3, StreamLost
<1>7. CASE stream' = Tail(stream)
  <2>1. /\ Frames'
        /\ \A i \in 1 .. Len(stream') : stream'[i] = stream[i + 1] /\ i + 1 \in 1 .. Len(stream)
        /\ \A j \in 2 .. Len(stream) : j - 1 \in 1 .. Len(stream') /\ stream'[j - 1] = stream[j]
    BY <1>1, <1>7, FramesTail
  <2>2. Holds(sent) => \E i \in 1 .. Len(stream') : stream'[i] = sent
    <3> SUFFICES ASSUME NEW j \in 1 .. Len(stream), stream[j] = sent
                 PROVE  \E i \in 1 .. Len(stream') : stream'[i] = sent
      BY DEF Holds
    <3>1. j # 1
      BY <1>4 DEF Rest
    <3>2. j \in 2 .. Len(stream)
      BY <1>4, <3>1
    <3> QED BY <2>1, <3>2
  <2>3. \/ sent % IdSpace = EventId \/ served < sent
        \/ \E i \in 1 .. Len(stream') : stream'[i] # Event /\ stream'[i] <= sent
    <3>1. CASE \E i \in 1 .. Len(stream') : stream'[i] = sent /\ sent # 0
      BY <1>4, <3>1 DEF Event
    <3>2. CASE sent = 0
      BY <1>2, <1>4, <3>2, SentSome
    <3> QED BY <1>5, <2>2, <3>1, <3>2
  <2>4. \A i \in 1 .. Len(stream') : stream'[i] >= 1 => \E j \in 1 .. Len(stream) : stream[j] = stream'[i]
    BY <2>1
  <2> QED BY <1>1, <1>2, <2>1, <2>3, <2>4, StreamLost
<1>8. CASE Len(stream) > 1 /\ stream' = <<Rest>> \o Tail(Tail(stream))
  <2>1. /\ Frames' /\ Len(stream') \in Nat /\ Len(stream') >= 1 /\ stream'[1] = Rest
        /\ \A i \in 2 .. Len(stream') : stream'[i] = stream[i + 1] /\ i + 1 \in 2 .. Len(stream)
    BY <1>1, <1>2, <1>8, FramesRead
  <2>2. 1 \in 1 .. Len(stream') /\ stream'[1] # Event /\ stream'[1] <= sent
    BY <1>4, <2>1 DEF Rest, Event
  <2>3. ASSUME NEW i \in 1 .. Len(stream'), stream'[i] >= 1
        PROVE  \E j \in 1 .. Len(stream) : stream[j] = stream'[i]
    <3>1. i \in 2 .. Len(stream')
      BY <2>1, <2>3 DEF Rest
    <3>2. stream'[i] = stream[i + 1] /\ i + 1 \in 1 .. Len(stream)
      BY <2>1, <3>1
    <3> QED BY <3>2
  <2> QED BY <1>1, <1>2, <2>1, <2>2, <2>3, StreamLost
<1>9. \/ UNCHANGED stream \/ stream' = Tail(stream)
      \/ Len(stream) > 1 /\ stream' = <<Rest>> \o Tail(Tail(stream))
  BY DEF Misread
<1> QED BY <1>6, <1>7, <1>8, <1>9

LEMMA TimeoutStream ==
  ASSUME SyncInductive, NEW t \in Thread, Timeout(t)
  PROVE  Stream'
<1>1. /\ todo[t] > 0 /\ Len(calls[t]) > Len(answers[t]) /\ open
      /\ lock' = None /\ lost' = lost \cup {Last(calls[t])} /\ UNCHANGED <<open, alive, sent, served>>
  BY DEF Timeout, Waits, Loses, Raises
<1>2. lock = t /\ Last(calls[t]) = sent /\ lock # None
  BY <1>1, Constants DEF SyncInductive, Threads, Locked
<1>3. Pending /\ Frames /\ sent \in Nat
  BY StreamTyped DEF SyncInductive, Stream
<1>4. sent % IdSpace = EventId \/ served < sent \/ Holds(sent)
  BY <1>1, <1>2, <1>3 DEF Pending
<1>5. CASE stream' = <<Rest>>
  <2>1. Len(stream') = 1 /\ stream'[1] = Rest /\ Rest # Event /\ ~(Rest >= 1) /\ Rest <= sent
    BY <1>3, <1>5 DEF Rest, Event
  <2>2. Frames'
    BY <1>1, <1>2, <2>1 DEF Frames
  <2>3. \A i \in 1 .. Len(stream') : stream'[i] >= 1 => \E j \in 1 .. Len(stream) : stream[j] = stream'[i]
    BY <2>1
  <2>4. \E i \in 1 .. Len(stream') : stream'[i] # Event /\ stream'[i] <= sent
    BY <2>1
  <2> QED BY <1>1, <1>2, <2>2, <2>3, <2>4, StreamLost
<1>6. CASE stream' = <<>> /\ stream \in {<<>>, <<Rest>>}
  <2>1. Len(stream') = 0
    BY <1>6
  <2>2. Frames'
    BY <1>6, <2>1 DEF Frames
  <2>3. \A i \in 1 .. Len(stream') : stream'[i] >= 1 => \E j \in 1 .. Len(stream) : stream[j] = stream'[i]
    BY <2>1
  <2>4. sent # 0
    BY <1>2, SentSome
  <2>5. ~Holds(sent)
    <3>1. CASE stream = <<>>
      BY <3>1 DEF Holds
    <3>2. CASE stream = <<Rest>>
      BY <1>3, <3>2 DEF Holds, Rest
    <3> QED BY <1>6, <3>1, <3>2
  <2> QED BY <1>1, <1>2, <1>4, <2>2, <2>3, <2>5, StreamLost
<1>7. \/ stream' = <<Rest>> \/ (stream' = <<>> /\ stream \in {<<>>, <<Rest>>})
  BY DEF Timeout
<1> QED BY <1>5, <1>6, <1>7

\* The frame taken for the reply is the reply, and whatever was lost before has been made
\* up for by a request with the id of events.
LEMMA ReplyIsOwn ==
  ASSUME SyncInductive, NEW t \in Thread, Waits(t), open, stream # <<>>, Head(stream) # Rest,
         IdOf(Head(stream)) = IdOf(sent), IdOf(sent) # EventId
  PROVE  /\ Head(stream) = sent /\ sent <= served
         /\ \A i \in 2 .. Len(stream) : stream[i] = Event
         /\ \A m \in lost : EventIn(m, sent - 1)
<1>1. /\ lock = t /\ lock # None
  BY Constants DEF SyncInductive, Threads, Locked, Waits
<1>2. /\ Frames /\ Behind /\ sent \in Nat /\ served \in Nat /\ served <= sent /\ Len(stream) \in Nat
      /\ \A i \in 1 .. Len(stream) : stream[i] \in Int /\ -1 <= stream[i] /\ stream[i] <= served
  BY StreamTyped DEF SyncInductive, Stream
<1>3. Head(stream) = stream[1] /\ 1 \in 1 .. Len(stream)
  BY Shorter, StreamTyped
<1>4. Head(stream) # Event /\ sent # Event
  BY DEF IdOf
<1>5. Head(stream) >= 1
  BY <1>2, <1>3, <1>4 DEF Rest, Event
<1>6. Head(stream) % IdSpace = sent % IdSpace
  BY <1>4 DEF IdOf
<1>7. Head(stream) = sent
  BY <1>5, <1>6, SameId
<1>8. sent <= served
  BY <1>2, <1>3, <1>7
<1>9. ASSUME NEW i \in 2 .. Len(stream) PROVE stream[i] = Event
  <2>1. i \in 1 .. Len(stream) /\ 1 < i
    BY <1>2
  <2>2. stream[i] # Rest
    BY <1>2, <2>1 DEF Frames
  <2>3. ~(stream[i] >= 1)
    <3> SUFFICES ASSUME stream[i] >= 1 PROVE FALSE
      OBVIOUS
    <3>1. stream[1] < stream[i]
      BY <1>2, <1>3, <2>1 DEF Frames
    <3> QED BY <1>2, <1>3, <1>7, <2>1, <3>1
  <2> QED BY <1>2, <2>1, <2>2, <2>3 DEF Rest, Event
<1>10. ASSUME NEW m \in lost PROVE EventIn(m, sent - 1)
  <2>1. \/ EventIn(m, sent - 1) \/ served < sent - 1
        \/ \E i \in 1 .. Len(stream) : stream[i] # Event /\ stream[i] <= sent - 1
    BY <1>1, <1>2 DEF Behind, Prior
  <2>2. ~(served < sent - 1)
    BY <1>2, <1>8
  <2>3. ASSUME NEW i \in 1 .. Len(stream), stream[i] # Event, stream[i] <= sent - 1 PROVE FALSE
    <3>1. i = 1
      BY <1>2, <1>9, <2>3
    <3> QED BY <1>2, <1>3, <1>7, <2>3, <3>1
  <2> QED BY <2>1, <2>2, <2>3
<1> QED BY <1>7, <1>8, <1>9, <1>10

\* Its reply, good or bad, leaves nothing but events behind.
LEMMA ReplyStream ==
  ASSUME SyncInductive, NEW t \in Thread, Waits(t), open, stream # <<>>, Head(stream) # Rest,
         IdOf(Head(stream)) = IdOf(sent), IdOf(sent) # EventId, stream' = Tail(stream),
         lock' = None, UNCHANGED <<open, alive, sent, served, lost>>
  PROVE  Stream'
<1>1. /\ Head(stream) = sent /\ sent <= served
      /\ \A i \in 2 .. Len(stream) : stream[i] = Event
      /\ \A m \in lost : EventIn(m, sent - 1)
  BY ReplyIsOwn
<1>2. /\ Frames' /\ \A i \in 1 .. Len(stream') : stream'[i] = stream[i + 1] /\ i + 1 \in 1 .. Len(stream)
  BY FramesTail
<1>3. /\ sent \in Nat /\ served \in Nat /\ lost \subseteq 1 .. sent /\ Len(stream) \in Nat
  BY StreamTyped
<1>4. \A i \in 1 .. Len(stream') : stream'[i] = Event
  BY <1>1, <1>2, <1>3
<1>5. Due'
  <2>1. ~(Event >= 1)
    BY DEF Event
  <2>2. Missed(served + 1)'
    BY <1>1, <1>3 DEF Missed
  <2> QED BY <1>4, <2>1, <2>2 DEF Due
<1>6. Pending'
  BY DEF Pending
<1>7. Behind'
  <2>1. Prior' = sent
    BY DEF Prior
  <2>2. \A m \in lost : EventIn(m, sent)
    BY <1>1, <1>3 DEF EventIn
  <2> QED BY <2>1, <2>2 DEF Behind, EventIn
<1> QED BY <1>2, <1>5, <1>6, <1>7 DEF Stream

\* A reply with the id of events is passed over, by its own call or by one that came late.
LEMMA EventStream ==
  ASSUME SyncInductive, NEW t \in Thread, Waits(t), open, stream # <<>>, Head(stream) # Rest,
         IdOf(Head(stream)) = EventId, stream' = Tail(stream),
         UNCHANGED <<open, alive, lock, sent, served, lost>>
  PROVE  Stream'
<1>1. lock = t /\ lock # None /\ sent \notin lost
  BY Constants DEF SyncInductive, Threads, Locked, Waits
<1>2. /\ Frames /\ Due /\ Pending /\ Behind /\ sent \in Nat /\ served \in Nat /\ Len(stream) \in Nat
      /\ \A i \in 1 .. Len(stream) : stream[i] \in Int /\ -1 <= stream[i] /\ stream[i] <= served
      /\ lost \subseteq 1 .. sent
  BY StreamTyped DEF SyncInductive, Stream
<1>3. Head(stream) = stream[1] /\ 1 \in 1 .. Len(stream)
  BY Shorter, StreamTyped
<1>4. /\ Frames'
      /\ \A i \in 1 .. Len(stream') : stream'[i] = stream[i + 1] /\ i + 1 \in 1 .. Len(stream)
      /\ \A j \in 2 .. Len(stream) : j - 1 \in 1 .. Len(stream') /\ stream'[j - 1] = stream[j]
  BY FramesTail
<1>5. Due'
  BY <1>2, <1>4 DEF Due, Missed, InProgress
<1>6. Pending'
  <2> SUFFICES ASSUME sent % IdSpace # EventId PROVE served < sent \/ \E i \in 1 .. Len(stream') : stream'[i] = sent
    BY DEF Pending, Holds
  <2>1. served < sent \/ Holds(sent)
    BY <1>1, <1>2 DEF Pending
  <2>2. ASSUME NEW j \in 1 .. Len(stream), stream[j] = sent
        PROVE  \E i \in 1 .. Len(stream') : stream'[i] = sent
    <3>1. sent # 0
      BY <1>1, SentSome
    <3>2. j # 1
      BY <1>3, <2>2, <3>1 DEF IdOf, Event
    <3>3. j \in 2 .. Len(stream)
      BY <1>2, <3>2
    <3> QED BY <1>4, <2>2, <3>3
  <2> QED BY <2>1, <2>2 DEF Holds
<1>7. Behind'
  <2> SUFFICES ASSUME NEW m \in lost
               PROVE  \/ EventIn(m, Prior) \/ served < Prior
                      \/ \E i \in 1 .. Len(stream') : stream'[i] # Event /\ stream'[i] <= Prior
    BY DEF Behind, Prior, EventIn
  <2>1. Prior = sent - 1 /\ m \in Nat /\ m <= Prior /\ Prior \in Int
    BY <1>1, <1>2 DEF Prior
  <2> HIDE DEF Prior
  <2>2. ASSUME NEW i \in 2 .. Len(stream), stream[i] # Event, stream[i] <= Prior
        PROVE  \E j \in 1 .. Len(stream') : stream'[j] # Event /\ stream'[j] <= Prior
    BY <1>4, <2>2
  <2>3. CASE stream[1] # Event /\ stream[1] <= Prior
    <3>1. stream[1] >= 1 /\ stream[1] % IdSpace = EventId
      BY <1>2, <1>3, <2>3 DEF IdOf, Event, Rest
    <3>2. CASE m <= stream[1]
      BY <1>2, <1>3, <2>1, <2>3, <3>1, <3>2 DEF EventIn
    <3>3. CASE stream[1] = served /\ stream[1] < m
      BY <1>2, <2>1, <3>3
    <3>4. CASE stream[1] < served /\ stream[1] < m
      <4>1. PICK j \in 1 .. Len(stream) : stream[j] = stream[1] + 1
        BY <1>2, <1>3, <3>1, <3>4 DEF Frames, Holds
      <4>2. j \in 2 .. Len(stream) /\ stream[j] # Event /\ stream[j] <= Prior
        BY <1>2, <1>3, <2>1, <3>1, <3>4, <4>1 DEF Event
      <4> QED BY <2>2, <4>2
    <3> QED BY <1>2, <1>3, <2>1, <3>2, <3>3, <3>4
  <2>4. \/ EventIn(m, Prior) \/ served < Prior
        \/ \E i \in 1 .. Len(stream) : stream[i] # Event /\ stream[i] <= Prior
    BY <1>2 DEF Behind
  <2>5. \A i \in 1 .. Len(stream) : i = 1 \/ i \in 2 .. Len(stream)
    BY <1>2
  <2> QED BY <2>2, <2>3, <2>4, <2>5
<1> QED BY <1>4, <1>5, <1>6, <1>7 DEF Stream

\* A reply to another call is one that was lost; the next one is still to come.
LEMMA MismatchStream ==
  ASSUME SyncInductive, NEW t \in Thread, Waits(t), open, stream # <<>>, Head(stream) # Rest,
         IdOf(Head(stream)) \notin {EventId, IdOf(sent)}, stream' = Tail(stream),
         lock' = None, lost' = lost \cup {sent}, UNCHANGED <<open, alive, sent, served>>
  PROVE  Stream' /\ \E m \in lost : m < sent
<1>1. lock = t /\ lock # None
  BY Constants DEF SyncInductive, Threads, Locked, Waits
<1>2. /\ Frames /\ sent \in Nat /\ served \in Nat /\ served <= sent /\ Len(stream) \in Nat
      /\ \A i \in 1 .. Len(stream) : stream[i] \in Int /\ -1 <= stream[i] /\ stream[i] <= served
  BY StreamTyped DEF SyncInductive, Stream
<1>3. Head(stream) = stream[1] /\ 1 \in 1 .. Len(stream)
  BY Shorter, StreamTyped
<1>4. Head(stream) # Event /\ Head(stream) # sent
  BY DEF IdOf
<1>5. stream[1] >= 1 /\ stream[1] < sent
  BY <1>2, <1>3, <1>4 DEF Rest, Event
<1>6. stream[1] \in lost
  <2>1. \A g \in stream[1] .. sent - 1 : g \in lost
    BY <1>3, <1>5, SameId
  <2> QED BY <1>2, <1>3, <1>5, <2>1
<1>7. /\ Frames'
      /\ \A i \in 1 .. Len(stream') : stream'[i] = stream[i + 1] /\ i + 1 \in 1 .. Len(stream)
      /\ \A j \in 2 .. Len(stream) : j - 1 \in 1 .. Len(stream') /\ stream'[j - 1] = stream[j]
  BY FramesTail
<1>8. \A i \in 1 .. Len(stream') : stream'[i] >= 1 => \E j \in 1 .. Len(stream) : stream[j] = stream'[i]
  BY <1>7
<1>9. served < sent \/ \E i \in 1 .. Len(stream') : stream'[i] # Event /\ stream'[i] <= sent
  <2>1. CASE stream[1] < served
    <3>1. PICK j \in 1 .. Len(stream) : stream[j] = stream[1] + 1
      BY <1>2, <1>3, <1>5, <2>1 DEF Frames, Holds
    <3>2. j \in 2 .. Len(stream) /\ stream[j] # Event /\ stream[j] <= sent
      BY <1>2, <1>3, <1>5, <3>1 DEF Event
    <3> QED BY <1>7, <3>2
  <2>2. CASE stream[1] = served
    BY <1>5, <2>2
  <2> QED BY <1>2, <1>3, <2>1, <2>2
<1>10. Stream'
  BY <1>7, <1>8, <1>9, StreamLost
<1> QED BY <1>5, <1>6, <1>10

\* A call that finds the connection gone leaves nothing to get out of step with.
LEMMA FailsStream ==
  ASSUME SyncInductive, NEW t \in Thread, Fails(t)
  PROVE  Stream'
<1>1. /\ todo[t] > 0 /\ Len(calls[t]) > Len(answers[t]) /\ lock' = None
      /\ UNCHANGED <<open, alive, sent, served, stream, lost>>
      /\ ~open \/ (~alive /\ stream = <<>>)
  BY DEF Fails, Waits, Raises
<1>2. lock # None
  BY <1>1, Constants DEF SyncInductive, Threads, Locked
<1>3. Frames /\ Pending /\ Behind /\ sent \in Nat /\ lost \subseteq 1 .. sent
  BY StreamTyped DEF SyncInductive, Stream
<1>4. stream = <<>> /\ Len(stream) = 0 /\ ~(open /\ alive)
  BY <1>1, <1>3 DEF Frames
<1>5. Frames' /\ Due' /\ Pending'
  <2>1. Frames'
    BY <1>1, <1>4 DEF Frames
  <2>2. Due'
    BY <1>1, <1>4 DEF Due
  <2>3. Pending'
    BY <1>1 DEF Pending
  <2> QED BY <2>1, <2>2, <2>3
<1>6. Behind'
  <2> SUFFICES ASSUME open, NEW m \in lost PROVE EventIn(m, sent) \/ served < sent
    BY <1>1 DEF Behind, Prior, EventIn
  <2>1. sent % IdSpace = EventId => EventIn(m, sent)
    BY <1>3 DEF EventIn
  <2>2. sent % IdSpace # EventId => served < sent
    BY <1>2, <1>3, <1>4 DEF Pending, Holds
  <2> QED BY <2>1, <2>2
<1> QED BY <1>5, <1>6 DEF Stream

\* VICE replies to the oldest request: who waits for it, or has missed it, is known.
LEMMA ServeStream ==
  ASSUME SyncInductive, Serve
  PROVE  Stream'
<1>1. /\ alive /\ served < sent /\ served' = served + 1 /\ UNCHANGED <<open, alive, lock, sent, lost>>
      /\ stream' = IF open THEN Append(stream, served') ELSE stream
  BY DEF Serve
<1>2. /\ Frames /\ Due /\ Pending /\ Behind /\ sent \in Nat /\ served \in Nat /\ Len(stream) \in Nat
      /\ stream \in Seq(Int) /\ lost \subseteq 1 .. sent
      /\ \A i \in 1 .. Len(stream) : stream[i] \in Int /\ -1 <= stream[i] /\ stream[i] <= served
  BY StreamTyped DEF SyncInductive, Stream
<1>3. CASE ~open
  <2>1. stream' = <<>> /\ Len(stream') = 0 /\ ~open'
    BY <1>1, <1>2, <1>3 DEF Frames
  <2> QED BY <2>1 DEF Stream, Frames, Due, Pending, Behind
<1>4. CASE open
  <2> DEFINE n == served + 1
             L == Len(stream)
  <2>1. /\ Len(stream') = L + 1 /\ stream'[L + 1] = n /\ \A i \in 1 .. L : stream'[i] = stream[i]
    BY <1>1, <1>2, <1>4, AppendProperties
  <2>2. /\ n \in Nat /\ n >= 1 /\ served' = n /\ n <= sent /\ L \in Nat /\ open'
        /\ \A i \in 1 .. L : stream[i] < n /\ stream[i] \in Int
        /\ \A i \in 1 .. L + 1 : i = L + 1 \/ i \in 1 .. L
    BY <1>1, <1>2, <1>4
  <2>3. L + 1 \in 1 .. Len(stream') /\ \A i \in 1 .. L : i \in 1 .. Len(stream')
    BY <2>1, <2>2
  <2> HIDE DEF n
  <2>4. Frames'
    <3>1. \A i \in 1 .. Len(stream') : stream'[i] = Rest => i = 1 /\ lost' # {}
      BY <1>1, <1>2, <2>1, <2>2 DEF Frames, Rest
    <3>2. \A i, j \in 1 .. Len(stream') : i < j /\ stream'[j] >= 1 => stream'[i] < stream'[j]
      <4> SUFFICES ASSUME NEW i \in 1 .. Len(stream'), NEW j \in 1 .. Len(stream'), i < j, stream'[j] >= 1
                   PROVE  stream'[i] < stream'[j]
        OBVIOUS
      <4>1. i \in 1 .. L
        BY <2>1, <2>2
      <4>2. CASE j = L + 1
        BY <2>1, <2>2, <4>1, <4>2
      <4>3. CASE j \in 1 .. L
        BY <1>2, <2>1, <4>1, <4>3 DEF Frames
      <4> QED BY <2>1, <2>2, <4>2, <4>3
    <3>3. ASSUME NEW i \in 1 .. Len(stream'), 1 <= stream'[i], stream'[i] < served'
          PROVE  \E j \in 1 .. Len(stream') : stream'[j] = stream'[i] + 1
      <4>1. i \in 1 .. L /\ stream'[i] = stream[i]
        BY <2>1, <2>2, <3>3
      <4>2. CASE stream[i] = served
        BY <2>1, <2>3, <4>1, <4>2 DEF n
      <4>3. CASE stream[i] < served
        <5>1. PICK j \in 1 .. L : stream[j] = stream[i] + 1
          BY <1>2, <3>3, <4>1, <4>3 DEF Frames, Holds
        <5> QED BY <2>1, <2>3, <4>1, <5>1
      <4> QED BY <1>2, <4>1, <4>2, <4>3
    <3> QED BY <2>2, <3>1, <3>2, <3>3 DEF Frames, Holds
  <2>5. Due'
    <3>1. Missed(n)
      BY <1>1, <1>2, <1>4 DEF Due, n
    <3>2. ASSUME NEW i \in 1 .. Len(stream'), stream'[i] >= 1, NEW g \in stream'[i] .. sent
          PROVE  g \in lost \/ InProgress(g)
      <4>1. CASE i = L + 1
        BY <2>1, <3>1, <3>2, <4>1 DEF Missed
      <4>2. CASE i \in 1 .. L
        BY <1>2, <2>1, <3>2, <4>2 DEF Due, Missed
      <4> QED BY <2>1, <2>2, <4>1, <4>2
    <3>3. \A g \in n + 1 .. sent : g \in lost \/ InProgress(g)
      BY <1>2, <2>2, <3>1 DEF Missed
    <3> QED BY <1>1, <2>2, <3>2, <3>3 DEF Due, Missed, InProgress
  <2>6. Pending'
    BY <1>1, <1>2, <2>1, <2>2, <2>3 DEF Pending, Holds
  <2>7. Behind'
    <3> SUFFICES ASSUME NEW m \in lost
                 PROVE  \/ EventIn(m, Prior) \/ n < Prior
                        \/ \E i \in 1 .. Len(stream') : stream'[i] # Event /\ stream'[i] <= Prior
      BY <1>1, <2>2 DEF Behind, Prior, EventIn
    <3>1. \/ EventIn(m, Prior) \/ served < Prior
          \/ \E i \in 1 .. L : stream[i] # Event /\ stream[i] <= Prior
      BY <1>2, <1>4 DEF Behind
    <3>2. Prior \in Int
      BY <1>2 DEF Prior
    <3> HIDE DEF Prior
    <3>3. CASE served < Prior
      BY <1>2, <2>1, <2>2, <2>3, <3>2, <3>3 DEF Event, n
    <3>4. CASE \E i \in 1 .. L : stream[i] # Event /\ stream[i] <= Prior
      BY <2>1, <2>3, <3>4
    <3> QED BY <3>1, <3>3, <3>4
  <2> QED BY <2>4, <2>5, <2>6, <2>7 DEF Stream
<1> QED BY <1>3, <1>4

\* An event is passed over by every call.
LEMMA EmitStream ==
  ASSUME SyncInductive, Emit
  PROVE  Stream'
<1>1. /\ open /\ stream' = Append(stream, Event) /\ UNCHANGED <<open, alive, lock, sent, served, lost>>
  BY DEF Emit
<1>2. /\ Frames /\ Due /\ Pending /\ Behind /\ Len(stream) \in Nat /\ stream \in Seq(Int)
  BY StreamTyped DEF SyncInductive, Stream
<1> DEFINE L == Len(stream)
<1>3. /\ Len(stream') = L + 1 /\ stream'[L + 1] = 0 /\ \A i \in 1 .. L : stream'[i] = stream[i]
  BY <1>1, <1>2, AppendProperties DEF Event
<1>4. /\ L \in Nat /\ \A i \in 1 .. L + 1 : i = L + 1 \/ i \in 1 .. L
      /\ \A i \in 1 .. L : i \in 1 .. Len(stream')
  BY <1>2, <1>3
<1>5. Frames'
  <2>1. \A i \in 1 .. Len(stream') : stream'[i] = Rest => i = 1 /\ lost' # {}
    BY <1>1, <1>2, <1>3, <1>4 DEF Frames, Rest
  <2>2. \A i, j \in 1 .. Len(stream') : i < j /\ stream'[j] >= 1 => stream'[i] < stream'[j]
    BY <1>2, <1>3, <1>4 DEF Frames
  <2>3. \A i \in 1 .. Len(stream') : 1 <= stream'[i] /\ stream'[i] < served' =>
          \E j \in 1 .. Len(stream') : stream'[j] = stream'[i] + 1
    BY <1>1, <1>2, <1>3, <1>4 DEF Frames, Holds
  <2> QED BY <1>1, <2>1, <2>2, <2>3 DEF Frames, Holds
<1>6. Due'
  BY <1>1, <1>2, <1>3, <1>4 DEF Due, Missed, InProgress
<1>7. Pending'
  BY <1>1, <1>2, <1>3, <1>4 DEF Pending, Holds
<1>8. Behind'
  BY <1>1, <1>2, <1>3, <1>4 DEF Behind, Prior, EventIn
<1> QED BY <1>5, <1>6, <1>7, <1>8 DEF Stream

\* Before a request is sent the outcome of all the others is known.
LEMMA SendStream ==
  ASSUME SyncInductive, lock = None, lock' \in Thread, sent' = sent + 1,
         UNCHANGED <<open, alive, served, stream, lost>>
  PROVE  Stream'
<1>1. /\ Frames /\ Due /\ Behind /\ sent \in Nat /\ served \in Nat /\ served <= sent
      /\ \A i \in 1 .. Len(stream) : stream[i] \in Int
  BY StreamTyped DEF SyncInductive, Stream
<1>2. lock' # None
  BY Constants
<1>3. Frames'
  BY <1>1 DEF Frames, Holds
<1>4. ASSUME NEW n \in Int, Missed(n) PROVE Missed(n)'
  BY <1>1, <1>2, <1>4 DEF Missed, InProgress
<1>5. Due'
  BY <1>1, <1>4 DEF Due
<1>6. Pending'
  BY <1>1 DEF Pending
<1>7. Prior' = Prior
  BY <1>1, <1>2 DEF Prior
<1>8. Behind'
  BY <1>1, <1>7 DEF Behind, EventIn
<1> QED BY <1>3, <1>5, <1>6, <1>8 DEF Stream

\* What concerns neither the connection nor the calls in progress leaves the stream alone.
LEMMA StreamKeeps ==
  ASSUME SyncInductive, UNCHANGED <<open, lock, sent, served, stream, lost>>, alive' => alive
  PROVE  Stream'
<1>1. Stream
  BY DEF SyncInductive
<1>2. Frames' /\ Pending' /\ Behind'
  BY <1>1 DEF Stream, Frames, Pending, Behind, Holds, Prior, EventIn
<1>3. Due'
  BY <1>1 DEF Stream, Due, Missed, InProgress
<1> QED BY <1>2, <1>3 DEF Stream

-----------------------------------------------------------------------------
(* The steps *)

Failure == {"refused", "mismatch", "invalid", "timeout", "closed"}

\* The thread that waits.
LEMMA Waiting ==
  ASSUME SyncInductive, NEW t \in Thread, Waits(t)
  PROVE  lock = t /\ todo[t] > 0 /\ Last(calls[t]) = sent /\ sent \in Nat /\ sent # 0
<1>1. lock = t /\ todo[t] > 0 /\ Last(calls[t]) = sent /\ lock # None
  BY Constants DEF SyncInductive, Threads, Locked, Waits
<1> QED BY <1>1, SentSome, StreamTyped

\* The types of what an exception changes.
LEMMA RaisesTyped ==
  ASSUME SyncInductive, NEW t \in Thread, NEW how \in Failure, Raises(t, how)
  PROVE  /\ lock' \in Thread \cup {None} /\ todo' \in [Thread -> Nat] /\ result' \in [Thread -> Result]
         /\ calls' \in [Thread -> Seq(Nat)] /\ answers' \in [Thread -> Seq(Nat)]
  BY DEF SyncInductive, Typed, Raises, Failure, Result

\* A call is lost: it raises, and leaves a stream whose frames VICE has sent.
LEMMA LosesKeeps ==
  ASSUME SyncInductive, NEW t \in Thread, Waits(t), NEW how \in {"mismatch", "invalid", "timeout"},
         Loses(t, how), UNCHANGED <<open, alive, sent, served, emitted>>,
         stream' \in Seq(Int), \A i \in 1 .. Len(stream') : stream'[i] \in -1 .. served,
         how \in {"mismatch", "invalid"} => \E m \in lost : m < sent,
         Stream'
  PROVE  SyncInductive'
<1>1. lock = t /\ todo[t] > 0 /\ Last(calls[t]) = sent /\ sent \in Nat /\ sent # 0
  BY Waiting
<1>2. Raises(t, how) /\ lost' = lost \cup {sent} /\ how \in Failure
  BY <1>1 DEF Loses, Failure
<1>3. Threads'
  BY <1>1, <1>2, ThreadsRaise
<1>4. lost' \subseteq 1 .. sent' /\ IsFiniteSet(lost')
  <2>1. lost \subseteq 1 .. sent /\ IsFiniteSet(lost)
    BY DEF SyncInductive, Typed
  <2> QED BY <1>1, <1>2, <2>1, FS_AddElement
<1>5. Typed'
  BY <1>2, <1>4, RaisesTyped DEF SyncInductive, Typed
<1> QED BY <1>3, <1>5 DEF SyncInductive

\* The tail of the stream is one of frames VICE has sent.
LEMMA TailTyped ==
  ASSUME SyncInductive, stream # <<>>
  PROVE  /\ Tail(stream) \in Seq(Int)
         /\ \A i \in 1 .. Len(Tail(stream)) : Tail(stream)[i] \in -1 .. served
<1>1. stream \in Seq(Int) /\ \A i \in 1 .. Len(stream) : stream[i] \in -1 .. served
  BY DEF SyncInductive, Typed
<1>2. /\ Len(stream) \in Nat /\ Tail(stream) \in Seq(Int) /\ Len(Tail(stream)) = Len(stream) - 1
      /\ \A i \in 1 .. Len(stream) - 1 : Tail(stream)[i] = stream[i + 1]
  BY <1>1, Shorter
<1> QED BY <1>1, <1>2

LEMMA ReceiveKeeps ==
  ASSUME SyncInductive, NEW t \in Thread, Receive(t)
  PROVE  SyncInductive'
<1>1. /\ Waits(t) /\ open /\ stream # <<>> /\ Head(stream) # Rest /\ stream' = Tail(stream)
      /\ UNCHANGED <<open, alive, sent, served, emitted>>
  BY DEF Receive
<1>2. lock = t /\ todo[t] > 0 /\ Last(calls[t]) = sent
  BY <1>1, Waiting
<1>3. stream' \in Seq(Int) /\ \A i \in 1 .. Len(stream') : stream'[i] \in -1 .. served
  BY <1>1, TailTyped
<1>4. CASE IdOf(Head(stream)) = EventId /\ UNCHANGED <<lock, threadVars, lost>>
  <2>1. Stream'
    BY <1>1, <1>4, EventStream
  <2>2. Threads'
    BY <1>1, <1>4, StreamTyped, ThreadsKeep
  <2>3. Typed'
    BY <1>1, <1>3, <1>4 DEF SyncInductive, Typed, threadVars
  <2> QED BY <2>1, <2>2, <2>3 DEF SyncInductive
<1>5. CASE IdOf(Head(stream)) \notin {EventId, IdOf(sent)} /\ Loses(t, "mismatch")
  <2>1. lock' = None /\ lost' = lost \cup {sent}
    BY <1>2, <1>5 DEF Loses, Raises
  <2>2. Stream' /\ \E m \in lost : m < sent
    BY <1>1, <1>5, <2>1, MismatchStream
  <2> QED BY <1>1, <1>3, <1>5, <2>2, LosesKeeps
<1>6. CASE IdOf(Head(stream)) = IdOf(sent) /\ IdOf(sent) # EventId /\ Returns(t, Head(stream))
  <2>1. /\ Head(stream) = sent /\ sent <= served /\ \A m \in lost : EventIn(m, sent - 1)
    BY <1>1, <1>6, ReplyIsOwn
  <2>2. lock' = None /\ UNCHANGED lost
    BY <1>6 DEF Returns, Rejects, Raises
  <2>3. Stream'
    BY <1>1, <1>6, <2>2, ReplyStream
  <2>4. CASE Rejects(t)
    <3>1. Raises(t, "refused") /\ "refused" \in Failure /\ UNCHANGED lost
      BY <2>4 DEF Rejects, Failure
    <3>2. Threads'
      BY <1>1, <1>2, <3>1, ThreadsRaise
    <3>3. Typed'
      BY <1>1, <1>3, <3>1, RaisesTyped DEF SyncInductive, Typed
    <3> QED BY <2>3, <3>2, <3>3 DEF SyncInductive
  <2>5. CASE /\ todo' = [todo EXCEPT ![t] = @ - 1]
             /\ answers' = [answers EXCEPT ![t] = Append(@, Head(stream))]
             /\ result' = IF todo[t] = 1 THEN [result EXCEPT ![t] = "ok"] ELSE result
             /\ UNCHANGED calls
    <3>1. Threads'
      BY <1>1, <1>2, <2>1, <2>2, <2>5, ThreadsAnswered
    <3>2. /\ todo \in [Thread -> Nat] /\ result \in [Thread -> Result] /\ answers \in [Thread -> Seq(Nat)]
          /\ sent \in Nat
      BY DEF SyncInductive, Typed
    <3>3. todo' \in [Thread -> Nat]
      BY <1>2, <2>5, <3>2
    <3>4. result' \in [Thread -> Result]
      BY <2>5, <3>2 DEF Result
    <3>5. answers' \in [Thread -> Seq(Nat)]
      BY <2>1, <2>5, <3>2
    <3>6. Typed'
      BY <1>1, <1>3, <2>2, <2>5, <3>3, <3>4, <3>5 DEF SyncInductive, Typed
    <3> QED BY <2>3, <3>1, <3>6 DEF SyncInductive
  <2> QED BY <1>6, <2>4, <2>5 DEF Returns
<1> QED BY <1>2, <1>4, <1>5, <1>6 DEF Receive

LEMMA MisreadKeeps ==
  ASSUME SyncInductive, NEW t \in Thread, Misread(t)
  PROVE  SyncInductive'
<1>1. /\ Waits(t) /\ open /\ stream # <<>> /\ Head(stream) = Rest /\ Loses(t, "invalid")
      /\ UNCHANGED <<open, alive, sent, served, emitted>>
      /\ \/ UNCHANGED stream
         \/ stream' = Tail(stream)
         \/ Len(stream) > 1 /\ stream' = <<Rest>> \o Tail(Tail(stream))
  BY DEF Misread
<1>2. Stream'
  BY MisreadStream
<1>3. /\ stream \in Seq(Int) /\ Len(stream) \in Nat /\ served \in Nat /\ lost \subseteq 1 .. sent /\ sent \in Nat
      /\ \A i \in 1 .. Len(stream) : stream[i] \in -1 .. served
  BY StreamTyped DEF SyncInductive, Typed
<1>4. stream' \in Seq(Int) /\ \A i \in 1 .. Len(stream') : stream'[i] \in -1 .. served
  <2>1. CASE UNCHANGED stream
    BY <1>3, <2>1
  <2>2. CASE stream' = Tail(stream)
    BY <1>1, <2>2, TailTyped
  <2>3. CASE Len(stream) > 1 /\ stream' = <<Rest>> \o Tail(Tail(stream))
    <3>1. lost' # {}
      BY <1>1 DEF Loses
    <3>2. /\ Len(stream') \in Nat /\ stream'[1] = Rest
          /\ \A i \in 2 .. Len(stream') : stream'[i] = stream[i + 1] /\ i + 1 \in 2 .. Len(stream)
      BY <1>1, <2>3, <3>1, FramesRead
    <3>3. \A i \in 1 .. Len(stream') : stream'[i] \in -1 .. served
      <4> SUFFICES ASSUME NEW i \in 1 .. Len(stream') PROVE stream'[i] \in -1 .. served
        OBVIOUS
      <4>1. CASE i = 1
        BY <1>3, <3>2, <4>1 DEF Rest
      <4>2. CASE i \in 2 .. Len(stream')
        <5>1. stream'[i] = stream[i + 1] /\ i + 1 \in 1 .. Len(stream)
          BY <3>2, <4>2
        <5> QED BY <1>3, <5>1
      <4> QED BY <3>2, <4>1, <4>2
    <3>4. stream' \in Seq(Int)
      <4> DEFINE v == Tail(stream)
      <4>1. v \in Seq(Int) /\ Len(v) = Len(stream) - 1
        BY <1>1, <1>3, Shorter
      <4>2. v # <<>>
        <5> HIDE DEF v
        <5> QED BY <1>3, <2>3, <4>1, EmptySeq
      <4> DEFINE w == Tail(v)
      <4>3. w \in Seq(Int)
        <5> HIDE DEF v
        <5> QED BY <4>1, <4>2, Shorter
      <4>4. <<Rest>> \in Seq(Int)
        BY DEF Rest
      <4>5. <<Rest>> \o w \in Seq(Int)
        <5> HIDE DEF w
        <5> QED BY <4>3, <4>4, ConcatProperties
      <4> QED BY <2>3, <4>5
    <3> QED BY <3>3, <3>4
  <2> QED BY <1>1, <2>1, <2>2, <2>3
<1>5. \E m \in lost : m < sent
  <2>1. lost # {}
    <3>1. Head(stream) = stream[1] /\ 1 \in 1 .. Len(stream)
      BY <1>1, <1>3, Shorter
    <3> QED BY <1>1, <3>1 DEF SyncInductive, Stream, Frames
  <2>2. sent \notin lost
    BY <1>1, Waiting, Constants DEF SyncInductive, Threads, Locked
  <2>3. PICK m \in lost : TRUE
    BY <2>1
  <2>4. m \in 1 .. sent /\ m # sent
    BY <1>3, <2>2, <2>3
  <2>5. m < sent
    BY <1>3, <2>4
  <2> QED BY <2>5
<1> QED BY <1>1, <1>2, <1>4, <1>5, LosesKeeps

LEMMA TimeoutKeeps ==
  ASSUME SyncInductive, NEW t \in Thread, Timeout(t)
  PROVE  SyncInductive'
<1>1. /\ Waits(t) /\ Loses(t, "timeout") /\ UNCHANGED <<open, alive, sent, served, emitted>>
      /\ stream' = <<>> \/ stream' = <<Rest>>
  BY DEF Timeout
<1>2. Stream'
  BY TimeoutStream
<1>3. served \in Nat
  BY StreamTyped
<1>4. stream' \in Seq(Int) /\ \A i \in 1 .. Len(stream') : stream'[i] \in -1 .. served
  <2>1. CASE stream' = <<>>
    <3>1. Len(stream') = 0
      BY <2>1
    <3> QED BY <2>1, <3>1
  <2>2. CASE stream' = <<Rest>>
    <3>1. Len(stream') = 1 /\ stream'[1] = -1 /\ stream' \in Seq(Int)
      BY <2>2 DEF Rest
    <3> QED BY <1>3, <3>1
  <2> QED BY <1>1, <2>1, <2>2
<1> QED BY <1>1, <1>2, <1>4, LosesKeeps

LEMMA FailsKeeps ==
  ASSUME SyncInductive, NEW t \in Thread, Fails(t)
  PROVE  SyncInductive'
<1>1. /\ Waits(t) /\ Raises(t, "closed") /\ UNCHANGED <<open, alive, sent, served, emitted, stream, lost>>
      /\ "closed" \in Failure
  BY DEF Fails, Failure
<1>2. lock = t /\ todo[t] > 0
  BY <1>1, Waiting
<1>3. Threads'
  BY <1>1, <1>2, ThreadsRaise
<1>4. Typed'
  BY <1>1, RaisesTyped DEF SyncInductive, Typed
<1> QED BY <1>3, <1>4, FailsStream DEF SyncInductive

LEMMA SendKeeps ==
  ASSUME SyncInductive, NEW t \in Thread, Send(t)
  PROVE  SyncInductive'
<1>1. todo[t] > 0 /\ lock = None /\ UNCHANGED <<open, alive, served, emitted, stream, lost>>
  BY DEF Send
<1>2. CASE /\ open /\ lock' = t /\ sent' = sent + 1
           /\ calls' = [calls EXCEPT ![t] = Append(@, sent')]
           /\ UNCHANGED <<todo, answers, result>>
  <2>1. Threads'
    BY <1>1, <1>2, ThreadsSend
  <2>2. Stream'
    BY <1>1, <1>2, SendStream
  <2>3. Typed
    BY DEF SyncInductive
  <2>4. calls' \in [Thread -> Seq(Nat)]
    BY <1>2, <2>3 DEF Typed
  <2>5. lost' \subseteq 1 .. sent' /\ sent' \in Nat /\ served' <= sent'
    BY <1>1, <1>2, <2>3 DEF Typed
  <2>6. Typed'
    BY <1>1, <1>2, <2>3, <2>4, <2>5 DEF Typed
  <2> QED BY <2>1, <2>2, <2>6 DEF SyncInductive
<1>3. CASE (~open \/ ~alive) /\ Raises(t, "closed") /\ UNCHANGED sent
  <2>1. Threads'
    BY <1>1, <1>3, ThreadsRaise
  <2>2. lock' = lock
    BY <1>1, <1>3 DEF Raises
  <2>3. Stream'
    BY <1>1, <1>3, <2>2, StreamKeeps
  <2>4. Typed'
    BY <1>1, <1>3, RaisesTyped DEF SyncInductive, Typed, Failure
  <2> QED BY <2>1, <2>3, <2>4 DEF SyncInductive
<1> QED BY <1>2, <1>3 DEF Send

LEMMA BeginKeeps ==
  ASSUME SyncInductive, NEW t \in Thread, Begin(t)
  PROVE  SyncInductive'
<1>1. UNCHANGED <<open, alive, lock, sent, served, emitted, stream, lost>>
  BY DEF Begin
<1>2. Stream'
  BY <1>1, StreamKeeps
<1>3. /\ todo' \in [Thread -> Nat] /\ calls' \in [Thread -> Seq(Nat)] /\ answers' \in [Thread -> Seq(Nat)]
      /\ result' \in [Thread -> Result]
  <2>1. PICK n \in 1 .. MaxCount : todo' = [todo EXCEPT ![t] = n]
    BY DEF Begin
  <2>2. n \in Nat
    BY Constants
  <2> QED BY <2>1, <2>2 DEF Begin, SyncInductive, Typed, Result
<1>4. Typed'
  BY <1>1, <1>3 DEF SyncInductive, Typed
<1> QED BY <1>2, <1>4, ThreadsBegin DEF SyncInductive

LEMMA ServeKeeps ==
  ASSUME SyncInductive, Serve
  PROVE  SyncInductive'
<1>1. /\ served < sent /\ served' = served + 1 /\ UNCHANGED <<open, alive, lock, sent, emitted, threadVars, lost>>
      /\ stream' = Append(stream, served + 1) \/ stream' = stream
  BY DEF Serve
<1>2. Typed /\ Len(stream) \in Nat
  BY StreamTyped DEF SyncInductive
<1>3. served' \in Nat /\ served <= served' /\ served' <= sent'
  BY <1>1, <1>2 DEF Typed
<1>4. Threads'
  BY <1>1, <1>3, ThreadsKeep
<1>5. stream' \in Seq(Int) /\ \A i \in 1 .. Len(stream') : stream'[i] \in -1 .. served'
  <2>1. /\ stream \in Seq(Int) /\ served \in Nat /\ \A i \in 1 .. Len(stream) : stream[i] \in -1 .. served
    BY <1>2 DEF Typed
  <2>2. CASE stream' = Append(stream, served + 1)
    <3>1. /\ stream' \in Seq(Int) /\ Len(stream') = Len(stream) + 1 /\ stream'[Len(stream) + 1] = served + 1
          /\ \A i \in 1 .. Len(stream) : stream'[i] = stream[i]
      BY <2>1, <2>2, AppendProperties
    <3>2. \A i \in 1 .. Len(stream) : stream'[i] \in -1 .. served'
      BY <1>1, <2>1, <3>1
    <3>3. stream'[Len(stream) + 1] \in -1 .. served'
      BY <1>1, <2>1, <3>1
    <3>4. \A i \in 1 .. Len(stream') : i = Len(stream) + 1 \/ i \in 1 .. Len(stream)
      BY <1>2, <3>1
    <3> QED BY <3>1, <3>2, <3>3, <3>4
  <2>3. CASE stream' = stream
    BY <1>1, <2>1, <2>3
  <2> QED BY <1>1, <2>2, <2>3
<1>6. Typed'
  BY <1>1, <1>2, <1>3, <1>5 DEF Typed, threadVars
<1> QED BY <1>4, <1>6, ServeStream DEF SyncInductive

LEMMA EmitKeeps ==
  ASSUME SyncInductive, Emit
  PROVE  SyncInductive'
<1>1. /\ stream' = Append(stream, 0) /\ emitted' = emitted + 1
      /\ UNCHANGED <<open, alive, lock, sent, served, threadVars, lost>>
  BY DEF Emit, Event
<1>2. Typed /\ Len(stream) \in Nat
  BY StreamTyped DEF SyncInductive
<1>3. Threads'
  <2>1. served' \in Nat /\ served <= served'
    BY <1>1, <1>2 DEF Typed
  <2> QED BY <1>1, <2>1, ThreadsKeep
<1>4. stream' \in Seq(Int) /\ \A i \in 1 .. Len(stream') : stream'[i] \in -1 .. served'
  <2>1. /\ stream \in Seq(Int) /\ served \in Nat /\ \A i \in 1 .. Len(stream) : stream[i] \in -1 .. served
    BY <1>2 DEF Typed
  <2>2. /\ stream' \in Seq(Int) /\ Len(stream') = Len(stream) + 1 /\ stream'[Len(stream) + 1] = 0
        /\ \A i \in 1 .. Len(stream) : stream'[i] = stream[i]
    BY <1>1, <2>1, AppendProperties
  <2> QED BY <1>1, <1>2, <2>1, <2>2
<1>5. Typed'
  BY <1>1, <1>2, <1>4 DEF Typed, threadVars
<1> QED BY <1>3, <1>5, EmitStream DEF SyncInductive

LEMMA CloseKeeps ==
  ASSUME SyncInductive, Close
  PROVE  SyncInductive'
<1>1. /\ open' = FALSE /\ stream' = <<>> /\ UNCHANGED <<alive, lock, sent, served, emitted, threadVars, lost>>
  BY DEF Close
<1>2. Typed
  BY DEF SyncInductive
<1>3. Threads'
  <2>1. served' \in Nat /\ served <= served'
    BY <1>1, <1>2 DEF Typed
  <2> QED BY <1>1, <2>1, ThreadsKeep
<1>4. Len(stream') = 0 /\ stream' \in Seq(Int) /\ ~open'
  BY <1>1
<1>5. Stream'
  BY <1>1, <1>4 DEF Stream, Frames, Due, Pending, Behind
<1>6. open' \in BOOLEAN /\ \A i \in 1 .. Len(stream') : stream'[i] \in -1 .. served'
  <2>1. open' \in BOOLEAN
    BY <1>1
  <2>2. 1 .. Len(stream') = {}
    BY <1>4
  <2> QED BY <2>1, <2>2
<1>7. Typed'
  BY <1>1, <1>2, <1>4, <1>6 DEF Typed, threadVars
<1> QED BY <1>3, <1>5, <1>7 DEF SyncInductive

LEMMA DiesKeeps ==
  ASSUME SyncInductive, Dies \/ UNCHANGED vars
  PROVE  SyncInductive'
<1>1. UNCHANGED <<open, lock, sent, served, emitted, stream, threadVars, lost>> /\ (alive' => alive)
      /\ alive' \in BOOLEAN
  <2>1. CASE Dies
    <3>1. alive' = FALSE /\ UNCHANGED <<open, lock, sent, served, emitted, stream, threadVars, lost>>
      BY <2>1 DEF Dies
    <3> QED BY <3>1
  <2>2. CASE UNCHANGED vars
    <3>1. /\ alive' = alive /\ UNCHANGED <<open, lock, sent, served, emitted, stream, threadVars, lost>>
          /\ alive \in BOOLEAN
      BY <2>2 DEF vars, SyncInductive, Typed
    <3> QED BY <3>1
  <2> QED BY <2>1, <2>2
<1>2. Threads'
  <2>1. served' \in Nat /\ served <= served'
    BY <1>1 DEF SyncInductive, Typed
  <2> QED BY <1>1, <2>1, ThreadsKeep
<1>3. Stream'
  BY <1>1, StreamKeeps
<1>4. Typed'
  BY <1>1 DEF SyncInductive, Typed, threadVars
<1> QED BY <1>2, <1>3, <1>4 DEF SyncInductive

\* The invariant holds for any number of threads, of calls in an operation, and of requests.
THEOREM SyncInvariance == Spec => []SyncInductive
<1>1. Init => SyncInductive
  <2> SUFFICES ASSUME Init PROVE SyncInductive
    OBVIOUS
  <2>1. Typed
    BY FS_EmptySet DEF Init, Typed, Result
  <2>2. Len(stream) = 0 /\ stream = <<>>
    BY DEF Init
  <2>3. Stream
    <3>1. Frames
      BY <2>2 DEF Frames
    <3>2. Due
      BY <2>2 DEF Init, Due, Missed
    <3>3. Pending /\ Behind
      BY DEF Init, Pending, Behind
    <3> QED BY <3>1, <3>2, <3>3 DEF Stream
  <2>4. ASSUME NEW t \in Thread PROVE Len(calls[t]) = 0 /\ Len(answers[t]) = 0 /\ result[t] = None /\ todo[t] = 0
    BY DEF Init
  <2>5. Locked
    BY <2>4, Constants DEF Init, Locked
  <2>6. Room
    <3>1. Active = {}
      BY <2>4 DEF Active
    <3>2. Cardinality(lost) = 0 /\ Cardinality(Active) = 0
      BY <3>1, FS_EmptySet DEF Init
    <3>3. Cardinality(lost) + Cardinality(Active) = 0
      BY <3>2
    <3> QED BY <3>3, Constants DEF Room
  <2>7. ASSUME NEW t \in Thread PROVE Taken(t) /\ Told(t)
    <3>1. result[t] \notin {"ok", "mismatch", "invalid"}
      BY <2>4, Constants
    <3> QED BY <2>4, <3>1 DEF Taken, Told
  <2> QED BY <2>1, <2>3, <2>5, <2>6, <2>7 DEF SyncInductive, Threads
<1>2. SyncInductive /\ [Next]_vars => SyncInductive'
  <2> SUFFICES ASSUME SyncInductive, [Next]_vars PROVE SyncInductive'
    OBVIOUS
  <2>1. CASE Dies \/ UNCHANGED vars
    BY <2>1, DiesKeeps
  <2>2. CASE Close \/ Serve \/ Emit
    BY <2>2, CloseKeeps, ServeKeeps, EmitKeeps
  <2>3. ASSUME NEW t \in Thread, Begin(t) \/ Send(t) \/ Ends(t) PROVE SyncInductive'
    BY <2>3, BeginKeeps, SendKeeps, ReceiveKeeps, MisreadKeeps, TimeoutKeeps, FailsKeeps DEF Ends
  <2> QED BY <2>1, <2>2, <2>3 DEF Next
<1> QED BY <1>1, <1>2, PTL DEF Spec

\* The frames an operation has taken for replies are those to its own requests, in order,
\* whatever other calls have left in the stream.
THEOREM RepliesMatch == Spec => []Correlated
<1>1. SyncInductive => Correlated
  <2> SUFFICES ASSUME SyncInductive, NEW t \in Thread
               PROVE  /\ \E n \in {0, 1} : answers[t] = SubSeq(calls[t], 1, Len(calls[t]) - n)
                      /\ result[t] = "ok" => /\ answers[t] = calls[t]
                                             /\ \A k \in 1 .. Len(calls[t]) : calls[t][k] <= served
    BY DEF Correlated
  <2> DEFINE c == calls[t]
             a == answers[t]
  <2>1. /\ c \in Seq(Nat) /\ a \in Seq(Nat) /\ Len(c) \in Nat /\ Len(a) \in Nat
    BY LenProperties DEF SyncInductive, Typed
  <2>2. /\ Len(a) <= Len(c) /\ Len(c) <= Len(a) + 1
        /\ \A k \in 1 .. Len(a) : a[k] = c[k] /\ a[k] <= served
        /\ result[t] = "ok" => Len(a) = Len(c)
    BY DEF SyncInductive, Threads, Taken
  <2> HIDE DEF c, a
  <2>3. a = SubSeq(c, 1, Len(a))
    <3> DEFINE b == SubSeq(c, 1, Len(a))
    <3>1. b \in Seq(Nat) /\ Len(b) = Len(a) /\ \A k \in 1 .. Len(a) : b[k] = c[k]
      BY <2>1, <2>2, SubSeqProperties
    <3> HIDE DEF b
    <3>2. a = b
      BY <2>1, <2>2, <3>1, SeqEqual
    <3> QED BY <3>2 DEF b
  <2>4. PICK n \in {0, 1} : Len(a) = Len(c) - n
    BY <2>1, <2>2
  <2>5. a = SubSeq(c, 1, Len(c) - n)
    BY <2>3, <2>4
  <2>6. ASSUME result[t] = "ok" PROVE a = c /\ \A k \in 1 .. Len(c) : c[k] <= served
    BY <2>1, <2>2, <2>6, SeqEqual
  <2> QED BY <2>5, <2>6 DEF a, c
<1> QED BY <1>1, SyncInvariance, PTL

\* A failure that tells of a stream out of step comes after a lost call, and no call made
\* after a lost one succeeds before a request has had the id of events.
THEOREM OutOfStepIsTold == Spec => []InStep
<1>1. SyncInductive => InStep
  BY DEF SyncInductive, Threads, Told, EventIn, InStep
<1> QED BY <1>1, SyncInvariance, PTL
=============================================================================
