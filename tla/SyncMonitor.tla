----------------------------- MODULE SyncMonitor -----------------------------
(***************************************************************************)
(* BinaryMonitor of src/vice_next_mcp/monitor_sync.py: operations of       *)
(* several threads, each a series of calls on one connection to VICE.      *)
(*                                                                         *)
(* A call holds the lock from its request to its reply, an operation does  *)
(* not.  VICE carries requests out in order, and answers late, in the      *)
(* middle of events, or not at all.  Requests are numbered as they are     *)
(* sent; the id on the wire is that number modulo IdSpace.                 *)
(***************************************************************************)
EXTENDS Integers, FiniteSets, SequencesExt

CONSTANTS
  Thread,   \* callers
  IdSpace,  \* ids are 0 .. IdSpace - 1; the last one is that of events
  MaxCount, \* bound: calls of an operation
  MaxSent,  \* bound: calls
  MaxLost,  \* bound: an operation starts after fewer calls than this have lost their reply
  MaxEmitted, \* bound: events
  None

ASSUME SyncMonitorConstants ==
  /\ {IdSpace, MaxCount} \subseteq Nat \ {0} /\ {MaxSent, MaxLost, MaxEmitted} \subseteq Nat
  /\ IsFiniteSet(Thread) /\ Cardinality(Thread) + MaxLost <= IdSpace
  /\ None \notin Thread \cup {"ok", "mismatch", "invalid"}

VARIABLES
  open,     \* the socket is open
  alive,    \* so is VICE's end
  lock,     \* the thread whose call is in progress
  sent,     \* requests sent, the number of the last one
  served,   \* requests VICE has carried out
  emitted,  \* events VICE has sent
  stream,   \* frames on their way to the client
  todo,     \* per thread: calls its operation has yet to make
  calls,    \* per thread: the requests of its operation
  answers,  \* per thread: the frames it took for their replies
  result,   \* per thread: how its operation ended
  lost      \* calls that ended without their reply, on an open connection

threadVars == <<todo, calls, answers, result>>
vars == <<open, alive, lock, sent, served, emitted, stream, threadVars, lost>>

\* A frame is the number of the request it answers, or one of these.
Event == 0
Rest == -1  \* what a timeout inside a frame has left of it

EventId == IdSpace - 1
IdOf(frame) == IF frame = Event THEN EventId ELSE frame % IdSpace

TypeOK ==
  /\ open \in BOOLEAN /\ alive \in BOOLEAN
  /\ lock \in Thread \cup {None}
  /\ sent \in 0 .. MaxSent /\ served \in 0 .. sent /\ emitted \in 0 .. MaxEmitted
  /\ stream \in Seq({Rest, Event} \cup 1 .. sent)
  /\ todo \in [Thread -> 0 .. MaxCount]
  /\ calls \in [Thread -> Seq(1 .. sent)] /\ answers \in [Thread -> Seq(1 .. sent)]
  /\ result \in [Thread -> {None, "ok", "refused", "mismatch", "invalid", "timeout", "closed"}]
  /\ lost \subseteq 1 .. sent

Init ==
  /\ open = TRUE /\ alive = TRUE /\ lock = None
  /\ sent = 0 /\ served = 0 /\ emitted = 0 /\ stream = <<>> /\ lost = {}
  /\ todo = [t \in Thread |-> 0] /\ result = [t \in Thread |-> None]
  /\ calls = [t \in Thread |-> <<>>] /\ answers = [t \in Thread |-> <<>>]

-----------------------------------------------------------------------------
(* Operations *)

\* memory(), ping() and most others make one call, registers() and screenshot_png() two,
\* registers_set() up to four, step_instruction() as many as it is told.
Begin(t) ==
  /\ todo[t] = 0 /\ Cardinality(lost) < MaxLost
  /\ \E n \in 1 .. MaxCount :
       /\ sent + MapThenSumSet(LAMBDA s : todo[s], Thread) + n <= MaxSent
       /\ todo' = [todo EXCEPT ![t] = n]
  /\ calls' = [calls EXCEPT ![t] = <<>>] /\ answers' = [answers EXCEPT ![t] = <<>>]
  /\ result' = [result EXCEPT ![t] = None]
  /\ UNCHANGED <<open, alive, lock, sent, served, emitted, stream, lost>>

\* Mutant of Raises: a failed call leaves the lock to nobody.
RaisesLocked(t, how) ==
  /\ todo' = [todo EXCEPT ![t] = 0] /\ result' = [result EXCEPT ![t] = how]
  /\ UNCHANGED <<lock, calls, answers>>

\* An exception ends the operation; the lock is released.
Raises(t, how) ==
  /\ lock' = None
  /\ todo' = [todo EXCEPT ![t] = 0] /\ result' = [result EXCEPT ![t] = how]
  /\ UNCHANGED <<calls, answers>>

Loses(t, how) == Raises(t, how) /\ lost' = lost \cup {Last(calls[t])}

-----------------------------------------------------------------------------
(* call() *)

Waits(t) == todo[t] > 0 /\ Len(calls[t]) > Len(answers[t])

\* Mutant of Send: the lock covers sendall() alone.
SendUnlocked(t) ==
  /\ todo[t] > 0 /\ ~Waits(t) /\ open
  /\ sent' = sent + 1 /\ calls' = [calls EXCEPT ![t] = Append(@, sent')]
  /\ UNCHANGED <<open, alive, lock, served, emitted, stream, todo, answers, result, lost>>

\* sendall(), on a socket that stop() may have closed, or VICE's death; it passes the whole
\* request or none of it.  The id that a failing one spends is left out: none of the ids
\* after it is answered.
Send(t) ==
  /\ todo[t] > 0 /\ lock = None /\ ~Waits(t)
  /\ \/ /\ open /\ lock' = t /\ sent' = sent + 1
        /\ calls' = [calls EXCEPT ![t] = Append(@, sent')]
        /\ UNCHANGED <<todo, answers, result>>
     \/ (~open \/ ~alive) /\ Raises(t, "closed") /\ UNCHANGED sent
  /\ UNCHANGED <<open, alive, served, emitted, stream, lost>>

\* The reply reports an error, or its body is not one the operation can decode.
Rejects(t) == Raises(t, "refused") /\ UNCHANGED lost

\* The frame is taken for the reply.
Returns(t, frame) ==
  \/ /\ lock' = None /\ todo' = [todo EXCEPT ![t] = @ - 1]
     /\ answers' = [answers EXCEPT ![t] = Append(@, frame)]
     /\ result' = IF todo[t] = 1 THEN [result EXCEPT ![t] = "ok"] ELSE result
     /\ UNCHANGED <<calls, lost>>
  \/ Rejects(t)

\* Mutant of Receive: the request id of a reply is not compared.
ReceiveAny(t) ==
  /\ Waits(t) /\ open /\ stream # <<>> /\ Head(stream) # Rest
  /\ stream' = Tail(stream)
  /\ IF IdOf(Head(stream)) = EventId THEN UNCHANGED <<lock, threadVars, lost>> ELSE Returns(t, Head(stream))
  /\ UNCHANGED <<open, alive, sent, served, emitted>>

\* A frame is read: an event, or what should be the reply.
Receive(t) ==
  /\ Waits(t) /\ open /\ stream # <<>> /\ Head(stream) # Rest
  /\ stream' = Tail(stream)
  /\ LET frame == Head(stream)
         rid == IdOf(Last(calls[t]))
     IN \/ IdOf(frame) = EventId /\ UNCHANGED <<lock, threadVars, lost>>
        \/ IdOf(frame) \notin {EventId, rid} /\ Loses(t, "mismatch")
        \/ IdOf(frame) = rid /\ rid # EventId /\ Returns(t, frame)
  /\ UNCHANGED <<open, alive, sent, served, emitted>>

\* Twelve bytes from the rest of a frame are no header: no body VICE sends is taken to
\* have 02 02 where they begin.  They may leave some of the rest, end with it, or reach
\* into the next frame.
Misread(t) ==
  /\ Waits(t) /\ open /\ stream # <<>> /\ Head(stream) = Rest
  /\ \/ UNCHANGED stream
     \/ stream' = Tail(stream)
     \/ Len(stream) > 1 /\ stream' = <<Rest>> \o Tail(Tail(stream))
  /\ Loses(t, "invalid")
  /\ UNCHANGED <<open, alive, sent, served, emitted>>

\* recv() times out, between two frames or inside the last one that VICE has begun.
Timeout(t) ==
  /\ Waits(t) /\ open /\ alive
  /\ \/ stream = <<>> /\ UNCHANGED stream
     \/ Len(stream) = 1 /\ stream' = <<Rest>>
     \/ stream = <<Rest>> /\ stream' = <<>>
  /\ Loses(t, "timeout")
  /\ UNCHANGED <<open, alive, sent, served, emitted>>

\* recv() returns nothing, or fails because the socket has been closed.
Fails(t) ==
  /\ Waits(t) /\ (~open \/ (~alive /\ stream = <<>>))
  /\ Raises(t, "closed")
  /\ UNCHANGED <<open, alive, sent, served, emitted, stream, lost>>

\* close(), called by stop() without the lock.
Close ==
  /\ open /\ open' = FALSE /\ stream' = <<>>
  /\ UNCHANGED <<alive, lock, sent, served, emitted, threadVars, lost>>

-----------------------------------------------------------------------------
(* VICE *)

Serve ==
  /\ alive /\ served < sent
  /\ served' = served + 1
  /\ stream' = IF open THEN Append(stream, served') ELSE stream
  /\ UNCHANGED <<open, alive, lock, sent, emitted, threadVars, lost>>

Emit ==
  /\ alive /\ open /\ emitted < MaxEmitted
  /\ emitted' = emitted + 1 /\ stream' = Append(stream, Event)
  /\ UNCHANGED <<open, alive, lock, sent, served, threadVars, lost>>

Dies ==
  /\ alive /\ alive' = FALSE
  /\ UNCHANGED <<open, lock, sent, served, emitted, stream, threadVars, lost>>

-----------------------------------------------------------------------------

Ends(t) == Receive(t) \/ Misread(t) \/ Timeout(t) \/ Fails(t)

Next == Close \/ Serve \/ Emit \/ Dies \/ \E t \in Thread : Begin(t) \/ Send(t) \/ Ends(t)

Spec == Init /\ [][Next]_vars

\* Timeouts fire, and a thread gets the lock if it is released again and again.
FairSpec == Spec /\ \A t \in Thread : SF_vars(Send(t)) /\ WF_vars(Ends(t))

-----------------------------------------------------------------------------
(* Properties *)

\* The frames an operation took for replies are those to its own requests, in order, on
\* whatever number of frames other calls have left in the stream; VICE may have carried
\* out at most one request of which the operation does not know.
Correlated ==
  \A t \in Thread :
    /\ \E n \in {0, 1} : answers[t] = SubSeq(calls[t], 1, Len(calls[t]) - n)
    /\ result[t] = "ok" => answers[t] = calls[t] /\ \A k \in 1 .. Len(calls[t]) : calls[t][k] <= served

\* The client gets out of step by a timeout only, however calls of several threads and
\* events interleave; then no call succeeds before one has had the id of events, so no
\* failure is followed by a result that does not tell of it.
InStep ==
  /\ \A t \in Thread : result[t] \in {"mismatch", "invalid"} => \E m \in lost : m < Last(calls[t])
  /\ \A t \in Thread : \A k \in 1 .. Len(answers[t]) : \A m \in lost :
       m < answers[t][k] => \E e \in m .. answers[t][k] - 1 : e % IdSpace = EventId

\* Every operation ends.
OperationsEnd == \A t \in Thread : todo[t] > 0 ~> todo[t] = 0
=============================================================================
