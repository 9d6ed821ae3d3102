-------------------------- MODULE MonitorTransport --------------------------
(***************************************************************************)
(* BinaryMonitorTransport of src/vice_next_mcp/monitor.py: requests of     *)
(* several asyncio tasks multiplexed over one VICE monitor connection.     *)
(*                                                                         *)
(* An action is the code between two awaits that suspend: a task waits for *)
(* a slot, for the write lock, for drain() or for its reply, while one     *)
(* read loop dispatches replies and events and connect(), close() and      *)
(* reconnect() replace the connection.  VICE answers in any order, late or *)
(* never.                                                                  *)
(***************************************************************************)
EXTENDS Integers, Sequences, FiniteSets, FiniteSetsExt, SequencesExt

CONSTANTS
  Req,         \* calls of execute()
  MaxPending,  \* the number of slots
  MaxEvents,   \* the size of the event queue
  IdSpace,     \* request ids are 0 .. IdSpace - 1 (EVENT_ID in the code)
  MaxConn,     \* bound: connections opened
  MaxEmitted,  \* bound: events VICE emits
  None

ASSUME TransportConstants ==
  /\ {MaxPending, MaxEvents, IdSpace} \subseteq Nat \ {0}
  /\ {MaxConn, MaxEmitted} \subseteq Nat
  /\ MaxPending <= IdSpace
  /\ IsFiniteSet(Req) /\ None \notin Req

VARIABLES
  state,       \* State: disconnected, connected, failed or closed
  life,        \* what the holder of _life is doing
  conn,        \* the connection _writer belongs to; 0 is None
  open,        \* _writer has not been closed
  reader,      \* the task of the read loop
  opened,      \* how many connections were made
  slots,       \* the value of the semaphore _slots
  slotQ,       \* the tasks waiting for it
  writing,     \* the task inside "async with self._write"
  lockQ,       \* the tasks waiting for _write
  nextId,      \* _next
  pending,     \* the requests in _pending, under rid
  pc, rid, fut, got, res,  \* per request: place, id, future, its reply, outcome
  admittedOn, sentOn,      \* per request: connection at admission and at the write
  unanswered,  \* requests VICE has received on conn and not answered
  events, emitted, dropped, consumed  \* _events, and counters of VICE's events

lifeVars == <<state, life, conn, open, reader, opened>>
queueVars == <<slots, slotQ, writing, lockQ>>
eventVars == <<events, emitted, dropped, consumed>>
callVars == <<nextId, pending, pc, rid, fut, got, res, admittedOn, sentOn, unanswered>>
vars == <<lifeVars, queueVars, callVars, eventVars>>

\* The calls that hold a slot.
InFlight == {r \in Req : pc[r] \in {"lock", "drain", "reply"}}

TypeOK ==
  /\ state \in {"disconnected", "connected", "failed", "closed"}
  /\ life \in {"free", "opening", "cancelling", "flushing"}
  /\ conn \in 0 .. MaxConn /\ opened \in 0 .. MaxConn /\ open \in BOOLEAN
  /\ reader \in {"none", "running", "cancelled"}
  /\ slots \in 0 .. MaxPending
  /\ writing \in Req \cup {None}
  /\ slotQ \in Seq(Req) /\ lockQ \in Seq(Req)
  /\ nextId \in 0 .. IdSpace - 1
  /\ pending \subseteq Req /\ unanswered \subseteq Req
  /\ pc \in [Req -> {"new", "slot", "lock", "drain", "reply", "done"}]
  /\ rid \in [Req -> 0 .. IdSpace - 1]
  /\ fut \in [Req -> {"none", "open", "answered", "lost"}]
  /\ got \in [Req -> Req \cup {None}]
  /\ res \in [Req -> {"none", "reply", "error", "timeout", "cancelled", "broken"}]
  /\ admittedOn \in [Req -> 0 .. MaxConn] /\ sentOn \in [Req -> 0 .. MaxConn]
  /\ events \in Seq(1 .. MaxEmitted) /\ Len(events) <= MaxEvents
  /\ {emitted, dropped, consumed} \subseteq 0 .. MaxEmitted

Init ==
  /\ state = "disconnected" /\ life = "free" /\ conn = 0 /\ open = FALSE
  /\ reader = "none" /\ opened = 0
  /\ slots = MaxPending /\ slotQ = <<>> /\ writing = None /\ lockQ = <<>>
  /\ nextId = 0 /\ pending = {} /\ unanswered = {}
  /\ pc = [r \in Req |-> "new"] /\ rid = [r \in Req |-> 0]
  /\ fut = [r \in Req |-> "none"] /\ got = [r \in Req |-> None]
  /\ res = [r \in Req |-> "none"]
  /\ admittedOn = [r \in Req |-> 0] /\ sentOn = [r \in Req |-> 0]
  /\ events = <<>> /\ emitted = 0 /\ dropped = 0 /\ consumed = 0

-----------------------------------------------------------------------------
(* execute() *)

\* execute() is called: "await self._slots.acquire()" serves its waiters in order.
Call(r) ==
  /\ pc[r] = "new"
  /\ pc' = [pc EXCEPT ![r] = "slot"]
  /\ slotQ' = Append(slotQ, r)
  /\ UNCHANGED <<lifeVars, slots, writing, lockQ, nextId, pending, rid, fut, got, res,
                 admittedOn, sentOn, unanswered, eventVars>>

\* Mutant of NewId: ids are not looked up in _pending.
NewIdBlind ==
  (nextId + 1) % IdSpace

\* _request_id: the next id that is not in _pending.
NewId ==
  LET after(k) == (nextId + k) % IdSpace
      free == {k \in 1 .. IdSpace : \A q \in pending : rid[q] # after(k)}
  IN after(Min(free))

\* write() and drain(), with the write lock.  drain() suspends while the transport's
\* buffer is full, and when the connection is closing; write() is then ignored.
Transmit(r) ==
  /\ \E suspends \in BOOLEAN :
       /\ ~open => suspends
       /\ pc' = [pc EXCEPT ![r] = IF suspends THEN "drain" ELSE "reply"]
       /\ writing' = IF suspends THEN r ELSE None
  /\ IF open
     THEN sentOn' = [sentOn EXCEPT ![r] = conn] /\ unanswered' = unanswered \cup {r}
     ELSE UNCHANGED <<sentOn, unanswered>>

\* Mutant of Finish: a cancelled call does not give its slot back.
FinishUncancelled(r, how) ==
  /\ pc' = [pc EXCEPT ![r] = "done"]
  /\ res' = [res EXCEPT ![r] = how]
  /\ pending' = {q \in pending : rid[q] # rid[r]}
  /\ slots' = IF how = "cancelled" THEN slots ELSE slots + 1

\* The finally clause: whatever is under the id leaves _pending, the slot is free.
Finish(r, how) ==
  /\ pc' = [pc EXCEPT ![r] = "done"]
  /\ res' = [res EXCEPT ![r] = how]
  /\ pending' = {q \in pending : rid[q] # rid[r]}
  /\ slots' = slots + 1

\* A slot is free: the request is refused, or registered and written; it waits for
\* the write lock when another request has it.
Admit(r) ==
  /\ pc[r] = "slot" /\ slots > 0 /\ Head(slotQ) = r
  /\ slotQ' = Tail(slotQ)
  /\ \/ /\ state # "connected" \/ conn = 0
        /\ pc' = [pc EXCEPT ![r] = "done"]
        /\ res' = [res EXCEPT ![r] = "error"]
        /\ UNCHANGED <<slots, writing, lockQ, nextId, pending, rid, fut, admittedOn,
                       sentOn, unanswered>>
     \/ /\ state = "connected" /\ conn # 0
        /\ slots' = slots - 1
        /\ nextId' = NewId
        /\ rid' = [rid EXCEPT ![r] = NewId]
        /\ pending' = pending \cup {r}
        /\ fut' = [fut EXCEPT ![r] = "open"]
        /\ admittedOn' = [admittedOn EXCEPT ![r] = conn]
        /\ IF writing = None /\ lockQ = <<>>
           THEN Transmit(r) /\ UNCHANGED lockQ
           ELSE /\ lockQ' = Append(lockQ, r)
                /\ pc' = [pc EXCEPT ![r] = "lock"]
                /\ UNCHANGED <<writing, sentOn, unanswered>>
        /\ UNCHANGED res
  /\ UNCHANGED <<lifeVars, got, eventVars>>

\* The write lock comes free.  self._writer is read again: after close() it is None
\* and the attribute access fails; after connect() it is the new connection's.
Acquire(r) ==
  /\ writing = None /\ lockQ # <<>> /\ Head(lockQ) = r
  /\ lockQ' = Tail(lockQ)
  /\ \/ conn # 0 /\ Transmit(r) /\ UNCHANGED <<slots, pending, res>>
     \/ conn = 0 /\ Finish(r, "broken") /\ UNCHANGED <<writing, sentOn, unanswered>>
  /\ UNCHANGED <<lifeVars, slotQ, nextId, rid, fut, got, admittedOn, eventVars>>

\* Mutant of Drained: the write lock is not released when drain() raises.
DrainedLocked(r) ==
  /\ pc[r] = "drain"
  /\ \/ /\ sentOn[r] # 0
        /\ pc' = [pc EXCEPT ![r] = "reply"]
        /\ writing' = None
        /\ UNCHANGED <<slots, pending, res>>
     \/ /\ ~(open /\ sentOn[r] = conn)
        /\ Finish(r, "error") /\ UNCHANGED writing
  /\ UNCHANGED <<lifeVars, slotQ, lockQ, nextId, rid, fut, got, admittedOn, sentOn,
                 unanswered, eventVars>>

\* drain() returns, or raises when the connection of the write is gone.
Drained(r) ==
  /\ pc[r] = "drain"
  /\ writing' = None
  /\ \/ /\ sentOn[r] # 0
        /\ pc' = [pc EXCEPT ![r] = "reply"]
        /\ UNCHANGED <<slots, pending, res>>
     \/ /\ ~(open /\ sentOn[r] = conn)
        /\ Finish(r, "error")
  /\ UNCHANGED <<lifeVars, slotQ, lockQ, nextId, rid, fut, got, admittedOn, sentOn,
                 unanswered, eventVars>>

GetReply(r) ==
  /\ pc[r] = "reply" /\ fut[r] \in {"answered", "lost"}
  /\ Finish(r, IF fut[r] = "answered" THEN "reply" ELSE "error")
  /\ UNCHANGED <<lifeVars, slotQ, writing, lockQ, nextId, rid, fut, got, admittedOn,
                 sentOn, unanswered, eventVars>>

\* wait_for gives up, possibly after the reply has come but before the task resumes.
Timeout(r) ==
  /\ pc[r] = "reply"
  /\ Finish(r, "timeout")
  /\ UNCHANGED <<lifeVars, slotQ, writing, lockQ, nextId, rid, fut, got, admittedOn,
                 sentOn, unanswered, eventVars>>

\* A cancelled task leaves the queue of a semaphore or lock.
Without(queue, r) ==
  IF \E i \in DOMAIN queue : queue[i] = r
  THEN RemoveAt(queue, CHOOSE i \in DOMAIN queue : queue[i] = r)
  ELSE queue

\* Mutant of CancelWaiter: the acquire() is inside the try block.
CancelWaiterReleasing(r) ==
  /\ pc[r] = "slot"
  /\ pc' = [pc EXCEPT ![r] = "done"]
  /\ res' = [res EXCEPT ![r] = "cancelled"]
  /\ slotQ' = Without(slotQ, r) /\ slots' = slots + 1
  /\ UNCHANGED <<lifeVars, writing, lockQ, nextId, pending, rid, fut, got,
                 admittedOn, sentOn, unanswered, eventVars>>

\* The task is cancelled while it waits for a slot, before the try block.
CancelWaiter(r) ==
  /\ pc[r] = "slot"
  /\ pc' = [pc EXCEPT ![r] = "done"]
  /\ res' = [res EXCEPT ![r] = "cancelled"]
  /\ slotQ' = Without(slotQ, r)
  /\ UNCHANGED <<lifeVars, slots, writing, lockQ, nextId, pending, rid, fut, got,
                 admittedOn, sentOn, unanswered, eventVars>>

\* The task is cancelled later: the finally clause runs, and the lock is released.
Cancel(r) ==
  /\ r \in InFlight
  /\ Finish(r, "cancelled")
  /\ lockQ' = Without(lockQ, r)
  /\ writing' = IF writing = r THEN None ELSE writing
  /\ UNCHANGED <<lifeVars, slotQ, nextId, rid, fut, got, admittedOn, sentOn, unanswered,
                 eventVars>>

-----------------------------------------------------------------------------
(* _read_loop() *)

\* Every future in _pending that is not done fails.
Lose(futures) ==
  fut' = [r \in Req |-> IF r \in futures /\ fut[r] = "open" THEN "lost" ELSE fut[r]]

\* Mutant of Fail: the futures are left to their timeouts.
FailSilent ==
  /\ state' = "failed" /\ reader' = "none" /\ open' = FALSE
  /\ UNCHANGED <<life, conn, opened, fut, got>>

\* The except clause of the loop.
Fail ==
  /\ state' = "failed" /\ reader' = "none" /\ open' = FALSE
  /\ Lose(pending)
  /\ UNCHANGED <<life, conn, opened, got>>

\* Mutant of ReadReply: a reply is taken for that of the oldest request.
ReadReplyInOrder(q) ==
  /\ reader = "running" /\ q \in unanswered
  /\ unanswered' = unanswered \ {q}
  /\ LET hit == {r \in pending : \A s \in pending : rid[r] <= rid[s]}
     IN \/ hit = {} /\ Fail
        \/ \E r \in hit :
             /\ fut' = [fut EXCEPT ![r] = IF @ = "open" THEN "answered" ELSE @]
             /\ got' = [got EXCEPT ![r] = IF fut[r] = "open" THEN q ELSE @]
             /\ UNCHANGED lifeVars
  /\ UNCHANGED <<queueVars, nextId, pending, pc, rid, res, admittedOn, sentOn, eventVars>>

\* VICE answers q: its id selects the future; an unknown id fails the connection.
ReadReply(q) ==
  /\ reader = "running" /\ q \in unanswered
  /\ unanswered' = unanswered \ {q}
  /\ LET hit == {r \in pending : rid[r] = rid[q]}
     IN \/ hit = {} /\ Fail
        \/ \E r \in hit :
             /\ fut' = [fut EXCEPT ![r] = IF @ = "open" THEN "answered" ELSE @]
             /\ got' = [got EXCEPT ![r] = IF fut[r] = "open" THEN q ELSE @]
             /\ UNCHANGED lifeVars
  /\ UNCHANGED <<queueVars, nextId, pending, pc, rid, res, admittedOn, sentOn, eventVars>>

\* Mutant of ReadEvent: dropped_events is not incremented.
ReadEventUncounted ==
  /\ reader = "running" /\ emitted < MaxEmitted
  /\ emitted' = emitted + 1
  /\ IF Len(events) = MaxEvents
     THEN events' = Append(Tail(events), emitted') /\ UNCHANGED dropped
     ELSE events' = Append(events, emitted') /\ UNCHANGED dropped
  /\ UNCHANGED <<lifeVars, queueVars, callVars, consumed>>

\* An event: the oldest is dropped when the queue is full.
ReadEvent ==
  /\ reader = "running" /\ emitted < MaxEmitted
  /\ emitted' = emitted + 1
  /\ IF Len(events) = MaxEvents
     THEN events' = Append(Tail(events), emitted') /\ dropped' = dropped + 1
     ELSE events' = Append(events, emitted') /\ UNCHANGED dropped
  /\ UNCHANGED <<lifeVars, queueVars, callVars, consumed>>

\* End of stream, a reset, or a frame that is not a monitor frame.
ReadFails ==
  /\ reader = "running"
  /\ Fail
  /\ UNCHANGED <<queueVars, nextId, pending, pc, rid, res, admittedOn, sentOn, unanswered,
                 eventVars>>

\* next_event()
TakeEvent ==
  /\ events # <<>>
  /\ events' = Tail(events) /\ consumed' = consumed + 1
  /\ UNCHANGED <<lifeVars, queueVars, callVars, emitted, dropped>>

-----------------------------------------------------------------------------
(* connect(), close(), reconnect(): the holder of _life *)

StartConnect ==
  /\ life = "free" /\ state # "connected"
  /\ life' = "opening"
  /\ UNCHANGED <<state, conn, open, reader, opened, queueVars, callVars, eventVars>>

\* Opening a connection takes the event loop several rounds, so a task woken by the
\* release of the write lock runs before it is done.
Connected ==
  /\ life = "opening" /\ opened < MaxConn
  /\ writing = None => lockQ = <<>>
  /\ opened' = opened + 1 /\ conn' = opened' /\ open' = TRUE
  /\ state' = "connected" /\ reader' = "running" /\ life' = "free"
  /\ unanswered' = {}
  /\ UNCHANGED <<queueVars, nextId, pending, pc, rid, fut, got, res, admittedOn, sentOn,
                 eventVars>>

ConnectFails ==
  /\ life = "opening"
  /\ state' = "failed" /\ life' = "free"
  /\ UNCHANGED <<conn, open, reader, opened, queueVars, callVars, eventVars>>

\* reconnect() is close() followed by this assignment and connect().
EndsAs == {"closed", "disconnected"}

\* close() after the read loop has ended, up to wait_closed().
Detach ==
  /\ Lose(pending) /\ pending' = {} /\ unanswered' = {}
  /\ reader' = "none" /\ conn' = 0 /\ open' = FALSE
  /\ IF conn # 0
     THEN life' = "flushing" /\ UNCHANGED state
     ELSE life' = "free" /\ state' \in EndsAs

\* Mutant of StartClose: _pending is cleared while the read loop still runs.
StartCloseEarly ==
  /\ life = "free"
  /\ \/ /\ reader = "running"
        /\ life' = "cancelling" /\ Lose(pending) /\ pending' = {}
        /\ UNCHANGED <<state, conn, open, reader, unanswered>>
     \/ reader # "running" /\ Detach
  /\ UNCHANGED <<opened, queueVars, nextId, pc, rid, got, res, admittedOn, sentOn, eventVars>>

\* close() cancels a running read loop and waits for it; requests may still come in.
StartClose ==
  /\ life = "free"
  /\ \/ /\ reader = "running"
        /\ reader' = "cancelled" /\ life' = "cancelling"
        /\ UNCHANGED <<state, conn, open, pending, fut, unanswered>>
     \/ reader # "running" /\ Detach
  /\ UNCHANGED <<opened, queueVars, nextId, pc, rid, got, res, admittedOn, sentOn, eventVars>>

ReaderEnds ==
  /\ life = "cancelling"
  /\ Detach
  /\ UNCHANGED <<opened, queueVars, nextId, pc, rid, got, res, admittedOn, sentOn, eventVars>>

\* wait_closed() is over, or it is cancelled: then state stays what it was, and while
\* it says "connected" connect() has nothing to do and every request is refused.
Closed ==
  /\ life = "flushing"
  /\ life' = "free"
  /\ state' \in EndsAs \/ UNCHANGED state
  /\ UNCHANGED <<conn, open, reader, opened, queueVars, callVars, eventVars>>

-----------------------------------------------------------------------------

Resume(r) == Admit(r) \/ Acquire(r) \/ Drained(r) \/ GetReply(r) \/ Timeout(r)
Lifecycle ==
  \/ StartConnect \/ Connected \/ ConnectFails
  \/ StartClose \/ ReaderEnds \/ Closed

Next ==
  \/ \E r \in Req : Call(r) \/ Resume(r) \/ CancelWaiter(r) \/ Cancel(r) \/ ReadReply(r)
  \/ ReadEvent \/ ReadFails \/ TakeEvent
  \/ Lifecycle

Spec == Init /\ [][Next]_vars

\* The event loop resumes a task that can go on, and the timer of wait_for fires.
\* drain() is outside wait_for: it ends when VICE reads its socket or the connection
\* is lost, and nothing in the code makes either happen.
FairSpec ==
  Spec /\ \A r \in Req : WF_vars(Admit(r) \/ Acquire(r) \/ GetReply(r) \/ Timeout(r))

-----------------------------------------------------------------------------
(* Properties *)

\* A reply goes to the request it answers, whatever order VICE answers in and
\* whichever requests were timed out, cancelled or overtaken by a reconnect.
Correlated == \A r \in Req : res[r] = "reply" => got[r] = r

\* Every way out of execute() gives its slot back exactly once.
SlotsAccounted == slots + Cardinality(InFlight) = MaxPending

\* A future still open is registered under its id with a read loop to complete it,
\* or a close() about to fail it: no caller is left to its timeout by a teardown.
OpenFutureServed ==
  \A r \in InFlight : fut[r] = "open" =>
    /\ r \in pending
    /\ (reader = "running" /\ state = "connected") \/ life = "cancelling"

\* No two registered requests share an id, also when ids wrap around.
IdsDistinct == \A q, r \in pending : rid[q] = rid[r] => q = r

\* The event queue holds the newest events in order: every other event was consumed
\* before them or is counted in dropped_events.
EventsAccounted ==
  /\ consumed + dropped + Len(events) = emitted
  /\ \A i \in 1 .. Len(events) : events[i] = emitted - Len(events) + i

\* Only a request that its caller gave up on can make VICE's answer unexpected.
UnexpectedWasAbandoned ==
  [][\A q \in Req : ReadReply(q) /\ state' = "failed" /\ sentOn[q] = admittedOn[q]
       => res[q] \in {"timeout", "cancelled"}]_vars

\* Unless some drain() hangs for ever, every call of execute() ends: with the reply, or
\* because it was refused, timed out, was cancelled or lost its connection.
CallsEnd ==
  \/ <>[](\E q \in Req : pc[q] = "drain")
  \/ \A r \in Req : pc[r] = "slot" ~> pc[r] = "done"
=============================================================================
