----------------------------- MODULE IecCapture -----------------------------
(***************************************************************************)
(* IECTraceReader (iec_capture.py): captures over the JSONL file that an    *)
(* instrumented VICE appends to for as long as it runs.                     *)
(*                                                                          *)
(* VICE writes through a buffer, so the file may end anywhere inside a      *)
(* record when a client starts, reads or stops a capture.  The operations   *)
(* of the reader exclude one another (_lock).  One generation of one        *)
(* instance is modelled: another has its own file and its own session.      *)
(***************************************************************************)
EXTENDS Naturals, Sequences, FiniteSetsExt, SequencesExt

CONSTANTS
  MaxRecord,  \* bound: records VICE writes
  MaxCapture, \* bound: captures started
  Limit       \* the limits that clients pass

ASSUME IecConstants == MaxRecord \in Nat /\ MaxCapture \in Nat /\ Limit \subseteq Nat

Record == 1 .. MaxRecord

VARIABLES
  log,       \* the file, in parts of records
  capture,   \* how many captures were started; the last one is the session
  active, offset, sequence, malformed, pending,  \* the CaptureSession
  from,      \* the offset the session started at
  delivered  \* the events the session has returned

sessionVars == <<capture, active, offset, sequence, malformed, pending, from, delivered>>
vars == <<log, sessionVars>>

\* A record takes two writes and its newline a third; a damaged one is no JSON.
Part == [record : Record, part : {"head", "tail", "junk", "newline"}]

TypeOK ==
  /\ log \in Seq(Part)
  /\ capture \in 0 .. MaxCapture /\ active \in BOOLEAN
  /\ offset \in 0 .. Len(log) /\ from \in 0 .. offset
  /\ sequence \in 0 .. MaxRecord /\ malformed \in 0 .. MaxRecord
  /\ pending \in Seq(Part)
  /\ delivered \in Seq([record : Record, sequence : Record])

Init ==
  /\ log = <<>> /\ capture = 0 /\ active = FALSE
  /\ offset = 0 /\ sequence = 0 /\ malformed = 0 /\ pending = <<>>
  /\ from = 0 /\ delivered = <<>>

-----------------------------------------------------------------------------
(* Splitting a part of the file into lines; a line is known by where it ends *)

Ends(data) == {e \in 1 .. Len(data) : data[e].part = "newline"}

\* Where the lines end that json.loads accepts: each is one whole record.
EventEnds(data) ==
  {e \in Ends(data) : /\ e > 2 /\ data[e - 2].part = "head" /\ data[e - 1].part = "tail"
                      /\ e - 3 \in {0} \cup Ends(data)}

\* Where the others end; an empty line is skipped.
MalformedEnds(data) == {e \in Ends(data) : e - 1 \notin {0} \cup Ends(data)} \ EventEnds(data)

\* The k-th of a set of positions.
Nth(S, k) == CHOOSE e \in S : Cardinality({d \in S : d <= e}) = k

\* The records of the whole lines of data, in order.
Events(data) ==
  LET ends == EventEnds(data)
  IN [k \in 1 .. Cardinality(ends) |-> data[Nth(ends, k) - 1].record]

CountMalformed(data) == Cardinality(MalformedEnds(data))

\* What split() leaves after the last newline begins after LastEnd.
LastEnd(data) == Max({0} \cup Ends(data))

\* Mutant of Rest: the lines that a limit leaves are dropped.
RestForgetting(data, n) == SubSeq(data, LastEnd(data) + 1, Len(data))

\* Mutant of Rest: the record cut by the end of the file is dropped.
RestWhole(data, n) == SubSeq(data, n + 1, LastEnd(data))

\* What the loop of _drain leaves of data when it has gone through the lines to n.
Rest(data, n) == SubSeq(data, n + 1, Len(data))

\* How far the loop goes: until it has limit events, or through the last line.
Consumed(data, limit) ==
  LET ends == EventEnds(data)
  IN IF Cardinality(ends) < limit THEN LastEnd(data) ELSE Nth(ends, limit)

-----------------------------------------------------------------------------
(* The recorder *)

\* VICE appends the next part of what it records.
Write ==
  LET end == IF log = <<>> THEN [record |-> 0, part |-> "newline"] ELSE Last(log)
      Add(r, p) == log' = Append(log, [record |-> r, part |-> p])
  IN /\ \/ end.part = "newline" /\ end.record < MaxRecord /\ Add(end.record + 1, "head")
        \/ end.part = "head" /\ \E p \in {"tail", "junk"} : Add(end.record, p)
        \/ end.part \in {"tail", "junk"} /\ Add(end.record, "newline")
     /\ UNCHANGED sessionVars

-----------------------------------------------------------------------------
(* The reader *)

\* Mutant of Start: the session of an earlier capture is used again.
StartAgain ==
  /\ ~active /\ capture < MaxCapture
  /\ capture' = capture + 1 /\ active' = TRUE
  /\ offset' = Len(log) /\ from' = Len(log)
  /\ sequence' = 0 /\ malformed' = 0 /\ delivered' = <<>>
  /\ UNCHANGED <<log, pending>>

\* start(): a session at the end of the file, unless one is active.
Start ==
  /\ ~active /\ capture < MaxCapture
  /\ capture' = capture + 1 /\ active' = TRUE
  /\ offset' = Len(log) /\ from' = Len(log)
  /\ sequence' = 0 /\ malformed' = 0 /\ pending' = <<>> /\ delivered' = <<>>
  /\ UNCHANGED log

\* Mutant of Drain: every line read is counted, not every line gone through.
DrainRecounting(limit) ==
  LET data == pending \o SubSeq(log, offset + 1, Len(log))
      n == Consumed(data, limit)
      taken == SubSeq(data, 1, n)
      events == Events(taken)
  IN IF limit < 1
     THEN UNCHANGED <<offset, pending, malformed, sequence, delivered>>
     ELSE /\ offset' = Len(log)
          /\ pending' = Rest(data, n)
          /\ malformed' = malformed + CountMalformed(data)
          /\ sequence' = sequence + Len(events)
          /\ delivered' = delivered \o
               [i \in DOMAIN events |-> [record |-> events[i], sequence |-> sequence + i]]

\* _drain: everything new is read; what the limit leaves, and the unfinished record at
\* the end, is pending.  A line that parses is taken to be an object, as VICE writes them:
\* of another _normalize() makes the call fail with the file read and nothing returned.
Drain(limit) ==
  LET data == pending \o SubSeq(log, offset + 1, Len(log))
      n == Consumed(data, limit)
      taken == SubSeq(data, 1, n)
      events == Events(taken)
  IN IF limit < 1
     THEN UNCHANGED <<offset, pending, malformed, sequence, delivered>>
     ELSE /\ offset' = Len(log)
          /\ pending' = Rest(data, n)
          /\ malformed' = malformed + CountMalformed(taken)
          /\ sequence' = sequence + Len(events)
          /\ delivered' = delivered \o
               [i \in DOMAIN events |-> [record |-> events[i], sequence |-> sequence + i]]

\* read(): also of a session that has been stopped.
Read(limit) ==
  /\ capture > 0
  /\ Drain(limit)
  /\ UNCHANGED <<log, capture, active, from>>

Stop(limit) ==
  /\ capture > 0
  /\ Drain(limit)
  /\ active' = FALSE
  /\ UNCHANGED <<log, capture, from>>

-----------------------------------------------------------------------------

Next == Write \/ Start \/ \E limit \in Limit : Read(limit) \/ Stop(limit)

Spec == Init /\ [][Next]_vars

\* The client goes on reading, with a limit that lets it have something.
FairSpec == Spec /\ WF_vars(\E limit \in Limit \ {0} : Read(limit))

-----------------------------------------------------------------------------
(* Properties *)

\* The window: what VICE has appended since the capture started.
Appended == SubSeq(log, from + 1, Len(log))

Given == [i \in DOMAIN delivered |-> delivered[i].record]

\* The reader has lost and repeated nothing: what it has gone through and what is
\* pending make up the file; the records gone through were returned in order, numbered
\* from 1, and each damaged or cut one is counted once.
Accounted ==
  LET through == SubSeq(log, from + 1, offset - Len(pending))
  IN /\ pending = SubSeq(log, offset - Len(pending) + 1, offset)
     /\ Given = Events(through)
     /\ \A i \in DOMAIN delivered : delivered[i].sequence = i
     /\ sequence = Len(delivered)
     /\ malformed = CountMalformed(through)

\* What the session has read of the file.
ReadSoFar == SubSeq(log, from + 1, offset)

\* A session that says "complete" has returned every event of what it has read, however
\* the limits of this and earlier calls fell; and every event there is, when the call that
\* says so reads: status() does not, nor a call with limit 0, and both may say "complete"
\* of a file that has gone on.
CompleteMeansAll ==
  [][malformed' = 0 /\ pending' = <<>> =>
       /\ (Given = Events(ReadSoFar))'
       /\ \A limit \in Limit \ {0} :
            Read(limit) \/ Stop(limit) => (Given = Events(Appended))']_vars

\* A client that goes on reading catches up with the recorder: nothing a limit put off
\* is left behind, and a record cut in two by a read is returned when it is whole.
CatchesUp == []<>(capture = 0 \/ Given = Events(Appended))

\* The events of a capture are the records of its window, each once and in order.
Window == INSTANCE CaptureWindow WITH available <- Events(Appended), given <- Given
ImplementsWindow == Window!Spec
=============================================================================
