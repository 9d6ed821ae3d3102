------------------------ MODULE PortAllocatorProofs ------------------------
(* Proofs about PortAllocator, for any processes, allocators, ports and tokens. *)
EXTENDS PortAllocator, TLAPS

LEMMA StepNames ==
  /\ "idle" \in Step /\ "failed" \in Step /\ "bind" \in Step /\ "create" \in Step
  /\ "read" \in Step /\ "probe" \in Step /\ "unlink" \in Step /\ "write" \in Step
  /\ "relread" \in Step /\ "relunlink" \in Step
BY DEF Step, Sitting

\* The files the actions create and complete are files.
LEMMA Files ==
  /\ NoFile \in FileState
  /\ \A a \in Allocator, t \in Token :
       /\ [by |-> a, tok |-> t, body |-> "empty"] \in FileState
       /\ [by |-> a, tok |-> t, body |-> "full"] \in FileState
BY DEF FileState, LeaseFile

LEMMA TypeInit == Init => TypeOK
<1>1. Init => file \in [Port -> FileState]
  BY DEF Init, FileState
<1>2. Init => pc \in [Allocator -> Step] /\ port \in [Allocator -> Port]
  BY ConstantsOK, StepNames DEF Init, Port
<1> QED
  BY <1>1, <1>2 DEF Init, TypeOK, ArgumentsSet

\* Moving to the next candidate keeps the port in range.
LEMMA NextCandidateType ==
  ASSUME TypeOK, NEW a \in Allocator, NextCandidate(a)
  PROVE  /\ pc' \in [Allocator -> Step]
         /\ port' \in [Allocator -> Port]
         /\ eph' \in [Allocator -> BOOLEAN]
         /\ pc'[a] \in {"failed", "bind"}
         /\ \A b \in Allocator \ {a} : pc'[b] = pc[b]
<1>1. CASE Ends(a, "failed")
  BY <1>1, ConstantsOK, StepNames DEF TypeOK, Ends, Port
<1>2. CASE ~Ends(a, "failed")
  <2>1. port[a] + 1 \in Port
    BY <1>2, ConstantsOK DEF TypeOK, NextCandidate, Port
  <2> QED
    BY <1>2, <2>1, StepNames DEF TypeOK, NextCandidate
<1> QED
  BY <1>1, <1>2

LEMMA GiveUpType ==
  ASSUME TypeOK, NEW a \in Allocator, GiveUp(a)
  PROVE  /\ pc' \in [Allocator -> Step]
         /\ port' \in [Allocator -> Port]
         /\ eph' \in [Allocator -> BOOLEAN]
         /\ bound' \in [Port -> Allocator \cup {None, Other}]
         /\ retry' \in [Allocator -> BOOLEAN]
         /\ pc'[a] \in {"failed", "bind"}
         /\ \A b \in Allocator \ {a} : pc'[b] = pc[b]
BY NextCandidateType DEF GiveUp, TypeOK

LEMMA TypeStep == TypeOK /\ [Next]_vars => TypeOK'
<1> SUFFICES ASSUME TypeOK, [Next]_vars PROVE TypeOK'
  OBVIOUS
<1> USE DEF TypeOK, ArgumentsSet, reserveVars, issueVars
<1>1. ASSUME NEW a \in Allocator, Progress(a) PROVE TypeOK'
  <2>1. CASE Bind(a)
    <3>1. CASE \E p \in Port : /\ bound' = [bound EXCEPT ![p] = a]
                               /\ port' = [port EXCEPT ![a] = p]
                               /\ pc' = [pc EXCEPT ![a] = "create"]
                               /\ UNCHANGED eph
      BY <2>1, <3>1, StepNames DEF Bind
    <3>2. CASE NextCandidate(a) /\ UNCHANGED bound
      BY <2>1, <3>2, NextCandidateType DEF Bind
    <3> QED
      BY <2>1, <3>1, <3>2 DEF Bind
  <2>2. CASE AlreadyClaimed(a)
    BY <2>2, GiveUpType DEF AlreadyClaimed
  <2>3. CASE Create(a)
    <3>1. file' \in [Port -> FileState]
      <4> PICK t \in Token :
            file' = [file EXCEPT ![port[a]] = [by |-> a, tok |-> t, body |-> "empty"]]
        BY <2>3 DEF Create
      <4> QED
        BY Files
    <3> QED
      BY <2>3, <3>1, StepNames DEF Create
  <2>4. CASE Exists(a)
    BY <2>4, StepNames DEF Exists
  <2>5. CASE ReadOwner(a)
    <3>1. file[port[a]].body = "full" => file[port[a]].by \in Allocator
      BY DEF FileState, LeaseFile, NoFile
    <3> QED
      BY <2>5, <3>1, StepNames, ConstantsOK DEF ReadOwner
  <2>6. CASE Probe(a)
    BY <2>6, GiveUpType, StepNames DEF Probe
  <2>7. CASE UnlinkStale(a)
    <3>1. file' \in [Port -> FileState]
      BY <2>7, Files DEF UnlinkStale
    <3>2. CASE GiveUp(a)
      BY <2>7, <3>1, <3>2, GiveUpType DEF UnlinkStale
    <3>3. CASE pc' = [pc EXCEPT ![a] = "create"] /\ UNCHANGED <<bound, port, eph>>
      <4>1. ArgumentsSet'
        BY <2>7, <3>3 DEF UnlinkStale
      <4>2. retry' \in [Allocator -> BOOLEAN]
        BY <2>7 DEF UnlinkStale, GiveUp
      <4>3. UNCHANGED <<alive, used, tok, seen, rel, claims, held, old, open>>
        BY <2>7 DEF UnlinkStale
      <4> QED
        BY <3>1, <3>3, <4>1, <4>2, <4>3, StepNames
    <3> QED
      BY <2>7, <3>2, <3>3 DEF UnlinkStale
  <2>8. CASE WriteLease(a)
    <3>1. [port |-> port[a], tok |-> tok[a]] \in Reservation
      BY <2>8 DEF WriteLease, Reservation
    <3>2. file' \in [Port -> FileState]
      BY <2>8, Files DEF WriteLease
    <3>3. ArgumentsSet'
      BY <2>8 DEF WriteLease, Ends
    <3> QED
      BY <2>8, <3>1, <3>2, <3>3, StepNames, ConstantsOK DEF WriteLease, Ends, Port
  <2>9. CASE WriteFails(a)
    BY <2>9, GiveUpType DEF WriteFails
  <2>10. CASE ReleaseRead(a)
    BY <2>10, StepNames DEF ReleaseRead, Released
  <2>11. CASE ReleaseUnlink(a)
    BY <2>11, StepNames, Files DEF ReleaseUnlink, Released
  <2> QED
    BY <1>1, <2>1, <2>2, <2>3, <2>4, <2>5, <2>6, <2>7, <2>8, <2>9, <2>10, <2>11 DEF Progress
<1>2. ASSUME NEW a \in Allocator, Call(a) PROVE TypeOK'
  <2>1. CASE StartReserve(a)
    BY <2>1, StepNames DEF StartReserve
  <2>2. CASE Handoff(a)
    BY <2>2 DEF Handoff, CloseSocket, Reservation
  <2>3. CASE StartRelease(a)
    BY <2>3, StepNames DEF StartRelease, CloseSocket, Reservation
  <2> QED
    BY <1>2, <2>1, <2>2, <2>3 DEF Call
<1>3. ASSUME NEW x \in Proc, Crash(x) PROVE TypeOK'
  <2>1. pc' \in [Allocator -> Step] /\ port' \in [Allocator -> Port]
    BY <1>3, StepNames, ConstantsOK DEF Crash, Port
  <2>2. ArgumentsSet'
    BY <1>3 DEF Crash
  <2>3. /\ bound' \in [Port -> Allocator \cup {None, Other}]
        /\ alive' \subseteq Proc
        /\ UNCHANGED <<file, used>>
    BY <1>3 DEF Crash
  <2>4. /\ eph' \in [Allocator -> BOOLEAN]
        /\ retry' \in [Allocator -> BOOLEAN]
        /\ tok' \in [Allocator -> Token \cup {None}]
        /\ seen' \in [Allocator -> Proc \cup {None}]
        /\ rel' \in [Allocator -> Reservation \cup {None}]
    BY <1>3 DEF Crash
  <2>5. /\ claims' \in [Allocator -> SUBSET Port]
        /\ held' \in [Allocator -> SUBSET Reservation]
        /\ old' \in [Allocator -> SUBSET Reservation]
        /\ open' \in [Allocator -> SUBSET Reservation]
    BY <1>3 DEF Crash
  <2> QED
    BY <2>1, <2>2, <2>3, <2>4, <2>5
<1>4. ASSUME NEW x \in Proc, Restart(x) PROVE TypeOK'
  BY <1>4 DEF Restart
<1>5. ASSUME NEW p \in Port, OtherBinds(p) \/ OtherCloses(p) PROVE TypeOK'
  BY <1>5 DEF OtherBinds, OtherCloses
<1>6. CASE UNCHANGED vars
  BY <1>6 DEF vars
<1> QED
  BY <1>1, <1>2, <1>3, <1>4, <1>5, <1>6 DEF Next, Environment

\* Every variable keeps its type: in particular a candidate port never leaves the
\* port range, and a lease file is always a whole record of one creation.
THEOREM Typing == Spec => []TypeOK
BY TypeInit, TypeStep, PTL DEF Spec

-----------------------------------------------------------------------------
(* The inductive invariant. *)

LEMMA NextCandidateEffect ==
  ASSUME TypeOK, NEW a \in Allocator, NextCandidate(a)
  PROVE  /\ pc'[a] \in {"failed", "bind"}
         /\ \A b \in Allocator \ {a} : pc'[b] = pc[b] /\ port'[b] = port[b]
BY DEF TypeOK, NextCandidate, Ends

LEMMA GiveUpEffect ==
  ASSUME TypeOK, NEW a \in Allocator, GiveUp(a)
  PROVE  /\ bound' = [bound EXCEPT ![port[a]] = None]
         /\ pc'[a] \in {"failed", "bind"}
         /\ \A b \in Allocator \ {a} : pc'[b] = pc[b] /\ port'[b] = port[b]
BY NextCandidateEffect DEF GiveUp

Safe ==
  /\ LeaseBacksReservation /\ SitterOwnsPort /\ OpenOwnsPort /\ HolderRuns
  /\ ProbesHolder /\ UnlinksOnlyStale /\ WritesOwnLease /\ TokensSpent /\ ReleasesOwn

\* What the lease of a reservation says.
LEMMA Backed ==
  ASSUME TypeOK, LeaseBacksReservation, NEW c \in Allocator, NEW r \in held[c]
  PROVE  /\ r.port \in Port /\ r.tok \in Token
         /\ file[r.port].by = c
         /\ file[r.port].tok = r.tok
         /\ file[r.port].body = "full"
<1>1. r \in Reservation
  BY DEF TypeOK
<1>2. file[r.port] = [by |-> c, tok |-> r.tok, body |-> "full"]
  BY DEF LeaseBacksReservation
<1> QED
  BY <1>1, <1>2 DEF Reservation

\* A complete lease file names one allocator and one token.
LEMMA Exclusion ==
  ASSUME LeaseBacksReservation, TypeOK PROVE MutualExclusion
<1> SUFFICES ASSUME NEW a \in Allocator, NEW b \in Allocator,
                    NEW r \in held[a], NEW q \in held[b], r.port = q.port
             PROVE  a = b /\ r = q
  BY DEF MutualExclusion
<1>1. /\ file[r.port] = [by |-> a, tok |-> r.tok, body |-> "full"]
      /\ file[q.port] = [by |-> b, tok |-> q.tok, body |-> "full"]
  BY DEF LeaseBacksReservation
<1>2. a = b /\ r.tok = q.tok
  BY <1>1
<1>3. r \in Reservation /\ q \in Reservation
  BY DEF TypeOK
<1> QED
  BY <1>2, <1>3 DEF Reservation

\* Two open sockets are on two ports.
LEMMA OpenDistinct ==
  ASSUME LeaseBacksReservation, OpenOwnsPort, TypeOK
  PROVE  \A a, b \in Allocator : \A r \in open[a], q \in open[b] :
           r.port = q.port => a = b /\ r = q
BY Exclusion DEF OpenOwnsPort, MutualExclusion

LEMMA SafeStep == TypeOK /\ TypeOK' /\ Safe /\ [Next]_vars => Safe'
<1> SUFFICES ASSUME TypeOK, TypeOK', Safe, [Next]_vars PROVE Safe'
  OBVIOUS
<1> USE ConstantsOK DEF TypeOK, ArgumentsSet, Sitting, Reservation, reserveVars, issueVars, Safe
<1>1. ASSUME NEW a \in Allocator, Progress(a) PROVE Safe'
  <2>1. CASE Bind(a)
    <3> USE <2>1 DEF Bind
    <3>1. SitterOwnsPort'
      BY NextCandidateEffect DEF SitterOwnsPort, OpenOwnsPort
    <3>2. OpenOwnsPort'
      BY NextCandidateEffect DEF OpenOwnsPort
    <3>3. ProbesHolder'
      BY NextCandidateEffect DEF ProbesHolder
    <3>4. UnlinksOnlyStale'
      BY NextCandidateEffect DEF UnlinksOnlyStale
    <3>5. WritesOwnLease'
      BY NextCandidateEffect DEF WritesOwnLease
    <3>6. ReleasesOwn'
      BY NextCandidateEffect DEF ReleasesOwn
    <3>7. LeaseBacksReservation' /\ HolderRuns' /\ TokensSpent'
      BY DEF LeaseBacksReservation, HolderRuns, TokensSpent, Running
    <3> QED
      BY <3>1, <3>2, <3>3, <3>4, <3>5, <3>6, <3>7
  <2>2. CASE AlreadyClaimed(a)
    <3> USE <2>2 DEF AlreadyClaimed
    <3>1. SitterOwnsPort'
      <4> SUFFICES ASSUME NEW b \in Allocator, pc'[b] \in Sitting
                   PROVE  bound'[port'[b]] = b /\ \A r \in open[b] : r.port # port'[b]
        BY DEF SitterOwnsPort
      <4>1. b # a /\ pc'[b] = pc[b] /\ port'[b] = port[b]
        BY GiveUpEffect
      <4>2. bound[port[b]] = b /\ bound[port[a]] = a
        BY <4>1 DEF SitterOwnsPort
      <4> QED
        BY <4>1, <4>2, GiveUpEffect DEF SitterOwnsPort
    <3>2. OpenOwnsPort'
      BY GiveUpEffect DEF OpenOwnsPort, SitterOwnsPort
    <3>3. ProbesHolder'
      <4> SUFFICES ASSUME NEW c \in Allocator, NEW b \in Allocator, NEW r \in held[c],
                          pc'[b] = "probe", port'[b] = r.port
                   PROVE  seen[b] = ProcOf[c]
        BY DEF ProbesHolder
      <4>1. b # a /\ pc'[b] = pc[b] /\ port'[b] = port[b]
        BY GiveUpEffect
      <4>2. pc[b] = "probe" /\ port[b] = r.port
        BY <4>1
      <4> QED
        BY <4>2 DEF ProbesHolder
    <3>4. UnlinksOnlyStale'
      <4> SUFFICES ASSUME NEW c \in Allocator, NEW b \in Allocator, NEW r \in held[c],
                          pc'[b] = "unlink"
                   PROVE  port'[b] # r.port
        BY DEF UnlinksOnlyStale
      <4>1. b # a /\ pc'[b] = pc[b] /\ port'[b] = port[b]
        BY GiveUpEffect
      <4> QED
        BY <4>1 DEF UnlinksOnlyStale
    <3>5. WritesOwnLease'
      BY GiveUpEffect DEF WritesOwnLease
    <3>6. ReleasesOwn'
      BY GiveUpEffect DEF ReleasesOwn
    <3>7. LeaseBacksReservation' /\ HolderRuns' /\ TokensSpent'
      BY DEF LeaseBacksReservation, HolderRuns, TokensSpent, Running
    <3> QED
      BY <3>1, <3>2, <3>3, <3>4, <3>5, <3>6, <3>7
  <2>3. CASE Create(a)
    <3> USE <2>3 DEF Create
    <3>1. LeaseBacksReservation'
      <4> SUFFICES ASSUME NEW c \in Allocator, NEW r \in held[c]
                   PROVE  file'[r.port] = [by |-> c, tok |-> r.tok, body |-> "full"]
        BY DEF LeaseBacksReservation
      <4>1. file[r.port].body = "full"
        BY Backed
      <4>2. r.port # port[a] /\ r.port \in Port
        BY <4>1 DEF NoFile
      <4> QED
        BY <4>2 DEF LeaseBacksReservation
    <3>2. SitterOwnsPort'
      BY DEF SitterOwnsPort
    <3>3. ProbesHolder'
      BY DEF ProbesHolder
    <3>4. UnlinksOnlyStale'
      BY DEF UnlinksOnlyStale
    <3>5. WritesOwnLease'
      <4> SUFFICES ASSUME NEW b \in Allocator, pc'[b] = "write"
                   PROVE  file'[port[b]] = [by |-> b, tok |-> tok'[b], body |-> "empty"]
        BY DEF WritesOwnLease
      <4>1. CASE b = a
        BY <4>1
      <4>2. CASE b # a
        <5>1. pc[b] = "write" /\ bound[port[b]] = b /\ bound[port[a]] = a
          BY <4>2 DEF SitterOwnsPort
        <5> QED
          BY <4>2, <5>1 DEF WritesOwnLease
      <4> QED
        BY <4>1, <4>2
    <3>6. TokensSpent'
      BY DEF TokensSpent, NoFile
    <3>7. ReleasesOwn'
      BY DEF ReleasesOwn
    <3>8. OpenOwnsPort' /\ HolderRuns'
      BY DEF OpenOwnsPort, HolderRuns, Running
    <3> QED
      BY <3>1, <3>2, <3>3, <3>4, <3>5, <3>6, <3>7, <3>8
  <2>4. CASE Exists(a)
    <3> USE <2>4 DEF Exists
    <3>1. SitterOwnsPort'
      BY DEF SitterOwnsPort
    <3>2. ProbesHolder'
      BY DEF ProbesHolder
    <3>3. UnlinksOnlyStale'
      BY DEF UnlinksOnlyStale
    <3>4. WritesOwnLease'
      BY DEF WritesOwnLease
    <3>5. ReleasesOwn'
      BY DEF ReleasesOwn
    <3>6. LeaseBacksReservation' /\ OpenOwnsPort' /\ HolderRuns' /\ TokensSpent'
      BY DEF LeaseBacksReservation, OpenOwnsPort, HolderRuns, TokensSpent, Running
    <3> QED
      BY <3>1, <3>2, <3>3, <3>4, <3>5, <3>6
  <2>5. CASE ReadOwner(a)
    <3> USE <2>5 DEF ReadOwner
    <3>1. SitterOwnsPort'
      BY DEF SitterOwnsPort
    <3>2. ProbesHolder'
      <4> SUFFICES ASSUME NEW c \in Allocator, NEW b \in Allocator, NEW r \in held[c],
                          pc'[b] = "probe", port[b] = r.port
                   PROVE  seen'[b] = ProcOf[c]
        BY DEF ProbesHolder
      <4>1. CASE b = a
        <5>1. file[port[a]] = [by |-> c, tok |-> r.tok, body |-> "full"]
          BY <4>1 DEF LeaseBacksReservation
        <5> QED
          BY <4>1, <5>1
      <4>2. CASE b # a
        BY <4>2 DEF ProbesHolder
      <4> QED
        BY <4>1, <4>2
    <3>3. UnlinksOnlyStale'
      BY DEF UnlinksOnlyStale
    <3>4. WritesOwnLease'
      BY DEF WritesOwnLease
    <3>5. ReleasesOwn'
      BY DEF ReleasesOwn
    <3>6. LeaseBacksReservation' /\ OpenOwnsPort' /\ HolderRuns' /\ TokensSpent'
      BY DEF LeaseBacksReservation, OpenOwnsPort, HolderRuns, TokensSpent, Running
    <3> QED
      BY <3>1, <3>2, <3>3, <3>4, <3>5, <3>6
  <2>6. CASE Probe(a)
    <3> USE <2>6 DEF Probe
    <3>1. SitterOwnsPort'
      BY GiveUpEffect DEF SitterOwnsPort
    <3>2. OpenOwnsPort'
      BY GiveUpEffect DEF OpenOwnsPort, SitterOwnsPort
    <3>3. ProbesHolder'
      BY GiveUpEffect DEF ProbesHolder
    <3>4. UnlinksOnlyStale'
      <4> SUFFICES ASSUME NEW c \in Allocator, NEW b \in Allocator, NEW r \in held[c],
                          pc'[b] = "unlink"
                   PROVE  port'[b] # r.port
        BY DEF UnlinksOnlyStale
      <4>1. CASE b = a
        <5>1. seen[a] \notin alive /\ port'[a] = port[a]
          BY <4>1, GiveUpEffect
        <5>2. ProcOf[c] \in alive
          BY DEF HolderRuns, Running
        <5> QED
          BY <4>1, <5>1, <5>2 DEF ProbesHolder
      <4>2. CASE b # a
        BY <4>2, GiveUpEffect DEF UnlinksOnlyStale
      <4> QED
        BY <4>1, <4>2
    <3>5. WritesOwnLease'
      BY GiveUpEffect DEF WritesOwnLease
    <3>6. ReleasesOwn'
      <4>1. \A b \in Allocator : pc'[b] \in {"relread", "relunlink"} => b # a /\ pc'[b] = pc[b]
        BY GiveUpEffect
      <4> QED
        BY <4>1 DEF ReleasesOwn
    <3>7. LeaseBacksReservation' /\ HolderRuns' /\ TokensSpent'
      BY DEF LeaseBacksReservation, HolderRuns, TokensSpent, Running
    <3> QED
      BY <3>1, <3>2, <3>3, <3>4, <3>5, <3>6, <3>7
  <2>7. CASE UnlinkStale(a)
    <3> USE <2>7 DEF UnlinkStale
    <3>0. /\ pc'[a] \in {"create", "failed", "bind"}
          /\ \A b \in Allocator \ {a} : pc'[b] = pc[b] /\ port'[b] = port[b]
      <4>1. CASE retry[a] /\ GiveUp(a)
        BY <4>1, GiveUpEffect
      <4>2. CASE pc' = [pc EXCEPT ![a] = "create"] /\ UNCHANGED <<bound, port, eph>>
        BY <4>2
      <4> QED
        BY <4>1, <4>2
    <3>1. LeaseBacksReservation'
      <4> SUFFICES ASSUME NEW c \in Allocator, NEW r \in held[c]
                   PROVE  file'[r.port] = [by |-> c, tok |-> r.tok, body |-> "full"]
        BY DEF LeaseBacksReservation
      <4>1. port[a] # r.port /\ r.port \in Port
        BY DEF UnlinksOnlyStale
      <4> QED
        BY <4>1 DEF LeaseBacksReservation
    <3>2. SitterOwnsPort'
      BY GiveUpEffect DEF SitterOwnsPort
    <3>3. OpenOwnsPort'
      BY GiveUpEffect DEF OpenOwnsPort, SitterOwnsPort
    <3>4. ProbesHolder'
      <4> SUFFICES ASSUME NEW b \in Allocator, pc'[b] = "probe"
                   PROVE  b # a /\ pc[b] = "probe" /\ port'[b] = port[b]
        BY DEF ProbesHolder
      <4> QED
        BY <3>0
    <3>5. UnlinksOnlyStale'
      BY <3>0 DEF UnlinksOnlyStale
    <3>6. WritesOwnLease'
      <4> SUFFICES ASSUME NEW b \in Allocator, pc'[b] = "write"
                   PROVE  file'[port'[b]] = [by |-> b, tok |-> tok[b], body |-> "empty"]
        BY DEF WritesOwnLease
      <4>1. b # a /\ pc[b] = "write" /\ port'[b] = port[b]
        BY <3>0
      <4>2. bound[port[b]] = b /\ bound[port[a]] = a
        BY <4>1 DEF SitterOwnsPort
      <4> QED
        BY <4>1, <4>2 DEF WritesOwnLease
    <3>7. TokensSpent'
      <4>1. CASE file' = file
        BY <4>1 DEF TokensSpent
      <4>2. CASE file' = [file EXCEPT ![port[a]] = NoFile]
        <5>1. \A p \in Port : file'[p].tok \in {file[p].tok, None}
          BY <4>2 DEF NoFile
        <5>2. \A p \in Port : file'[p].tok \in used' \cup {None}
          BY <5>1 DEF TokensSpent
        <5>3. \A c \in Allocator : \A r \in old[c] :
                r.tok \in used /\ r.port \in Port /\ r.tok # None
          BY ConstantsOK DEF TokensSpent, TypeOK, Reservation
        <5>4. \A c \in Allocator : \A r \in old[c] : r.tok \in used /\ file'[r.port].tok # r.tok
          BY <5>1, <5>3 DEF TokensSpent
        <5> QED
          BY <5>2, <5>4 DEF TokensSpent
      <4> QED
        BY <4>1, <4>2
    <3>8. ReleasesOwn'
      <4>1. \A b \in Allocator : pc'[b] \in {"relread", "relunlink"} => b # a /\ pc'[b] = pc[b]
        BY <3>0
      <4> QED
        BY <4>1 DEF ReleasesOwn
    <3>9. HolderRuns'
      BY DEF HolderRuns, Running
    <3> QED
      BY <3>1, <3>2, <3>3, <3>4, <3>5, <3>6, <3>7, <3>8, <3>9
  <2>8. CASE WriteLease(a)
    <3> USE <2>8 DEF WriteLease, Ends
    <3>1. LeaseBacksReservation'
      <4> SUFFICES ASSUME NEW c \in Allocator, NEW r \in held'[c]
                   PROVE  file'[r.port] = [by |-> c, tok |-> r.tok, body |-> "full"]
        BY DEF LeaseBacksReservation
      <4>1. file[port[a]] = [by |-> a, tok |-> tok[a], body |-> "empty"]
        BY DEF WritesOwnLease
      <4>2. file' = [file EXCEPT ![port[a]] = [by |-> a, tok |-> tok[a], body |-> "full"]]
        BY <4>1
      <4>3. CASE r \in held[c]
        <5>1. file[r.port].body = "full" /\ r.port \in Port
          BY <4>3, Backed
        <5>2. r.port # port[a]
          BY <4>1, <5>1
        <5> QED
          BY <4>2, <4>3, <5>1, <5>2 DEF LeaseBacksReservation
      <4>4. CASE r \notin held[c]
        BY <4>2, <4>4
      <4> QED
        BY <4>3, <4>4
    <3>2. SitterOwnsPort'
      BY DEF SitterOwnsPort
    <3>3. OpenOwnsPort'
      BY DEF OpenOwnsPort, SitterOwnsPort
    <3>4. HolderRuns'
      BY DEF HolderRuns, Running
    <3>5. ProbesHolder'
      BY DEF ProbesHolder, SitterOwnsPort
    <3>6. UnlinksOnlyStale'
      BY DEF UnlinksOnlyStale, SitterOwnsPort
    <3>7. WritesOwnLease'
      BY DEF WritesOwnLease, SitterOwnsPort
    <3>8. TokensSpent'
      <4>1. file[port[a]] = [by |-> a, tok |-> tok[a], body |-> "empty"]
        BY DEF WritesOwnLease
      <4>2. \A p \in Port : file'[p].tok = file[p].tok
        BY <4>1
      <4>3. tok[a] \in used
        BY <4>1, ConstantsOK DEF TokensSpent
      <4>4. \A c \in Allocator : \A r \in held'[c] : r \in held[c] \/ r.tok = tok[a]
        OBVIOUS
      <4> QED
        BY <4>2, <4>3, <4>4 DEF TokensSpent
    <3>9. ReleasesOwn'
      BY DEF ReleasesOwn
    <3> QED
      BY <3>1, <3>2, <3>3, <3>4, <3>5, <3>6, <3>7, <3>8, <3>9
  <2>9. CASE WriteFails(a)
    <3> USE <2>9 DEF WriteFails
    <3>1. SitterOwnsPort'
      <4> SUFFICES ASSUME NEW b \in Allocator, pc'[b] \in Sitting
                   PROVE  bound'[port'[b]] = b /\ \A r \in open[b] : r.port # port'[b]
        BY DEF SitterOwnsPort
      <4>1. b # a /\ pc'[b] = pc[b] /\ port'[b] = port[b]
        BY GiveUpEffect
      <4>2. bound[port[b]] = b /\ bound[port[a]] = a
        BY <4>1 DEF SitterOwnsPort
      <4> QED
        BY <4>1, <4>2, GiveUpEffect DEF SitterOwnsPort
    <3>2. OpenOwnsPort'
      BY GiveUpEffect DEF OpenOwnsPort, SitterOwnsPort
    <3>3. ProbesHolder'
      <4> SUFFICES ASSUME NEW c \in Allocator, NEW b \in Allocator, NEW r \in held[c],
                          pc'[b] = "probe", port'[b] = r.port
                   PROVE  seen[b] = ProcOf[c]
        BY DEF ProbesHolder
      <4>1. b # a /\ pc'[b] = pc[b] /\ port'[b] = port[b]
        BY GiveUpEffect
      <4>2. pc[b] = "probe" /\ port[b] = r.port
        BY <4>1
      <4> QED
        BY <4>2 DEF ProbesHolder
    <3>4. UnlinksOnlyStale'
      <4> SUFFICES ASSUME NEW c \in Allocator, NEW b \in Allocator, NEW r \in held[c],
                          pc'[b] = "unlink"
                   PROVE  port'[b] # r.port
        BY DEF UnlinksOnlyStale
      <4>1. CASE b = a
        BY <4>1, GiveUpEffect
      <4>2. CASE b # a
        BY <4>2, GiveUpEffect DEF UnlinksOnlyStale
      <4> QED
        BY <4>1, <4>2
    <3>5. WritesOwnLease'
      BY GiveUpEffect DEF WritesOwnLease
    <3>6. ReleasesOwn'
      <4>1. \A b \in Allocator : pc'[b] \in {"relread", "relunlink"} => b # a /\ pc'[b] = pc[b]
        BY GiveUpEffect
      <4> QED
        BY <4>1 DEF ReleasesOwn
    <3>7. LeaseBacksReservation' /\ HolderRuns' /\ TokensSpent'
      BY DEF LeaseBacksReservation, HolderRuns, TokensSpent, Running
    <3> QED
      BY <3>1, <3>2, <3>3, <3>4, <3>5, <3>6, <3>7
  <2>10. CASE ReleaseRead(a)
    <3> USE <2>10 DEF ReleaseRead, Released
    <3>1. LeaseBacksReservation'
      <4>1. \A c \in Allocator : held'[c] \subseteq held[c]
        OBVIOUS
      <4> QED
        BY <4>1 DEF LeaseBacksReservation
    <3>2. SitterOwnsPort'
      BY DEF SitterOwnsPort
    <3>3. OpenOwnsPort'
      <4>1. rel[a] \notin open[a]
        BY DEF ReleasesOwn
      <4>2. \A b \in Allocator : held[b] \ held'[b] \subseteq {rel[a]} /\ (b # a => held'[b] = held[b])
        OBVIOUS
      <4>3. \A b \in Allocator : \A r \in open[b] : r \in held'[b]
        BY <4>1, <4>2 DEF OpenOwnsPort
      <4> QED
        BY <4>3 DEF OpenOwnsPort
    <3>4. HolderRuns'
      BY DEF HolderRuns, Running
    <3>5. ProbesHolder'
      <4>1. \A c \in Allocator : held'[c] \subseteq held[c]
        OBVIOUS
      <4>2. \A b \in Allocator : pc'[b] = "probe" => pc[b] = "probe"
        OBVIOUS
      <4> QED
        BY <4>1, <4>2 DEF ProbesHolder
    <3>6. UnlinksOnlyStale'
      BY DEF UnlinksOnlyStale
    <3>7. WritesOwnLease'
      BY DEF WritesOwnLease
    <3>8. TokensSpent'
      <4>1. \A c \in Allocator : held'[c] \subseteq held[c]
        OBVIOUS
      <4>2. CASE old' = old
        BY <4>1, <4>2 DEF TokensSpent
      <4>3. CASE old' # old
        <5>1. /\ old' = [old EXCEPT ![a] = @ \cup {rel[a]}]
              /\ ~(file[rel[a].port].body = "full" /\ file[rel[a].port].tok = rel[a].tok)
          BY <4>3
        <5>2. rel[a] \in held[a] \cup old[a]
          BY DEF ReleasesOwn
        <5>3. rel[a].tok \in used /\ file[rel[a].port].tok # rel[a].tok
          BY <5>1, <5>2, Backed DEF TokensSpent
        <5> QED
          BY <4>1, <5>1, <5>3 DEF TokensSpent
      <4> QED
        BY <4>2, <4>3
    <3>9. ReleasesOwn'
      <4> SUFFICES ASSUME NEW b \in Allocator
                   PROVE  /\ pc'[b] \in {"relread", "relunlink"}
                               => rel'[b] \in (held'[b] \cup old'[b]) \ open[b]
                          /\ pc'[b] = "relunlink" => rel'[b] \in held'[b]
        BY DEF ReleasesOwn
      <4>1. CASE b # a
        BY <4>1 DEF ReleasesOwn
      <4>2. CASE b = a /\ pc'[a] = "relunlink"
        <5>1. /\ file[rel[a].port].tok = rel[a].tok
              /\ UNCHANGED <<held, old, rel>>
          BY <4>2
        <5>2. rel[a] \in (held[a] \cup old[a]) \ open[a]
          BY DEF ReleasesOwn
        <5>3. rel[a] \in held[a]
          BY <5>1, <5>2 DEF TokensSpent
        <5> QED
          BY <4>2, <5>1, <5>2, <5>3
      <4>3. CASE b = a /\ pc'[a] # "relunlink"
        BY <4>3
      <4> QED
        BY <4>1, <4>2, <4>3
    <3> QED
      BY <3>1, <3>2, <3>3, <3>4, <3>5, <3>6, <3>7, <3>8, <3>9
  <2>11. CASE ReleaseUnlink(a)
    <3> USE <2>11 DEF ReleaseUnlink, Released
    <3>1. LeaseBacksReservation'
      <4> SUFFICES ASSUME NEW c \in Allocator, NEW r \in held'[c]
                   PROVE  file'[r.port] = [by |-> c, tok |-> r.tok, body |-> "full"]
        BY DEF LeaseBacksReservation
      <4>1. rel[a] \in held[a]
        BY DEF ReleasesOwn
      <4>2. r \in held[c] /\ ~(c = a /\ r = rel[a])
        OBVIOUS
      <4>3. r.port # rel[a].port /\ r.port \in Port
        BY <4>1, <4>2, Exclusion DEF MutualExclusion
      <4> QED
        BY <4>2, <4>3 DEF LeaseBacksReservation
    <3>2. SitterOwnsPort'
      BY DEF SitterOwnsPort
    <3>3. OpenOwnsPort'
      BY DEF OpenOwnsPort, ReleasesOwn
    <3>4. HolderRuns'
      BY DEF HolderRuns, Running
    <3>5. ProbesHolder'
      BY DEF ProbesHolder
    <3>6. UnlinksOnlyStale'
      BY DEF UnlinksOnlyStale
    <3>7. WritesOwnLease'
      <4> SUFFICES ASSUME NEW b \in Allocator, pc'[b] = "write"
                   PROVE  file'[port[b]] = [by |-> b, tok |-> tok[b], body |-> "empty"]
        BY DEF WritesOwnLease
      <4>1. pc[b] = "write"
        OBVIOUS
      <4>2. file[rel[a].port].body = "full"
        BY Backed DEF ReleasesOwn
      <4>3. file[port[b]] = [by |-> b, tok |-> tok[b], body |-> "empty"]
        BY <4>1 DEF WritesOwnLease
      <4>4. port[b] # rel[a].port
        BY <4>2, <4>3
      <4> QED
        BY <4>3, <4>4
    <3>8. TokensSpent'
      BY DEF TokensSpent, ReleasesOwn, NoFile
    <3>9. ReleasesOwn'
      BY DEF ReleasesOwn
    <3> QED
      BY <3>1, <3>2, <3>3, <3>4, <3>5, <3>6, <3>7, <3>8, <3>9
  <2> QED
    BY <1>1, <2>1, <2>2, <2>3, <2>4, <2>5, <2>6, <2>7, <2>8, <2>9, <2>10, <2>11 DEF Progress
<1>2. ASSUME NEW a \in Allocator, Call(a) PROVE Safe'
  <2>1. CASE StartReserve(a)
    <3> USE <2>1 DEF StartReserve, Idle
    <3>1. SitterOwnsPort'
      BY DEF SitterOwnsPort
    <3>2. ProbesHolder'
      BY DEF ProbesHolder
    <3>3. UnlinksOnlyStale'
      BY DEF UnlinksOnlyStale
    <3>4. WritesOwnLease'
      BY DEF WritesOwnLease
    <3>5. ReleasesOwn'
      BY DEF ReleasesOwn
    <3>6. LeaseBacksReservation' /\ OpenOwnsPort' /\ HolderRuns' /\ TokensSpent'
      BY DEF LeaseBacksReservation, OpenOwnsPort, HolderRuns, TokensSpent, Running
    <3> QED
      BY <3>1, <3>2, <3>3, <3>4, <3>5, <3>6
  <2>2. CASE Handoff(a)
    <3> USE <2>2 DEF Handoff, CloseSocket
    <3>1. SitterOwnsPort'
      BY DEF SitterOwnsPort, OpenOwnsPort
    <3>2. OpenOwnsPort'
      BY OpenDistinct DEF OpenOwnsPort
    <3>3. ReleasesOwn'
      BY DEF ReleasesOwn
    <3>4. LeaseBacksReservation' /\ HolderRuns' /\ ProbesHolder' /\ UnlinksOnlyStale' /\ WritesOwnLease' /\ TokensSpent'
      BY DEF LeaseBacksReservation, HolderRuns, ProbesHolder, UnlinksOnlyStale, WritesOwnLease, TokensSpent, Running
    <3> QED
      BY <3>1, <3>2, <3>3, <3>4
  <2>3. CASE StartRelease(a)
    <3> USE <2>3 DEF StartRelease, CloseSocket, Idle
    <3>1. SitterOwnsPort'
      BY DEF SitterOwnsPort, OpenOwnsPort
    <3>2. OpenOwnsPort'
      BY OpenDistinct DEF OpenOwnsPort
    <3>3. ProbesHolder'
      BY DEF ProbesHolder
    <3>4. UnlinksOnlyStale'
      BY DEF UnlinksOnlyStale
    <3>5. WritesOwnLease'
      BY DEF WritesOwnLease
    <3>6. ReleasesOwn'
      BY DEF ReleasesOwn
    <3>7. LeaseBacksReservation' /\ HolderRuns' /\ TokensSpent'
      BY DEF LeaseBacksReservation, HolderRuns, TokensSpent, Running
    <3> QED
      BY <3>1, <3>2, <3>3, <3>4, <3>5, <3>6, <3>7
  <2> QED
    BY <1>2, <2>1, <2>2, <2>3 DEF Call
<1>3. ASSUME NEW x \in Proc, Crash(x) PROVE Safe'
  <2> USE <1>3 DEF Crash
  <2>1. LeaseBacksReservation'
    BY DEF LeaseBacksReservation, Running
  <2>2. SitterOwnsPort'
    BY DEF SitterOwnsPort, Running
  <2>3. OpenOwnsPort'
    BY DEF OpenOwnsPort, Running
  <2>4. HolderRuns'
    BY DEF HolderRuns, Running
  <2>5. ProbesHolder'
    BY DEF ProbesHolder, Running
  <2>6. UnlinksOnlyStale'
    BY DEF UnlinksOnlyStale, Running
  <2>7. WritesOwnLease'
    BY DEF WritesOwnLease, Running
  <2>8. TokensSpent'
    BY DEF TokensSpent, Running
  <2>9. ReleasesOwn'
    BY DEF ReleasesOwn, Running
  <2> QED
    BY <2>1, <2>2, <2>3, <2>4, <2>5, <2>6, <2>7, <2>8, <2>9
<1>4. ASSUME NEW x \in Proc, Restart(x) PROVE Safe'
  <2> USE <1>4 DEF Restart
  <2>1. LeaseBacksReservation'
    BY DEF LeaseBacksReservation, Running
  <2>2. SitterOwnsPort'
    BY DEF SitterOwnsPort, Running
  <2>3. OpenOwnsPort'
    BY DEF OpenOwnsPort, Running
  <2>4. HolderRuns'
    BY DEF HolderRuns, Running
  <2>5. ProbesHolder'
    BY DEF ProbesHolder, Running
  <2>6. UnlinksOnlyStale'
    BY DEF UnlinksOnlyStale, Running
  <2>7. WritesOwnLease'
    BY DEF WritesOwnLease, Running
  <2>8. TokensSpent'
    BY DEF TokensSpent, Running
  <2>9. ReleasesOwn'
    BY DEF ReleasesOwn, Running
  <2> QED
    BY <2>1, <2>2, <2>3, <2>4, <2>5, <2>6, <2>7, <2>8, <2>9
<1>5. ASSUME NEW p \in Port, OtherBinds(p) \/ OtherCloses(p) PROVE Safe'
  <2> USE <1>5 DEF OtherBinds, OtherCloses
  <2>1. LeaseBacksReservation'
    BY DEF LeaseBacksReservation, Running
  <2>2. SitterOwnsPort'
    BY DEF SitterOwnsPort, Running
  <2>3. OpenOwnsPort'
    BY DEF OpenOwnsPort, Running
  <2>4. HolderRuns'
    BY DEF HolderRuns, Running
  <2>5. ProbesHolder'
    BY DEF ProbesHolder, Running
  <2>6. UnlinksOnlyStale'
    BY DEF UnlinksOnlyStale, Running
  <2>7. WritesOwnLease'
    BY DEF WritesOwnLease, Running
  <2>8. TokensSpent'
    BY DEF TokensSpent, Running
  <2>9. ReleasesOwn'
    BY DEF ReleasesOwn, Running
  <2> QED
    BY <2>1, <2>2, <2>3, <2>4, <2>5, <2>6, <2>7, <2>8, <2>9
<1>6. CASE UNCHANGED vars
  BY <1>6 DEF vars, Running, LeaseBacksReservation, SitterOwnsPort, OpenOwnsPort, HolderRuns, ProbesHolder, UnlinksOnlyStale, WritesOwnLease, TokensSpent, ReleasesOwn
<1> QED
  BY <1>1, <1>2, <1>3, <1>4, <1>5, <1>6 DEF Next, Environment

LEMMA SafeInit == Init => Safe
BY ConstantsOK DEF Init, Safe, LeaseBacksReservation, SitterOwnsPort, OpenOwnsPort,
   HolderRuns, ProbesHolder, UnlinksOnlyStale, WritesOwnLease, TokensSpent, ReleasesOwn,
   NoFile, Sitting

\* The inductive invariant holds throughout every run of the allocators.
THEOREM Invariance == Spec => []Inductive
<1>1. Init => TypeOK /\ Safe
  BY TypeInit, SafeInit
<1>2. TypeOK /\ Safe /\ [Next]_vars => (TypeOK /\ Safe)'
  BY TypeStep, SafeStep
<1>3. TypeOK /\ Safe => Inductive
  BY DEF Safe, Inductive
<1> QED
  BY <1>1, <1>2, <1>3, PTL DEF Spec

\* Nobody but its own release removes or overwrites the lease of a reservation.
THEOREM LeasesStand == Spec => []LeaseBacksReservation
<1>1. Inductive => LeaseBacksReservation
  BY DEF Inductive
<1> QED
  BY <1>1, Invariance, PTL

\* Two reservations are never on one port, for any number of processes and ports.
THEOREM Exclusive == Spec => []MutualExclusion
<1>1. Inductive => MutualExclusion
  BY Exclusion DEF Inductive
<1> QED
  BY <1>1, Invariance, PTL

-----------------------------------------------------------------------------
(* The allocators implement PortRegistry. *)

EntryOf(a, r) == [by |-> a, port |-> r.port, tok |-> r.tok]

LEMMA InIssued ==
  \A e : e \in Issued <=> \E a \in Allocator : \E r \in held[a] : e = EntryOf(a, r)
BY DEF Issued, EntryOf

LEMMA InIssuedNext ==
  \A e : e \in Issued' <=> \E a \in Allocator : \E r \in held'[a] : e = EntryOf(a, r)
BY DEF Issued, EntryOf

LEMMA EntryInjective ==
  ASSUME NEW a \in Allocator, NEW b \in Allocator,
         NEW r \in Reservation, NEW q \in Reservation, EntryOf(a, r) = EntryOf(b, q)
  PROVE  a = b /\ r = q
BY DEF EntryOf, Reservation

\* WriteLease is the point at which a reservation takes effect.
LEMMA GrantStep ==
  ASSUME TypeOK, Safe, NEW a \in Allocator, WriteLease(a)
  PROVE  Registry!Grant
<1> DEFINE r == [port |-> port[a], tok |-> tok[a]]
           e == EntryOf(a, r)
<1>1. /\ port[a] \in Port /\ tok[a] \in Token
      /\ held' = [held EXCEPT ![a] = @ \cup {r}]
      /\ held \in [Allocator -> SUBSET Reservation]
      /\ file[port[a]].body = "empty"
  <2>1. file[port[a]] = [by |-> a, tok |-> tok[a], body |-> "empty"]
    BY DEF WriteLease, Safe, WritesOwnLease
  <2>2. port[a] \in Port /\ tok[a] \in Token /\ held \in [Allocator -> SUBSET Reservation]
    BY DEF TypeOK, ArgumentsSet, WriteLease
  <2> QED
    BY <2>1, <2>2 DEF WriteLease
<1>2. e \in Registry!Entry
  BY <1>1 DEF Registry!Entry, EntryOf, Port
<1>3. \A f \in Issued : f.port # e.port
  <2> SUFFICES ASSUME NEW b \in Allocator, NEW q \in held[b] PROVE q.port # port[a]
    BY InIssued DEF EntryOf
  <2> QED
    BY <1>1, Backed DEF Safe
<1>4. Issued' = Issued \cup {e}
  <2>1. ASSUME NEW f PROVE f \in Issued' <=> f \in Issued \cup {e}
    <3>1. \A b \in Allocator : \A q : q \in held'[b] <=> q \in held[b] \/ (b = a /\ q = r)
      BY <1>1
    <3> QED
      BY <3>1, InIssued, InIssuedNext
  <2> QED
    BY <2>1
<1> QED
  BY <1>2, <1>3, <1>4 DEF Registry!Grant

\* The end of release() removes the reservation, unless it was released before.
LEMMA ReturnStep ==
  ASSUME TypeOK, NEW a \in Allocator, Released(a), rel[a] \in Reservation
  PROVE  Registry!Return \/ UNCHANGED Issued
<1> DEFINE e == EntryOf(a, rel[a])
<1>1. /\ held' = [held EXCEPT ![a] = @ \ {rel[a]}]
      /\ held \in [Allocator -> SUBSET Reservation]
  BY DEF TypeOK, Released
<1>2. Issued' = Issued \ {e}
  <2>1. ASSUME NEW f PROVE f \in Issued' <=> f \in Issued \ {e}
    <3>1. \A b \in Allocator : \A q : q \in held'[b] <=> q \in held[b] /\ ~(b = a /\ q = rel[a])
      BY <1>1
    <3>2. \A b \in Allocator : \A q \in held[b] : EntryOf(b, q) = e => b = a /\ q = rel[a]
      BY <1>1, EntryInjective
    <3> QED
      BY <3>1, <3>2, InIssued, InIssuedNext
  <2> QED
    BY <2>1
<1> QED
  BY <1>2 DEF Registry!Return

LEMMA DieStep ==
  ASSUME TypeOK, NEW x \in Proc, Crash(x)
  PROVE  Registry!Die(x)
<1>1. /\ held' = [a \in Allocator |-> IF ProcOf[a] = x THEN {} ELSE held[a]]
      /\ held \in [Allocator -> SUBSET Reservation]
  BY DEF TypeOK, Crash
<1>2. ASSUME NEW f PROVE f \in Issued' <=> f \in Issued /\ ProcOf[f.by] # x
  <2>1. \A b \in Allocator : \A q : q \in held'[b] <=> q \in held[b] /\ ProcOf[b] # x
    BY <1>1
  <2>2. \A b \in Allocator : \A q : EntryOf(b, q).by = b
    BY DEF EntryOf
  <2> QED
    BY <2>1, <2>2, InIssued, InIssuedNext
<1> QED
  BY <1>2 DEF Registry!Die

LEMMA RegistryStep ==
  ASSUME TypeOK, Safe, [Next]_vars
  PROVE  [Registry!Next]_Issued
<1>1. CASE UNCHANGED held
  BY <1>1 DEF Issued
<1>2. ASSUME NEW a \in Allocator, Progress(a), held' # held PROVE [Registry!Next]_Issued
  <2>1. CASE WriteLease(a)
    BY <2>1, GrantStep DEF Registry!Next
  <2>2. CASE ReleaseRead(a) \/ ReleaseUnlink(a)
    <3>1. Released(a) /\ rel[a] \in Reservation
      BY <1>2, <2>2 DEF ReleaseRead, ReleaseUnlink, TypeOK, ArgumentsSet
    <3> QED
      BY <3>1, ReturnStep DEF Registry!Next
  <2>3. ~(Bind(a) \/ AlreadyClaimed(a) \/ Create(a) \/ Exists(a) \/ ReadOwner(a)
          \/ Probe(a) \/ UnlinkStale(a) \/ WriteFails(a))
    BY <1>2 DEF Bind, AlreadyClaimed, Create, Exists, ReadOwner, Probe, UnlinkStale,
                WriteFails, issueVars
  <2> QED
    BY <1>2, <2>1, <2>2, <2>3 DEF Progress
<1>3. ASSUME NEW a \in Allocator, Call(a) PROVE UNCHANGED held
  BY <1>3 DEF Call, StartReserve, Handoff, StartRelease, issueVars
<1>4. ASSUME NEW x \in Proc, Crash(x) PROVE [Registry!Next]_Issued
  BY <1>4, DieStep DEF Registry!Next
<1>5. ASSUME NEW x \in Proc, Restart(x) PROVE UNCHANGED held
  BY <1>5 DEF Restart, issueVars
<1>6. ASSUME NEW p \in Port, OtherBinds(p) \/ OtherCloses(p) PROVE UNCHANGED held
  BY <1>6 DEF OtherBinds, OtherCloses, issueVars
<1>7. UNCHANGED vars => UNCHANGED held
  BY DEF vars, issueVars
<1> QED
  BY <1>1, <1>2, <1>3, <1>4, <1>5, <1>6, <1>7 DEF Next, Environment

\* All allocators of the host, with their races, crashes and stale files, behave
\* as one atomic registry that grants a free port and takes it back.
THEOREM Refinement == Spec => ImplementsRegistry
<1>1. Init => Registry!Init
  BY InIssued DEF Init, Registry!Init
<1>2. Inductive /\ [Next]_vars => [Registry!Next]_Issued
  BY RegistryStep DEF Inductive, Safe
<1>3. QED
  BY <1>1, <1>2, Invariance, PTL DEF Spec, ImplementsRegistry, Registry!Spec
=============================================================================
