--------------------------- MODULE PortAllocator ---------------------------
(***************************************************************************)
(* PortAllocator of src/vice_next_mcp/process.py: the reservation of       *)
(* loopback ports shared by every Supervisor, ProcessController and batch  *)
(* runner on a host.  A port is reserved by a bound socket together with a *)
(* lease file created with O_EXCL; the socket is closed (handoff) before   *)
(* VICE is spawned, and from then on only the file protects the port.      *)
(*                                                                         *)
(* One operation of an allocator runs at a time (its RLock).  Allocators   *)
(* of different processes, and the several allocators of one process,      *)
(* interleave between system calls: bind, open, read, kill(pid, 0),        *)
(* unlink and write are separate steps.  A process may crash between any   *)
(* two of them, and its pid may later belong to a new process.             *)
(***************************************************************************)
EXTENDS Integers

CONSTANTS
  Allocator,  \* the PortAllocator objects
  Proc,       \* operating-system processes, named by their pid
  ProcOf,     \* ProcOf[a] is the process that runs allocator a
  MaxPort,    \* ports are 1 .. MaxPort (65535 in the code)
  Token,      \* uuid4 tokens; their number bounds the leases ever created
  Other,      \* a listener that is not an allocator: VICE, or any program
  None

ASSUME ConstantsOK ==
  /\ ProcOf \in [Allocator -> Proc]
  /\ MaxPort \in Nat \ {0}
  /\ Other \notin Allocator
  /\ None \notin Allocator \cup Proc \cup Token \cup {Other}

Port == 1 .. MaxPort

\* A Reservation: the port and the token of its lease file.
Reservation == [port : Port, tok : Token]

\* A lease file names its inode by the token it will contain.  "body"
\* is empty from open(O_EXCL) until the JSON payload has been written.
LeaseFile == [by : Allocator, tok : Token, body : {"empty", "full"}]
NoFile == [by |-> None, tok |-> None, body |-> "empty"]
FileState == LeaseFile \cup {NoFile}

VARIABLES
  alive,   \* the pids that exist
  bound,   \* who has a socket bound to the port: None, Other or an allocator
  file,    \* the lease file of the port
  used,    \* the tokens generated so far
  pc,      \* where the allocator's current operation is
  port,    \* the candidate port of reserve()
  eph,     \* TRUE when reserve() was called without a preferred port
  retry,   \* TRUE in the second round of _claim_file
  tok,     \* the token of the lease file being written
  seen,    \* the pid _claim_file read from an existing lease file
  rel,     \* the reservation being released
  claims,  \* _claims
  held,    \* the reservations issued and not yet fully released
  old,     \* handles of released reservations that are still referenced
  open     \* the reservations whose socket has not been handed off

reserveVars == <<port, eph, retry, tok, seen>>
issueVars == <<claims, held, old, open>>
vars == <<alive, bound, file, used, pc, reserveVars, rel, issueVars>>

Running(a) == ProcOf[a] \in alive
Idle(a) == pc[a] \in {"idle", "failed"}

\* The steps of reserve() during which its socket is bound to port[a].
Sitting == {"create", "read", "probe", "unlink", "write"}
Step == Sitting \cup {"idle", "failed", "bind", "relread", "relunlink"}

\* The locals a step relies on have been assigned.
ArgumentsSet ==
  \A a \in Allocator :
    /\ pc[a] = "write" => tok[a] \in Token
    /\ pc[a] \in {"relread", "relunlink"} => rel[a] \in Reservation

TypeOK ==
  /\ alive \subseteq Proc
  /\ bound \in [Port -> Allocator \cup {None, Other}]
  /\ file \in [Port -> FileState]
  /\ used \subseteq Token
  /\ pc \in [Allocator -> Step]
  /\ port \in [Allocator -> Port]
  /\ eph \in [Allocator -> BOOLEAN]
  /\ retry \in [Allocator -> BOOLEAN]
  /\ tok \in [Allocator -> Token \cup {None}]
  /\ seen \in [Allocator -> Proc \cup {None}]
  /\ rel \in [Allocator -> Reservation \cup {None}]
  /\ claims \in [Allocator -> SUBSET Port]
  /\ held \in [Allocator -> SUBSET Reservation]
  /\ old \in [Allocator -> SUBSET Reservation]
  /\ open \in [Allocator -> SUBSET Reservation]
  /\ ArgumentsSet

Init ==
  /\ alive = Proc
  /\ bound = [p \in Port |-> None]
  /\ file = [p \in Port |-> NoFile]
  /\ used = {}
  /\ pc = [a \in Allocator |-> "idle"]
  /\ port = [a \in Allocator |-> 1]
  /\ eph = [a \in Allocator |-> FALSE]
  /\ retry = [a \in Allocator |-> FALSE]
  /\ tok = [a \in Allocator |-> None]
  /\ seen = [a \in Allocator |-> None]
  /\ rel = [a \in Allocator |-> None]
  /\ claims = [a \in Allocator |-> {}]
  /\ held = [a \in Allocator |-> {}]
  /\ old = [a \in Allocator |-> {}]
  /\ open = [a \in Allocator |-> {}]

-----------------------------------------------------------------------------
(* reserve(preferred): try each candidate in turn; LaunchError when none is left. *)

StartReserve(a) ==
  /\ Running(a) /\ Idle(a)
  /\ pc' = [pc EXCEPT ![a] = "bind"]
  /\ \E p \in Port, e \in BOOLEAN :
       /\ port' = [port EXCEPT ![a] = p]
       /\ eph' = [eph EXCEPT ![a] = e]
  /\ UNCHANGED <<alive, bound, file, used, retry, tok, seen, rel, issueVars>>

\* reserve() ends, with a Reservation or with LaunchError.
Ends(a, how) ==
  /\ pc' = [pc EXCEPT ![a] = how]
  /\ port' = [port EXCEPT ![a] = 1]
  /\ eph' = [eph EXCEPT ![a] = FALSE]

\* Mutant of NextCandidate: the range of candidates has no end.
NextCandidateUnbounded(a) ==
  IF eph[a]
  THEN Ends(a, "failed")
  ELSE /\ pc' = [pc EXCEPT ![a] = "bind"]
       /\ port' = [port EXCEPT ![a] = @ + 1]
       /\ UNCHANGED eph

\* The for loop moves on: the next port upward, or LaunchError.
NextCandidate(a) ==
  IF eph[a] \/ port[a] = MaxPort
  THEN Ends(a, "failed")
  ELSE /\ pc' = [pc EXCEPT ![a] = "bind"]
       /\ port' = [port EXCEPT ![a] = @ + 1]
       /\ UNCHANGED eph

\* sock.close() and continue.
GiveUp(a) ==
  /\ bound' = [bound EXCEPT ![port[a]] = None]
  /\ retry' = [retry EXCEPT ![a] = FALSE]
  /\ NextCandidate(a)

\* bind(): the kernel picks a free port for candidate 0, and refuses one in use.
Bind(a) ==
  /\ Running(a) /\ pc[a] = "bind"
  /\ LET wanted == IF eph[a] THEN Port ELSE {port[a]}
     IN \/ \E p \in wanted :
             /\ bound[p] = None
             /\ bound' = [bound EXCEPT ![p] = a]
             /\ port' = [port EXCEPT ![a] = p]
             /\ pc' = [pc EXCEPT ![a] = "create"]
             /\ UNCHANGED eph
        \/ /\ \A p \in wanted : bound[p] # None
           /\ NextCandidate(a)
           /\ UNCHANGED bound
  /\ UNCHANGED <<alive, file, used, retry, tok, seen, rel, issueVars>>

\* The port is already in _claims.
AlreadyClaimed(a) ==
  /\ Running(a) /\ pc[a] = "create"
  /\ port[a] \in claims[a]
  /\ GiveUp(a)
  /\ UNCHANGED <<alive, file, used, tok, seen, rel, issueVars>>

\* Mutant of Create: open() without O_EXCL.
CreateNotExclusive(a) ==
  /\ Running(a) /\ pc[a] = "create"
  /\ port[a] \notin claims[a]
  /\ \E t \in Token \ used :
       /\ used' = used \cup {t}
       /\ tok' = [tok EXCEPT ![a] = t]
       /\ file' = [file EXCEPT ![port[a]] = [by |-> a, tok |-> t, body |-> "empty"]]
  /\ pc' = [pc EXCEPT ![a] = "write"]
  /\ UNCHANGED <<alive, bound, port, eph, retry, seen, rel, issueVars>>

\* open(O_CREAT | O_EXCL) succeeds: the file exists, still without its payload.
Create(a) ==
  /\ Running(a) /\ pc[a] = "create"
  /\ port[a] \notin claims[a]
  /\ file[port[a]] = NoFile
  /\ \E t \in Token \ used :
       /\ used' = used \cup {t}
       /\ tok' = [tok EXCEPT ![a] = t]
       /\ file' = [file EXCEPT ![port[a]] = [by |-> a, tok |-> t, body |-> "empty"]]
  /\ pc' = [pc EXCEPT ![a] = "write"]
  /\ UNCHANGED <<alive, bound, port, eph, retry, seen, rel, issueVars>>

\* FileExistsError.
Exists(a) ==
  /\ Running(a) /\ pc[a] = "create"
  /\ port[a] \notin claims[a]
  /\ file[port[a]] # NoFile
  /\ pc' = [pc EXCEPT ![a] = "read"]
  /\ UNCHANGED <<alive, bound, file, used, reserveVars, rel, issueVars>>

\* read_text and json.loads: a missing or unfinished file counts as pid -1 (None here).
ReadOwner(a) ==
  /\ Running(a) /\ pc[a] = "read"
  /\ LET f == file[port[a]]
     IN seen' = [seen EXCEPT ![a] = IF f.body = "full" THEN ProcOf[f.by] ELSE None]
  /\ pc' = [pc EXCEPT ![a] = "probe"]
  /\ UNCHANGED <<alive, bound, file, used, port, eph, retry, tok, rel, issueVars>>

\* Mutant of Probe: a lease met for the first time is taken for stale.
ProbeUnconditional(a) ==
  /\ Running(a) /\ pc[a] = "probe"
  /\ \/ retry[a] /\ GiveUp(a)
     \/ /\ ~retry[a]
        /\ pc' = [pc EXCEPT ![a] = "unlink"]
        /\ UNCHANGED <<bound, port, eph, retry>>
  /\ seen' = [seen EXCEPT ![a] = None]
  /\ UNCHANGED <<alive, file, used, tok, rel, issueVars>>

\* _pid_alive: a live owner keeps its lease, anybody else's is removed.  The processes
\* are of one user: kill() refuses to signal another's, and refused counts as dead.
Probe(a) ==
  /\ Running(a) /\ pc[a] = "probe"
  /\ \/ seen[a] \in alive /\ GiveUp(a)
     \/ /\ seen[a] \notin alive
        /\ pc' = [pc EXCEPT ![a] = "unlink"]
        /\ UNCHANGED <<bound, port, eph, retry>>
  /\ seen' = [seen EXCEPT ![a] = None]
  /\ UNCHANGED <<alive, file, used, tok, rel, issueVars>>

\* path.unlink() removes whatever file is there now, unless it fails, which is
\* suppressed; then the second round, or None after two rounds.
UnlinkStale(a) ==
  /\ Running(a) /\ pc[a] = "unlink"
  /\ file' \in {[file EXCEPT ![port[a]] = NoFile], file}
  /\ \/ /\ ~retry[a]
        /\ retry' = [retry EXCEPT ![a] = TRUE]
        /\ pc' = [pc EXCEPT ![a] = "create"]
        /\ UNCHANGED <<bound, port, eph>>
     \/ retry[a] /\ GiveUp(a)
  /\ UNCHANGED <<alive, used, tok, seen, rel, issueVars>>

\* The payload goes to the open descriptor: it appears under the path only if
\* the file is still the one created.  reserve() then returns the reservation.
WriteLease(a) ==
  /\ Running(a) /\ pc[a] = "write"
  /\ file' = IF file[port[a]].tok = tok[a]
             THEN [file EXCEPT ![port[a]] = [by |-> a, tok |-> tok[a], body |-> "full"]]
             ELSE file
  /\ LET r == [port |-> port[a], tok |-> tok[a]]
     IN /\ held' = [held EXCEPT ![a] = @ \cup {r}]
        /\ open' = [open EXCEPT ![a] = @ \cup {r}]
  /\ claims' = [claims EXCEPT ![a] = @ \cup {port[a]}]
  /\ Ends(a, "idle")
  /\ retry' = [retry EXCEPT ![a] = FALSE]
  /\ tok' = [tok EXCEPT ![a] = None]
  /\ UNCHANGED <<alive, bound, used, seen, rel, old>>

\* The write raises OSError (disk full): the unfinished file stays behind.
WriteFails(a) ==
  /\ Running(a) /\ pc[a] = "write"
  /\ GiveUp(a)
  /\ tok' = [tok EXCEPT ![a] = None]
  /\ UNCHANGED <<alive, file, used, seen, rel, issueVars>>

-----------------------------------------------------------------------------
(* Reservation.handoff() and release(item). *)

\* Closing the socket of r is idempotent; bound tracks only an open socket.
CloseSocket(a, r) ==
  /\ bound' = IF r \in open[a] THEN [bound EXCEPT ![r.port] = None] ELSE bound
  /\ open' = [open EXCEPT ![a] = @ \ {r}]

\* Supervisor.create, ProcessController.launch and handoff_port call it
\* without the allocator's lock.
Handoff(a) ==
  /\ Running(a)
  /\ \E r \in held[a] \cup old[a] : CloseSocket(a, r)
  /\ UNCHANGED <<alive, file, used, pc, reserveVars, rel, claims, held, old>>

\* A reservation may be released twice: ViceProcess.stop can run again, and
\* two threads in Supervisor.stop both see the reservation.
StartRelease(a) ==
  /\ Running(a) /\ Idle(a)
  /\ \E r \in held[a] \cup old[a] :
       /\ CloseSocket(a, r)
       /\ claims' = [claims EXCEPT ![a] = @ \ {r.port}]
       /\ rel' = [rel EXCEPT ![a] = r]
  /\ pc' = [pc EXCEPT ![a] = "relread"]
  /\ UNCHANGED <<alive, file, used, reserveVars, held, old>>

\* The end of release(): the handle is spent.
Released(a) ==
  /\ held' = [held EXCEPT ![a] = @ \ {rel[a]}]
  /\ old' = [old EXCEPT ![a] = @ \cup {rel[a]}]
  /\ rel' = [rel EXCEPT ![a] = None]
  /\ pc' = [pc EXCEPT ![a] = "idle"]

\* Mutant of ReleaseRead: release() does not compare tokens.
ReleaseReadAnyToken(a) ==
  /\ Running(a) /\ pc[a] = "relread"
  /\ LET f == file[rel[a].port]
     IN IF f.body = "full"
        THEN pc' = [pc EXCEPT ![a] = "relunlink"] /\ UNCHANGED <<held, old, rel>>
        ELSE Released(a)
  /\ UNCHANGED <<alive, bound, file, used, reserveVars, claims, open>>

\* Only a lease file that carries this reservation's token will be removed.
ReleaseRead(a) ==
  /\ Running(a) /\ pc[a] = "relread"
  /\ LET f == file[rel[a].port]
     IN IF f.body = "full" /\ f.tok = rel[a].tok
        THEN pc' = [pc EXCEPT ![a] = "relunlink"] /\ UNCHANGED <<held, old, rel>>
        ELSE Released(a)
  /\ UNCHANGED <<alive, bound, file, used, reserveVars, claims, open>>

ReleaseUnlink(a) ==
  /\ Running(a) /\ pc[a] = "relunlink"
  /\ file' = [file EXCEPT ![rel[a].port] = NoFile]
  /\ Released(a)
  /\ UNCHANGED <<alive, bound, used, reserveVars, claims, open>>

-----------------------------------------------------------------------------
(* The environment. *)

\* A process dies: its sockets close and its memory is gone, its files stay.
Crash(x) ==
  /\ x \in alive
  /\ alive' = alive \ {x}
  /\ LET dead == {a \in Allocator : ProcOf[a] = x}
         Wipe(f, init) == [a \in Allocator |-> IF a \in dead THEN init ELSE f[a]]
     IN /\ bound' = [p \in Port |-> IF bound[p] \in dead THEN None ELSE bound[p]]
        /\ pc' = Wipe(pc, "idle") /\ port' = Wipe(port, 1) /\ eph' = Wipe(eph, FALSE)
        /\ retry' = Wipe(retry, FALSE) /\ tok' = Wipe(tok, None)
        /\ seen' = Wipe(seen, None) /\ rel' = Wipe(rel, None)
        /\ claims' = Wipe(claims, {}) /\ held' = Wipe(held, {})
        /\ old' = Wipe(old, {}) /\ open' = Wipe(open, {})
  /\ UNCHANGED <<file, used>>

\* The pid is reused: a new process runs under it.
Restart(x) ==
  /\ x \in Proc \ alive
  /\ alive' = alive \cup {x}
  /\ UNCHANGED <<bound, file, used, pc, reserveVars, rel, issueVars>>

\* VICE binds the port it was given, or an unrelated program takes a free one.
OtherBinds(p) ==
  /\ bound[p] = None
  /\ bound' = [bound EXCEPT ![p] = Other]
  /\ UNCHANGED <<alive, file, used, pc, reserveVars, rel, issueVars>>

OtherCloses(p) ==
  /\ bound[p] = Other
  /\ bound' = [bound EXCEPT ![p] = None]
  /\ UNCHANGED <<alive, file, used, pc, reserveVars, rel, issueVars>>

-----------------------------------------------------------------------------

\* The steps of an operation in progress.
Progress(a) ==
  \/ Bind(a) \/ AlreadyClaimed(a) \/ Create(a) \/ Exists(a) \/ ReadOwner(a)
  \/ Probe(a) \/ UnlinkStale(a) \/ WriteLease(a) \/ WriteFails(a)
  \/ ReleaseRead(a) \/ ReleaseUnlink(a)

Call(a) == StartReserve(a) \/ Handoff(a) \/ StartRelease(a)

Environment ==
  \/ \E x \in Proc : Crash(x) \/ Restart(x)
  \/ \E p \in Port : OtherBinds(p) \/ OtherCloses(p)

Next == (\E a \in Allocator : Progress(a) \/ Call(a)) \/ Environment

Spec == Init /\ [][Next]_vars

-----------------------------------------------------------------------------
(* Safety. *)

\* The lease of an issued reservation is on disk, complete and unchanged, until
\* its own release removes it: no interleaving of reclaims, crashes and releases
\* of other processes deletes or overwrites it (_claim_file, release).
LeaseBacksReservation ==
  \A a \in Allocator : \A r \in held[a] :
    file[r.port] = [by |-> a, tok |-> r.tok, body |-> "full"]

\* No two reservations of the host are on the same port, whichever allocator of
\* whichever process issued them and whether or not their sockets are still open.
MutualExclusion ==
  \A a, b \in Allocator : \A r \in held[a], q \in held[b] :
    r.port = q.port => a = b /\ r = q

\* While _claim_file works on a port the socket of reserve() is bound to it, and
\* no earlier reservation of the same allocator still has an open socket there.
SitterOwnsPort ==
  \A a \in Allocator : pc[a] \in Sitting =>
    /\ bound[port[a]] = a
    /\ \A r \in open[a] : r.port # port[a]

\* The socket of a reservation stays bound until the hand-off.
OpenOwnsPort ==
  \A a \in Allocator : \A r \in open[a] : r \in held[a] /\ bound[r.port] = a

\* Reservations are the memory of a live process.
HolderRuns == \A a \in Allocator : held[a] # {} => Running(a)

\* os.kill is asked about the holder of the port, if there is one, ...
ProbesHolder ==
  \A a, b \in Allocator : \A r \in held[a] :
    pc[b] = "probe" /\ port[b] = r.port => seen[b] = ProcOf[a]

\* ... so the file about to be unlinked as stale backs no reservation.
UnlinksOnlyStale ==
  \A a, b \in Allocator : \A r \in held[a] : pc[b] = "unlink" => port[b] # r.port

\* The payload is written to the file that was created for it.
WritesOwnLease ==
  \A a \in Allocator : pc[a] = "write" =>
    file[port[a]] = [by |-> a, tok |-> tok[a], body |-> "empty"]

\* A released token never comes back to the disk, so a second release of the
\* same handle cannot remove the lease of a newer reservation.
TokensSpent ==
  /\ \A p \in Port : file[p].tok \in used \cup {None}
  /\ \A a \in Allocator : \A r \in held[a] : r.tok \in used
  /\ \A a \in Allocator : \A r \in old[a] : r.tok \in used /\ file[r.port].tok # r.tok

\* release() unlinks the lease of a reservation that is still held.
ReleasesOwn ==
  \A a \in Allocator :
    /\ pc[a] \in {"relread", "relunlink"} => rel[a] \in (held[a] \cup old[a]) \ open[a]
    /\ pc[a] = "relunlink" => rel[a] \in held[a]

\* The inductive invariant behind LeaseBacksReservation and MutualExclusion.
Inductive ==
  /\ TypeOK
  /\ LeaseBacksReservation
  /\ SitterOwnsPort
  /\ OpenOwnsPort
  /\ HolderRuns
  /\ ProbesHolder
  /\ UnlinksOnlyStale
  /\ WritesOwnLease
  /\ TokensSpent
  /\ ReleasesOwn

-----------------------------------------------------------------------------
(* The promise to the callers. *)

Issued == UNION {{[by |-> a, port |-> r.port, tok |-> r.tok] : r \in held[a]} : a \in Allocator}

Registry == INSTANCE PortRegistry WITH issued <- Issued

\* The allocators of all processes together implement one registry of ports.
ImplementsRegistry == Registry!Spec
=============================================================================
