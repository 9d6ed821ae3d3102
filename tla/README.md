# A TLA+ model of vice-next-mcp

`vice-next-mcp` starts VICE emulators, talks to their binary monitors, and offers
both to MCP clients and to batch jobs. This directory holds TLA+ modules of the
parts where processes, threads, asyncio tasks and VICE itself interleave, the TLC
configurations that check them on small instances, and proofs, for instances of any
size, about seven of the modules. Paths such as `process.py:84` are relative to
`src/vice_next_mcp/` in the repository.

Check a run with `tlc -config X.cfg MCm`, and the proofs about module M with
`tlapm MProofs.tla`. `PROJECT.json` lists the runs, the theorems, the source lines
each definition stands for, and the hazards the properties are for.

## The system

| part | state | operations | hard behaviour | correct when |
|---|---|---|---|---|
| Port allocator (`process.py`) | lease files, sockets, `_claims` | `reserve`, `handoff`, `release` | several processes share one directory of files; crashes; pid reuse; unfinished files | a port is never granted twice, a lease stands until its release |
| Process controller (`process.py`) | child, log pumps, directories, reservation | `launch`, `ViceProcess.stop` | cancellation at every await; `stop` twice or by two tasks; a VICE that is late, silent or gone | a failed launch leaves nothing; a VICE that runs keeps its port and its pumps |
| Async monitor transport (`monitor.py`) | connection, slots, write lock, `_pending`, event queue | `connect`, `execute`, `next_event`, `close`, `reconnect` | tasks suspended at four awaits; late, reordered, lost replies; reconnects | replies are correlated, slots and futures are never lost, every call ends |
| Sync monitor client (`monitor_sync.py`) | socket, `_id`, events | `call` and the operations made of calls | several threads, timeouts that leave replies and partial frames in the stream, wrap-around | a reply is that of the call, a client out of step never passes for one in step |
| Supervisor (`supervisor.py`) | `_instances`, per instance state, process, monitor, reservation, lease | `create`, `stop`, `restart`, `close`, `lease`, `release` | callers in threads with a lock around single look-ups only; VICE dies at any time | a running VICE has its port, stopped is down, no process is lost, generations grow |
| Live MCP bridge (`server.py`, `live_mcp.py`, `operations.py`, `transport_runtime.py`) | cancel events; reads and writes the instances | `tools/call`, cancellation | worker threads outlive deadlines; the instance changes between admission and effect | answers are true about effects; every request is answered |
| Batch runner (`batch.py`) | `_PORT_LOCK`, reservation table, futures, results | `allocate_ports`, `release_ports`, `handoff_port`, `run` | thread pool, `fail_fast`, exhausted ports | ports are isolated and returned; the report is complete |
| IEC capture (`iec_capture.py`) | sessions over a growing file | `start`, `read`, `stop`, `status` | partial records, limits | every record once and in order |
| Keyboard queue, catalogue, models, CLI, pytest plugin, artifact helpers | | | data, I/O, formatting, or unused | not modelled, see below |

The supervisor, the process controller and the batch runner take their ports from the
port allocator and hand them to VICE processes. The process controller tests readiness
with the asynchronous transport. The bridge resolves an instance in the supervisor,
and a worker thread calls that instance's synchronous monitor.

## Modules

    PortRegistry      what the allocators promise together
      ^ implemented by
    PortAllocator     <-- PortAllocatorProofs       MCPortAllocator
      used (UsesRegistry, proved) by ProcessLaunch, Supervisor and LiveMcp
    ProcessLaunch     <-- ProcessLaunchProofs       MCProcessLaunch
    MonitorTransport  <-- MonitorTransportProofs    MCMonitorTransport
    SyncMonitor       <-- SyncMonitorProofs         MCSyncMonitor
    Supervisor        <-- SupervisorProofs          MCSupervisor
      ^ extended by
    LiveMcp           <-- LiveMcpProofs             MCLiveMcp
    BatchRun          <-- BatchRunProofs            MCBatchRun
    CaptureWindow     what an IEC capture promises
      ^ implemented by
    IecCapture        <-- IecCaptureProofs          MCIecCapture

Definitions introduced by a comment "Mutant of X" are X with a plausible bug. No
specification uses them; substituted for X, each makes TLC find the property that
`PROJECT.json` names violated, which shows that the property depends on the code.

### PortAllocator, PortRegistry

An allocator (`Allocator`) lives in a process (`ProcOf`), and several processes share
`file`, the lease directory, and `bound`, the kernel's table of sockets. Each system
call of `reserve()` and `release()` is an action: `Bind`, `Create` (O_EXCL),
`ReadOwner`, `Probe` (`os.kill(pid, 0)`), `UnlinkStale`, `WriteLease`. The allocator's
`_lock` makes its operations exclusive of each other, so an allocator has one `pc`.
`Handoff` takes no lock and may happen at any time. A lease file is `empty` between
its creation and the write of its payload. `Crash` loses a process's memory and
sockets and keeps its files; `Restart` runs a new process under the same pid.
`OtherBinds` is VICE, or any other program, on a port. The processes belong to one user:
`kill(pid, 0)` of another user's process is refused, and `_pid_alive` takes that for a
dead one (`process.py:66`). A stale file may fail to be removed, which is suppressed
(`process.py:84`); that an allocator cannot remove its own lease is left out.

`PortRegistry` is the promise: one atomic set of reservations, at most one per port,
each ended by its holder's release or its process's death.

### ProcessLaunch

A task launches one VICE, which has the task's name, and then stops whatever VICE it
likes, its own or another's (`CallStop`). `pc` is the await it is suspended at, in
`launch()` ("spawning" to "gathering") or in `stop()` ("terminating" to "reaping");
`cur` is the VICE whose `stop()` it is in. `Cancel` raises CancelledError at that
await, and each await takes it differently: the readiness loop catches it as the
failure of a probe (`ProbeFails`), `sleep()` and `gather()` let it out of `launch()`,
`stop()` runs its finally clause. `stray` is the connection of a probe that connected
and then failed, which nothing closes but the end of VICE. The allocator is the atomic
registry that `PortAllocator` implements.

### MonitorTransport

An action is what a task does between two awaits that suspend. `pc` of a request is
where its `execute()` waits: for a slot (`slotQ` is the semaphore's queue), for the
write lock (`lockQ`), in `drain()`, or for its reply. `fut` is its future; `pending`
is `_pending`. `life` is what the holder of `_life` is doing, so `close()` is three
actions between which other tasks run. `admittedOn` and `sentOn` record the
connection a request was admitted on and written to. `unanswered` is VICE's side.

### SyncMonitor

An operation of a thread is a number of calls (`todo`), each under the lock from
`Send` to the reply; the operations of several threads alternate call by call. A
request is its number, its id that number modulo `IdSpace`, and the last id is that
of events, as 0xFFFFFFFF is in the code. `stream` is what is on its way to the
client: replies by their request's number, events, and the rest of a frame that a
timeout cut (`Rest`), whose bytes are then read as a header (`Misread`). `Close` is
`stop()` on another thread, without the lock. Frame bodies are left out: decoding one
either succeeds or raises (`Rejects`). Two assumptions stand in for the bytes: `sendall()`
passes a request whole or, on a closed connection, fails (in the code it may also time out
part-way, `monitor_sync.py:42`, after which VICE reads a mixture of two requests), and no
12 bytes taken from inside a frame begin with 02 02 as a header does (`monitor_sync.py:47`).

### Supervisor

A thread's `pc` walks through `create()` and `stop()` one statement with an effect at
a time; `restart()` and `close()` call `stop()` and go on (`then`). Objects are the
`Instance` objects ever made, `registry` is `_instances`. `claim` is the port an
object's reservation holds in the allocator, which is taken to be the atomic registry
that `PortAllocator` implements; `hasPort` says that `port_reservation` is not None,
which differs while a child is starting. `SlowKill` lets a process outlive SIGKILL by
the two seconds the code waits. `Escapes` is `create()` raising after its reservation where
nothing gives it back. The check, the release and the clearing of `port_reservation` in
`stop()` are three steps (`Release`, `GiveBack`, `Clear`).

Only single look-ups take the lock of the class, so what a caller may count on depends
on the other callers. Whatever they do, a running VICE has its port and stopped is down.
While the calls in progress are about different ids (`Separate`) no process and no port
is lost, but for the port of a `create()` that raised half-way (`Stranded`), and
generations grow; while nothing is created or restarted (`Quiet`) a `close()`
leaves nothing registered running. Both are conditions on the callers; the code enforces
neither, and without them two threads violate the four properties. The command line meets
both: it creates one instance and closes in the end (`cli.py:98` to `cli.py:123`).

### LiveMcp

Extends `Supervisor`. `Handle` is one turn of the event loop, from the message to the
creation of the task that `Submit` starts; `Executed`, `Observed` and `Timeout` are the
later turns that may answer. The worker thread has its own steps: `Fetch` (the second
look-up), one `Transmit` and `CallEnds` for every monitor call of the operation (`calls`
says how many it makes: `step.instruction`, `keyboard.matrix` and `registers.set` may make
several, `keyboard.matrix` also none, a typed text is one), `Trace` for an operation on
the IEC trace, and `WriteState`. `Perform` is VICE, which also carries out a command whose
caller has given up. `Timeout` answers while the worker goes on. States the worker writes
are distinct from the members of the enumeration (`"str_running"`), because
`Instance.state.value` works only on those. The reply `internal` is -32603. A failed
instance offers none of the operations of the catalogue, and the check for a transient
state never fires, as no instance is registered while it starts.

### BatchRun

`lock` is `_PORT_LOCK`. A thread that wants it is at `allocate`, `unwind` or
`release`; `unwind` is the except clause of `allocate_ports`, which wants the lock
while it has it. `fut` follows a future from `pending` to its end; `cancelled` becomes
`notified` when a pool thread drops it, because only then does `as_completed()` yield
it. `Offered` is the search from a base port or for an ephemeral one, and `Refused` how it
fails: from a base port when all ports from there on are leased, for an ephemeral one when
the one port that the kernel picks is, which may be any leased port without a bound socket
(`Unbound`). A failure under `fail_fast` takes the calling thread through `Collect`,
`Signal` and one `CancelNext` per future, while pool threads go on to `Take` futures, to
`Test` the event, and to hand their ports off.

### IecCapture, CaptureWindow

`log` is the trace file, in parts smaller than a record, because VICE writes through a
buffer and the file may end anywhere when the reader looks. `Start`, `Read` and `Stop` are
atomic (`_lock`); `Write` is VICE between them. `Drain` is `_drain`. A line is known by
the position it ends at: `EventEnds` are those whose line `json.loads` accepts,
`MalformedEnds` those it does not, `Consumed` is where the loop stops and `Rest` what it
puts back. A line that parses is taken to be an object, as VICE writes them: of any other,
`_normalize` makes the call fail with the file read and its events lost
(`iec_capture.py:116`). `status()` changes nothing and has no action. `from` and
`delivered` are history. A `capture_id` other than the session's is refused without
effect, so it is left out.

`CaptureWindow` is the promise: the records completed since the start, handed out in
order, each once.

## Runs

Passing runs, with the distinct states TLC finds:

| run | bounds | states | shows |
|---|---|---|---|
| PortAllocator | 3 allocators in 2 processes, 2 ports, 2 tokens | 1.2 M | exclusion, leases stand, refinement of PortRegistry |
| ProcessLaunch | 3 tasks, 2 directories, 2 ports, 1 cancellation | 144 k | failed launches leave nothing, running VICEs are served, calls end |
| MonitorTransport | 3 requests, 2 slots, 3 ids, 2 connections, 3 events for a queue of 2 | 2.4 M | correlation, slots, futures, unexpected replies; events in order, drops counted |
| MonitorTransportLive | 3 requests, 2 slots, 2 ids, 1 connection | 237 k | calls end unless a `drain()` hangs; distinct ids across wrap-around |
| SyncMonitor | 2 threads, 7 calls, 5 ids, operations of 1 or 2 calls, up to 3 lost replies, 1 event | 378 k | own replies only, out of step means failing until the wrap, operations end |
| Supervisor | 2 threads, 2 ids, 3 objects, 2 ports, 1 token, slow kills | 7.1 M | ports leased while running, stopped is down |
| LiveMcp | 1 request, 1 supervisor thread, 2 ids, 2 objects, 2 ports, 2 monitor calls | 3.2 M | truthful answers; answers come; the requests' writes cost the supervisor nothing: nothing is lost but what a `create()` that raised had, generations grow, `close()` stops all |
| BatchRun | 2 runs of 2 cases, one with a base port, 2 workers, 4 ports, 1 taken | 3.0 M | isolation and return of ports, complete reports, `fail_fast`, nothing gets stuck but by being refused a port |
| IecCapture | 4 records, 2 captures, limits 0 to 2 | 20 k | every record once and in order, complete means complete, reads catch up |

Three allocators are two in a process, where `_claims` is not shared, and one in
another; two ports are enough for a candidate to be passed over, two tokens for a
stale lease and a new one. Three tasks are a launch, its stop by another task, and a
launch that competes for a directory or a port; what a second cancellation could add is
in the proof. Three requests on two slots let one wait for a slot, one for the lock and
one for a reply; two connections let a request outlive one. The ids of MonitorTransport
are as many as its requests, as the code has 2^32 - 1 and a late reply cannot meet a
reused id; MonitorTransportLive has fewer, to let them wrap. The five ids of SyncMonitor
wrap within seven calls; `MaxLost` keeps the lost replies fewer than the ids, because a
reply that is late by a whole round of ids would pass for that of a new request, and in
the code that takes 2^32 lost replies. Two threads and three objects are two restarts of
one instance. The one thread of LiveMcp makes one call at a time, so it meets `Separate`
and `Quiet`. A second request could touch the first only through `Instance.state`, which
the run LiveMcpState covers with two; the worker's writes of the state and the
supervisor's caller share LiveMcp's run. Two cases and two workers have one
case fail while the other is pending, taken, handed off or executing, and a pending one
cancelled; four ports, one of them taken or none, let both runs execute or one of them be
refused. The run without a base port is plain (`MCInit`): no `fail_fast`, no cancel event.

Batch runs, tasks that launch, and calls of the synchronous client stop when all of them
have ended, so these three runs do not check for deadlock; `StuckOnlyExhausted`,
`CallsEnd` and `OperationsEnd` say where they may not stop. The other runs check for it.
`StuckOnlyExhausted` writes the guards of a run's steps out (`CanStep`), which is the part
that is proved, and has TLC find that they enable the steps (`ENABLED`).

### Where the code and its documents differ

Each of these runs checks one sentence of the repository and finds a counterexample.

| run | what happens |
|---|---|
| LiveMcpLease | a request admitted under a lease changes the instance after the lease was released |
| LiveMcpState | after run or pause every request to the instance is an internal error |
| BatchRunPorts | refused a port, the thread waits for the lock it holds |

Other steps of the code that its documents do not lead one to expect are in the
models, but no run is about them:

- PortAllocator: `_claim_file` keeps a lease whose owner's pid runs again, so `Probe` can
  take a dead owner's lease for a live one; `README.md:60` of the repository has stale
  leases reclaimed automatically. `reserve()` without a preferred port has one candidate,
  and fails when the port the kernel picks is leased though others are free
  (`NextCandidate`, `eph`).
- ProcessLaunch: a cancellation in `sleep()`, in the `gather()` of a VICE that has exited,
  or in the `stop()` that follows the deadline leaves `launch()` without giving back what
  it had, and a failing `digest()` leaves VICE running with its port (`DESIGN.md:76`
  speaks of bounded tasks that end with the instance). A cancellation during a probe is
  swallowed, and the launch goes on. The connection of a probe that connected and then
  failed stays open when a later probe succeeds (`stray`); VICE serves one connection.
  A second `stop()` after a cut short one finishes the work.
- MonitorTransport: a request queued for the write lock is written to the connection that
  has replaced its own (`Acquire`; `DESIGN.md:120`, and the class's own text at
  `monitor.py:79`). `drain()` is outside `wait_for` (`monitor.py:150`): a VICE that hangs
  without reading its socket blocks it, the write lock it holds and in time every slot,
  for ever. A `close()` cancelled in `wait_closed()` leaves `state` as it was (`Closed`);
  left at "connected", it has `connect()` do nothing and every request refused. A
  request that waits for the lock while `close()` runs finds `_writer` None and ends with an `AttributeError` (`res
  = "broken"`).
- SyncMonitor: after one timeout each call reads the reply to the one before it and fails
  with "request id mismatch", until ids wrap around or the instance is restarted
  (`InStep`). The lock covers a call, so operations of several calls interleave;
  `DESIGN.md:36` has operations on an instance in FIFO order.
- Supervisor: two concurrent restarts leave a running VICE that nothing refers to, and
  compute the same generation (`CallRestart`; `DESIGN.md:30`, `DESIGN.md:36`): with two
  threads `ProcessesOwned` and `GenerationGrows` fail. Nor is a child on the list of a
  `close()` that began before it was registered, and it survives the `close()`. The lock
  in the class suggests such callers; the bridge itself is not one. `create()` registers
  an instance as running whose VICE never answered a ping, or has died, when the startup
  deadline passes with a connection (`StopProbing`). If the trace directory cannot be
  made, or `Popen` raises anything but an `OSError`, `create()` ends with its port leased
  and nothing registered (`Escapes`; `supervisor.py:126`, `supervisor.py:135`), and so it
  does when the child of a failed start outlives SIGKILL (`Kill`). Of two concurrent
  `stop()` of one instance the later may release a reservation the other has cleared, and
  raises `AttributeError` before it sets the state (`GiveBack`).
- LiveMcp: the worker thread looks the instance up by id again, and acts on the generation
  that a restart has put in its place (`Fetch`; `OkWasPerformed` allows for it);
  `DESIGN.md:43` has a handler keep the instance it was admitted for. It writes `state`
  over the `STOPPED` of an instance that `stop()` has finished with (`WriteState`). An
  operation of several commands that fails half-way is answered -32603, which says
  nothing of an effect; `EffectNotHidden` is therefore about the other answers.
  `iec.capture.read` is not mutating in the catalogue although it consumes events, so its
  TIMEOUT rules an effect out. Two requests in progress with one JSON-RPC id share a
  cancel entry, and the first to end removes it (`server.py:59`); requests of the model
  have ids of their own. A `keyboard.matrix` of fewer than 1 frames, which no schema
  refuses, sends nothing and is answered ok with `effect_occurred` (`CallsOf`;
  `transport_runtime.py:137`). A progress notification that raises ends a request whose
  effect has happened in -32603 (`Observed`; `live_mcp.py:99`).
- BatchRun: `result()` of a future that `fail_fast` cancelled raises, as does that of a case
  that ends in something other than an `Exception`, and `results.json` is not written
  (`CollectLost`). After a failure is in the results, cases still start until the event is
  set and the futures have been gone through (`batch.py:162` to `batch.py:166`), and one
  past the test of the event executes. A run without a base port may be refused one, and
  then waits for itself, while ports are free (`Refused`).
- IecCapture: `read()` of a stopped capture goes on returning what VICE writes (`Read`).
  With a limit below 1, which the catalogue's minimum does not keep out, it returns before
  it reads (`iec_capture.py:91`), and `status()` never reads: either may say `complete` of
  a file with more events in it. `CompleteMeansAll` says what complete does mean: all of
  what has been read, and all there is only when the call reads.

### Fairness

`ProcessLaunch`: weak fairness of each task's steps, since spawning and probing have
timeouts, timers fire and SIGKILL takes effect; strong fairness of `Deadline`, which the
loop tests only between probes: time passes while it probes, so it cannot find time left
for ever. `MonitorTransport`: weak fairness of a task that can go on, which includes its
timer: `asyncio.wait_for` fires. Nothing is assumed of `drain()`, which returns when VICE
reads its socket or the connection is lost: `CallsEnd` says that calls end unless some task
stays in `drain()` for ever. `SyncMonitor`: the socket's timeout fires (weak fairness of
`Ends`), and a thread gets the lock if it is released again and again (strong fairness of
`Send`). `LiveMcp`: weak fairness of the deadline timer alone; nothing is assumed of
worker threads or VICE. `BatchRun`, for the run BatchRunPorts: pool and calling threads
are scheduled, `execute()` returns, and a thread that waits for `_PORT_LOCK` gets it in
the end if it keeps being released (strong fairness). `IecCapture`: weak fairness of a
read with a positive limit, a client that goes on reading.

## Proofs

Each of these modules proves theorems of its specification for any constants that meet
the assumptions stated in the component's module. In each, the invariants TLC checks are
not inductive; the proof states what is, shows that the initial states have it and every
action keeps it (one lemma or step per action), and derives the properties. Every
inductive invariant was checked with TLC before it was proved, on the instances above;
those under `Separate` and under `Quiet` on the instance of the run Supervisor, its states
constrained to the condition.

**PortAllocatorProofs**: `Typing`, `LeasesStand` (`LeaseBacksReservation`), `Exclusive`
(`MutualExclusion`), `Refinement` (`ImplementsRegistry`). A lease could be removed by an
allocator that read an old file and has yet to unlink the new one. What excludes this is
the socket: between `Bind` and the end of `_claim_file` the allocator's socket is bound
to the port (`SitterOwnsPort`), so nobody else works on that port's file; what it saw is
therefore still so (`ProbesHolder`, `UnlinksOnlyStale`, `WritesOwnLease`). Releases are
harmless because tokens are never reused (`TokensSpent`, `ReleasesOwn`), and a
reservation's process is alive (`HolderRuns`), so a probe of its owner succeeds.
`MutualExclusion` follows: a file names one token, so two reservations of one port are
one. The refinement maps `held` to `issued`; `GrantStep`, `ReturnStep` and `DieStep` map
the three steps that change it, all others stutter.

**ProcessLaunchProofs**: `Typing`, `FailuresClean` (`FailureLeavesNothing`),
`RunningServed` (`RunningIsServed`), for any number of tasks and cancellations.
`Located(t)` says what a task may rely on at each of its awaits; the step that matters is
that a task at the `gather()` of a `stop()` has a process that is down and has given
everything back, whichever task's `stop()` came first.

`UsesRegistry` and `PortsApart` relate the launches to the ports. PortRegistry is a
specification of both sides: PortAllocator implements its steps, and what a user does with
its reservations (`Leased`) must be such steps too. Each step of a task takes one port that
nobody has, gives one back or leaves them alone (`ClaimStep`), and a port that two stops of
one VICE release is given back once. So two running VICEs have a port in common only after a
`stop()` of one was cut short.

**MonitorTransportProofs**: in two layers. `TransportInvariance`, whatever the number of
ids: `TransportTyping`, `SlotsNeverLost` (`SlotsAccounted`), `IdsNeverShared`
(`IdsDistinct`), `EventsInOrder` (`EventsAccounted`). Slots and the calls that hold them
are counted as sets of requests; a request that finds a slot free finds an id free, by the
pigeonhole principle, as there are no more slots than ids (`NewIdFree`). And
`ServedInvariance`, as long as no two requests that are in progress or that VICE has yet
to answer have one id (`[]IdsApart`): `Correlation` (`Correlated`), `FuturesServed`
(`OpenFutureServed`), `OnlyAbandoned` (`UnexpectedWasAbandoned`). That is less than asking
for ids that never wrap around. `_request_id` looks for its ids in `_pending` only, so the
id of a request that timed out may be given out again while VICE still has that request to
answer; nothing else that the code does with ids can mix up replies, however often they
wrap around. With 3 requests and 2 ids TLC finds `Correlated` violated without `IdsApart`
and not with it. `EnoughIdsApart` shows that `IdsApart` holds while ids are not fewer than
requests (`EnoughIds`), as no id is given out twice (`Unwrapped`), and `EnoughIdsServe`
draws the conclusion. An open future of a call in progress is registered on a connection
that is open (`Tracked`), which has a read loop (`Reading`); and what VICE has yet to
answer on it is registered too, unless it was given up (`Awaited`).

**SyncMonitorProofs**: `RepliesMatch` (`Correlated`), `OutOfStepIsTold` (`InStep`), for
any number of threads, calls and ids, as long as an operation is begun only while
`Cardinality(lost) < MaxLost` and the ids are no fewer than `MaxLost` and the threads
together: with the 2^32 ids of the code, until almost as many replies are lost. `Frames`
describes the stream: late replies in order and without a gap, what a timeout left of a
frame only at its start. By `Due` whoever reads a late reply has missed it and all after
it, so a frame with the id of the request in progress is its reply: otherwise more calls
were lost than there are ids (`SameId`, by counting, with `Room`). `Behind` says that a
lost call leaves something older than the next request in the stream, or on its way there,
until a request has the id of events (`ReplyIsOwn`).

**SupervisorProofs**: in three layers. Whatever the callers do: `SupervisorTyping`,
`PortsLeased` (`PortLeasedWhileRunning`), `StoppedStaysDown` (`StoppedIsDown`), for any
number of threads, objects and ports. `Calls` says per thread what it may rely on at each
statement of `create()`, `stop()`, `restart()` and `close()`, although others stop or
restart the same object meanwhile; `Sound` relates an object's state, process, monitor
and claim; `Distinct` keeps the objects being made apart, and `Room` shows that there is
an object left to make, by counting. Its `Fields` is `TypeOK` with the two states that
LiveMcp's worker threads add, so that the invariant serves there too. By `UsesRegistry`
the supervisor too is a user of PortRegistry: a port is taken for an object that has none
yet and that nobody else makes, and is given back once. Hence `PortsApart`: two VICEs never
share a port, not even the old and the new one of a restart.

If calls are about different ids (`[]Separate`), again for any number of threads:
`SeparateGenerationGrows`, `SeparateClaimsReachable`, which excepts the ports of `create()`
calls that raised half-way (`Stranded`), and, if also no process outlives SIGKILL
(`~SlowKill`), `SeparateProcessesOwned`. The objects that `create()` takes
out of the registry are what could be lost: `Successor` says that such an object is down,
has no port and is of an earlier generation, and it holds from the end of the `stop()` in
`restart()` to the registration, because the steps of the others (`OthersOwn`) register
nothing under the call's id and start no object that is registered. Without
`~SlowKill`, `stop()` and `create()` raise half-way and one thread alone loses a process,
which is what the code does.

If nothing is created or restarted during a `close()` (`[]Quiet`), though others may stop
and close the same instances: `QuietCloseStopsAll`. `Closing` says that what runs is still
on the list or is the instance being stopped.

**LiveMcpProofs**: in two layers. About the requests by themselves: `EffectsTold`
(`EffectNotHidden`) and `OkIsComplete`. The invariant bounds `done` by `asked` and `asked`
by `calls` along the worker's phases, and says that each answer still agrees with what the
worker and VICE may have done, or may yet do. And about requests over the supervisor:
`AddressedInvariance` has the supervisor's invariant, which the writes of worker threads
keep because they write no state of an object being made (`WriteKeeps`), and says that a
request's id stays registered and that its worker thread holds an object made for that id,
as no step takes back an id or renames an object (`Onward`). Hence `LiveTyping`
(`LiveTypeOK`), `LivePortsLeased`, `LiveStoppedStaysDown`, `LivePortsApart` and
`PerformedOnTarget`, for any callers; the last is about every request that has made a
monitor call, however it is answered. If calls are about different ids, the generation
registered under an id only grows (`GenerationsRise`), so the worker's second look-up
finds the generation admitted or a later one: `OkPerformed` (`OkWasPerformed`),
`LiveGenerationGrows`, `LiveClaimsReachable` and, with `~SlowKill`, `LiveProcessesOwned`;
and `LiveCloseStopsAll` if nothing is created or restarted during a `close()`.

**BatchRunProofs**: `BatchTyping`, `CasesIsolated` (`PortsIsolated`), `NoPortKept`
(`PortsReturned`), `ResultsTold` (`ResultsComplete`), `FailFastHolds` (`FailFastStops`),
for any number of runs, cases, workers and ports. A port of a case stays in the table
under its run until the run has ended all of its cases, at most one thread is inside the
lock, and what a run has allocated, it either hands off to its cases or gives back.

`NeverStuck` is `StuckOnlyExhausted` with guards for ENABLED (`NoneStuck`). Whoever has
the lock can go on (`LockHolderSteps`); if the lock is free, so can every thread outside a
pool; and a pool that waits has a future that executes, is about to, or is the first
pending one, for which a worker is free (`FirstPending`, `PoolSteps`). What remains is a
run that was refused a port. `ExhaustedMeansTaken`: the search from the base port on
passes over taken ports only, and none of them is given back before it ends, as that takes
the lock (`Searched`); a run without a base port is refused one only when some port is
taken that is not its own. By counting (`FewerThanCases`), the first does not happen if
there is a port for every case of every run besides those that other programs take, so if
every run also has a base port no run gets stuck: `EnoughPortsNeverStuck`. That
bound is exact; with one port less TLC reaches the run that waits for itself. No number of
ports is enough for runs without a base port. `StepsAdvance`: each step gets a run or a future further
along its `Stage` or `Age` and takes nothing back. As stages are finitely many, a run that
cannot get stuck ends; that last conclusion is liveness and left to the reader.

**IecCaptureProofs**: `IecTypes`, `IecAccounted` (`Accounted`), `IecCompleteMeansAll`
(`CompleteMeansAll`), `IecImplementsWindow` (`ImplementsWindow`), for any number of
records and captures and any limits. The fact behind them is `EventsConcat`: what lies
before the end of a line and what lies after it can be split and parsed apart. It is
proved by counting positions (`Nth`, `Shifted`), without induction. `Cut` says that a
session has gone through the file to the end of a line (`ConsumedCut`), so what each
drain adds to the part gone through adds its events to those returned; `Recorded` orders
the records in the file, which bounds the counters.

Only model-checked: the part of `StuckOnlyExhausted` that uses ENABLED, `CanStep` being
proved; liveness (`CallsEnd`, `RequestsAnswered`, `OperationsEnd`, `CatchesUp`), which is
beyond the prover; and the three properties of the runs that expect a violation, which the
code does not have.

## Not modelled

- The bytes of monitor frames, argument validation, schemas, artifact directories,
  Windows process handling (its `taskkill` stands where SIGTERM stands).
- `KeyboardQueue` (`keyboard.py`): sequential, and created by tests only; the bridge types
  through its own loop of monitor calls, which is in LiveMcp.
- The operation catalogue: data; LiveMcp uses its mutating column and which operation
  takes which path.
- `cli.py`: its SIGINT handler is `BatchRun.SetCancel`. The stdin loop awaits one
  `handle()` at a time, so a cancellation sent over it reaches no running request; LiveMcp
  has the concurrent callers that `McpServer` itself admits.
- Snapshot, trace and capture helpers, the static resolver, the pytest plugin: sequential
  file formatting and test fixtures.
- `supervisor.py`, `monitor.py` and `transport.py` at the root: earlier copies that the
  package does not import.

SyncMonitor and MonitorTransport are composed with the rest by assumption only: LiveMcp's
monitor call is atomic between `Transmit` and `CallEnds`, which is what SyncMonitor's lock
provides, and ProcessLaunch has the outcomes of a probe for its calls of the transport.
BatchRun has the table that `batch.py` keeps over its allocator: a run's ports come back in
one step, under `_PORT_LOCK`, which is not one step of PortRegistry.
