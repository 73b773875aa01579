# gucOS2: TLA+ models, model checking and proofs

gucOS2 is a small Unix-like system that runs in a browser page. Its kernel is
one JavaScript thread; each process is a WebAssembly program in a worker of its
own, which shares memory with the kernel and blocks on it with
`Atomics.wait`. Nothing in it is preempted by a lock, so whatever goes wrong
goes wrong in the *order* of single atomics, messages, timers and promise
continuations. That is what these modules are about.

Line numbers refer to `src/guc/kernel.js` unless another file is named.

## 1. Inventory

| Component | State it keeps | Operations | How it meets the others |
|---|---|---|---|
| **Process table** (2594-2981, 7895-8084, 8095-8273) | `_procs`, per process: state, parent, children, group, session, parked call (`waiter`), dispositions, unreported stop/continue, interval timer; `_nextPid`, `_halted` | spawn, exit, wait4, kill, setpgid/setsid, signal dispositions, setitimer, reparent, reap | called by every handler; answers calls through the kernel page; exit releases descriptors |
| **Kernel page and transport** (96-150, 1245-1475, 2984-2997, 3099-3134) | shared words: doorbell, call state, pending and blocked signals, flags; payload area; the worker's message channel | call, answer, interrupt (`krpc-intr`), stop and continue, post and claim a signal, park | every system call, every signal |
| **Pipes and the ring** (365-444, 2286-2393, 7415-7592, 8505-8619) | ring header and data in shared memory; holders of each end; queues of parked readers and writers | read, write, close, spawn inheritance, kick, promotion, demotion, notify | program and kernel both touch the ring; select and unified wait watch it |
| **vDSO page** (1418-1450, 7870-7892) | sequence number and published facts | publish, read | written on fork, reparent, setpgid, screen changes |
| **Descriptors and file descriptions** (2275-2413, 3725-4200) | per-process tables, reference counts, holder maps, offsets, dirty marks | open, dup, close, inherit, file actions, fcntl | last release closes files, pipes, sockets, watches, transfers |
| **Terminals** (1685-2010, 2493-2580, 7308-7412) | line buffer, modes, foreground group, cooked queue; pty pairs | input, read, write, resize, hangup, signals from control characters | signals groups; wakes readers |
| **Sockets and services** (4395-4630) | names, listen queues, accept waiters, two streams per connection | bind, listen, connect, accept, shutdown, serve, dial | share the stream operations with pipes |
| **Select, wait, watches** (4109-4390, 7237-7360) | parked selects; watch queues with an overflow latch | select, wait, watch, recheck | rechecked by everything that changes readiness |
| **HTTP transport** (7594-7870) | transfers: status, chunks, deadlines, abort | open, body, status, read, expire, destroy | fetch callbacks; descriptors |
| **Clipboard** (3285-3397; `os/kernel-worker.js` 264-320) | one slot, staged chunks, deferred reads, freshness stamp | set, get, settle | the page answers the host read |
| **Window manager, compositor parking** (1344-1381, 4632-7235) | surfaces, focus, input rings, close watchdog | create, present, events, close request | pid-keyed; force-quit kills |
| **Audio** (5190-5490) | sample rings, mixer state | open, queue, mix | shared rings |
| **RemoteFS, ProcFS** (8275-9589) | client-side descriptor and ring tables | one call per operation; ring fast path | speaks the transport |
| **Process host** (`host.js`) | BlockFS image; libc imports; graphics bindings | block file system, signal delivery at safe points | used by kernel (files) and by processes |
| **Embedder worker** (`os/kernel-worker.js`) | executions, terminals, worker pool, boot lock | exec start/abort/drain/finish, terminal polling, boot | owns the kernel; talks to the page |
| **Frontend client** (`frontend/src/kernel`) | pending requests, executions | request, exec, retry, recovery | messages with the embedder |
| **Guarded files** (`os/os-common.js` 90-160) | none | compare-and-write, no-replace rename, durable append | called in one kernel turn |
| Frontend pages and agent, static server, build tools, compiler, vendored programs | - | - | see section 8 |

What is hard about them:

* **Two threads, one page.** Process and kernel meet only in single atomics. A
  wake may be lost, a signal overwritten, an answer given to the wrong call.
* **Handlers are atomic, chains of handlers are not.** `SPAWN` spans promises;
  executions, transfers and clipboard trips span timers and promises; between
  two turns any process may die.
* **Answers come from elsewhere.** A parked call is answered by another
  process's exit, write, close or signal. It must be answered, and once.
* **Modes move under running code.** A pipe is promoted and demoted while its
  ends are in the middle of reads and writes; a terminal leaves line mode in the
  middle of a line; a listener closes with connections queued.
* **Death at any point** must leave no zombie unclaimed, no timer armed, no
  waiter parked for ever, no descriptor held.

The properties that make each component correct follow from that list: answered
once and by the right event; no lost wake; no lost or late signal; every exit
reported; bytes of a stream in order, none lost before end of file; one producer
and one consumer at the ring; every description released exactly once, at its
last use; no torn snapshot; a watcher that sleeps has seen what it watches; a
terminal hands each keystroke to one reader; one outcome per transfer; every
execution completes with all its output, and its page learns it. The hazards, each
at its line and with the property that would catch it, are in `PROJECT.json`.

## 2. Plan, and where it stands

Order: what everything rests on first.

1. `ProcTable`: process life cycle, waiting, effect of signals, job control. Modelled
   and proved.
2. `SysCall` (abstract) and `KernelRpc` (detailed): the call protocol and its
   refinement. Modelled and proved.
3. `PipeRing`: the ring in all its modes. Modelled; its four invariants proved.
4. `Vdso`: the sequence lock. Modelled and proved.
5. `FileTable`: descriptor tables and descriptions. Modelled and proved.
6. `Execution`, `PageClient` and the abstract `ExecLife`: executions and the
   page that follows them, composed over two message channels. Modelled, with
   liveness and the refinement; the safety of both proved.
7. `Watch`, `Terminal`, `Sockets`, `CloseWatchdog`: the other kernel objects that
   wake sleepers. Modelled and proved.
8. `HttpTransfer`, `Clipboard`: services with promises and deadlines. Modelled, with
   liveness; the safety of both proved.

What a continuation would take up: a composition of `PipeRing` with the signal word of
`KernelRpc` for the order of EPIPE and SIGPIPE.

## 3. Modules

| Module | What it is |
|---|---|
| `ProcTable` | the process table; every handler is one action, `SPAWN` and a group kill several |
| `ProcTableProofs` | proofs about `ProcTable` |
| `MCProcTable` | the selectors the runs use |
| `ProcScenarios`, `ProcScenarioProofs` | `ProcTable` in three scenarios of one run |
| `SysCall` | abstract system call: asked, answered or interrupted, returned |
| `KernelRpc` | one process's shared page, one action per atomic |
| `KernelRpcProofs` | proofs about `KernelRpc` |
| `PipeRing` | one ringed pipe and the processes that may hold it |
| `PipeRingProofs` | proofs about `PipeRing` |
| `MCPipeRing` | symmetry of the processes other than the creator |
| `Vdso`, `MCVdso` | the page of published facts under its sequence lock |
| `FileTable`, `FileTableProofs` | open file descriptions and the tables that share them |
| `Watch` | file watches, the handlers that emit, and consumers |
| `Terminal` | a brokered terminal under job control |
| `Sockets` | a path, its listeners, connections and the processes that hold them |
| `CloseWatchdog` | the watchdog of a close request over the input ring |
| `Objects`, `ObjectsProofs` | `Vdso`, `Watch`, `Terminal`, `CloseWatchdog` and `Sockets` side by side in one run |
| `Execution`, `ExecutionProofs` | captured executions of the embedder worker |
| `PageClient` | the page's client composed with `Execution` over two channels |
| `ExecLife` | abstract: what the caller of `exec` is promised |
| `HttpTransfer` | one transfer, its promises, deadlines and readers |
| `Clipboard` | deferred reads of the host's clipboard |
| `Services` | `PageClient`, `Execution`, `HttpTransfer` and `Clipboard` side by side in one run, with fairness |
| `ServicesProofs` | proofs about the four services of `Services` |

`ProcScenarios`, `Objects` and `Services` hold no model of their own. Protocols that
share no state need not be explored as a product: a variable (`scenario`,
`object`, `service`) chosen at the start says which one moves, the others stay at
their initial states, where the properties of their modules hold, so each
property is checked in the behaviours in which its module moves.

Definitions whose comment begins with "Fault:" are not part of any
specification. Each is the code with one plausible slip (a dropped guard, a
missing store, a stale read); substituting it for the definition it follows must
break the property named in `PROJECT.json`, which shows that the property has
teeth.

### ProcTable

`procs[p]` holds the fields of a PCB that decide anything: whether it is listed
in `_procs`, `state`, `ppid`, `children` (kept on its own, as in the code, where
it can disagree with `ppid`), `pgid`, `sid`, `waiter`, `disp`, pending and blocked
signals, `pendingStop`, `pendingCont`, `itimer`, the worker, and `rpc`, the
stage of its call. `nextPid`, `spawns` (the promises under way) and `killing` (the
rest of a group kill) complete the state.

`_exitProcess` is the sequence of operators `Teardown`, `Reparent`, `NotifyExit`
on the table, in the order of the code; `_deliver`, `_stopProcess`,
`_contProcess`, `_jobNotifyParent` are operators too, because each runs inside
several handlers. Actions are the handlers (`Wait`, `Kill`, `SetPgid`,
`Spawn`, ...), what the program does alone (`Call`, `TakeSignal`, `SetMask`), and
what happens to it (`WorkerDies`, `TimerFires`, the embedder). `_spawn` is three
actions, `Spawn`, then `SpawnDone` or `SpawnFails`, since the image loads across
promises. A group kill visits its targets one at a time (`KillNext`) with all else
held (`Quiet`): in the code it is one loop, and the steps only keep TLC's
expressions small.

Signals: `KILL`, `STOP`, `TSTP`, `CONT`, `CHLD`, `HUP`, `ALRM` and a handler or
default disposition each stand for their classes. `missed` on a zombie is
history: it died while its parent was not running, the case of finding 1, which
`ParkedWaitServed` sets aside so that the rest of the claim is checked.

### SysCall, KernelRpc

`KernelRpc` follows one process and the kernel over the page, one action per
`Atomics` operation and per copy of the payload. The client's place is `pc`; a
kernel handler is `kpc` walking through the stores it has yet to make (pending
signals, stop flag, payload, state word, doorbell, notify), and it takes the next
message only when it is through. What makes the kernel answer a parked call
(`Complete`), signal or stop the process comes from its environment, at any time.

The doorbell is a counter that clients compare only with their last load of it,
so `rung`, "it moved since", is all that can be told apart. The channel is FIFO, as `postMessage`
is. `due` is history: signals posted and not yet claimed.

`SysCall` is what a program is promised: it asks; it gets one answer, or an
interruption if it allowed one; it returns; then it may ask again. `KernelRpc`
implements it under the mapping at the end of the module: the phase is the state
word, the answer is the payload while the state word says done.

### PipeRing

The ring words are `mode`, `head`, `tail`, `gone`, `flag`, `data`; the kernel's
books `holders`, `queue`, `waiter`; `pc`, `loc`, `rpc` say where each process is,
what it copied and what it asked for. A byte is its number in the stream, so
order, loss and duplication all show. A parked wait (`waiter`) is the request
(`rpc`) that parked it. Each process takes the fast path in steps
that separate every load and store another thread can race with (`RdMode`,
`RdTake`, `RdCommit`, `RdKick`, `RdGone`; `WrMode` ... `WrKick`), or asks. The kernel
handles one request at a time, split where it stores a ring word and then looks
again (`Park`, `Rescan`; `WaitRpc`, `Scan`; `GoFast` after the flags); `NotifyReaders`,
`NotifyWriters`, `RecheckSelects` are the loops of `_pipeNotify`, with
commits of fast peers in between, as the two threads allow.

`SpawnRpc` is inheritance and the file actions that follow it, in one handler.
`Die` is an exit or a fatal signal at any step, in the middle of a copy as well;
`Interrupt` is a `krpc-intr` or a timer. Left out: the signal of EPIPE (the
`Die` that may follow is there), duplicates of an end within one process, and the
kernel's own reference on a traced pipe, which only keeps its mode LATENT.

### Vdso

`Change` alters the kernel's own fields, `Publish`, `Store`, `Published` are the
stores of `_vdsoPublish`, `Attempt`, `Load`, `Check` the loads of `_vdsoRead`; words
are stored and loaded in any order, which includes the code's. After `Tries`
attempts the reader asks the kernel. `Behind` bounds how far the sequence word may
move during one attempt: at a full turn of 2^32 publications it could not be
told from no movement.

### FileTable

`fds[p]` is a table with the strace reference of a traced process beside its
descriptors, `ofd[o]` a description with its count and its holder map. The file actions
of a spawn are steps of one loop with everything else held. `WorkerThrew` is
what the code does when `createWorker` throws (2968): the process goes and what
it was given stays counted; such a process is `lost`, and `RefsExact` counts its
slots as references, so that it describes the code as it is and does not judge
that path. Several processes are spawned without a parent (`services`; the embedder
boots init and starts services, `os/kernel-worker.js:928`, `:937`). The standard
descriptions are made for the first and cached; a later one is handed the cached ids,
even when every descriptor of them was closed in between and `_ofdUnref` has
forgotten them (2833, 2416, 2349). Its standard descriptors then name nothing, which is
the one exception in `ReleasedAtLastUse` (`StdSlot`): no dup, child or strace reference
ever names a released description.

### Execution, PageClient, ExecLife

`Execution` keeps of a process group its membership, its output and how it reacts to
signals; it forks, writes, ignores TERM and exits as it likes. `Drain`, `Timeout`,
`KillTimer`, `LeakTimer`, `Forget` are the timer callbacks, `Opened` and `StartFails` the ends
of `openCaptured`. Timers count ticks down; one that is due runs before time
passes, and those due together run in any order.

`PageClient` puts the page's client and two FIFO channels beside it: replies, output
and exit events go one way, starts and aborts the other, with the worker's boot, its
log lines, one crash event and a storage reset. `ExecLife` is the promise to the
caller of `exec`: refused, or a run that hands over output until its completion
settles, once. `PageClient` implements it, liveness included.

### Watch, Terminal, Sockets, CloseWatchdog

* `Watch`: one action per kernel request that emits records, each with its emission
  through `_watchQueue` (mask, coalescing with the last record, cap, latch) and the wake. A
  consumer follows `os/fswatch.h`: wait, drain until EAGAIN, read again what it watches. A
  content is a file and a version. Files are renamed while they are open too. The kernel
  tells of a write and of its close under the name the file was opened by (2357, 3758), so
  a watcher of the new name is not told of either: `astray` is history, the names whose
  file was written under another name since the last record about them, and
  `SleeperIsCurrent` claims nothing for those.
* `Terminal`: a key goes through the line discipline in one action, with the signal,
  flush and notification it causes. `_ttyNotify` serves parked reads in order, as
  long as something is left, and passes over those it may not serve. `ReaderServed`
  sets aside a reader that was stopped while parked and continued (8245-8253): the
  code does not look at its queue again then, so it sleeps beside input until
  the next key.
* `Sockets`: a connection is a crossed pair of directions; `_pipeNotify` on a
  direction is the recursive function `Notify`, a walk of the parked calls of that direction
  that ends when none can be served. Descriptors of a process are a set, since a socket
  is released by its last holder. Ids are given out up to `MaxSocks`, and a process that
  would need one more does not start the call.
* `CloseWatchdog`: the kernel sees the reader's position only modulo twice the
  capacity and only at its looks; positions are unreduced here. A kernel turn is split
  where it loads the position (push, track; look, verdict; `at[s]` says where it is), and
  the process reads on in between, any number of records (`Read` is `drainInput` of
  `host.js`). Three histories say what was true: `saw` (the QUIT was read at the last look),
  `lapped` (the reader went a whole turn of the positions between two looks and neither found
  the ring empty, the aliasing of 5616-5623), `wrong`. `VerdictIsRight` is a claim about the
  look a verdict rests on: what is read between the look and the kill does not count, and
  a reader that lapped may be killed though it has read its QUIT, but is never let
  off without having read it.

### HttpTransfer, Clipboard

* `HttpTransfer`: the promise of the fetch, the promises of the body's reader, the two
  deadlines, readers that share the descriptor, and the last close, in any order.
* `Clipboard`: the worker's side of `CLIP_GET` and the page's. The messages carry no
  name, as in the code, so a late answer settles whatever trip is under way then.

## 4. Runs

| Run | Question | Result |
|---|---|---|
| `proc_table` | do parents hear of every child, of every stop and continue, once and in order; does anything still happen to a process that is gone? | holds, 1,994,000 states |
| `krpc` | is the page protocol a system call; are wakes and signals kept; does it make progress? | holds, 542,000 states |
| `pipe_ring` | is the ring a stream with one producer and one consumer, and are its waiters woken? | holds, 3,655,000 states |
| `file_refs` | are hand-kept counts and holder maps right after any calls, spawns and deaths? | holds, 613,000 states |
| `objects` | are snapshots whole, watchers current, terminal readers served, verdicts right, socket sleepers answerable? | holds, 2,563,000 states |
| `services` | does everything the embedder starts end, once, with its outcome known? | holds, 236,000 states |
| `proc_stopped_wait` | is a parked wait answered by a child's exit? | **violated**, finding 1 |
| `proc_orphan_spawn` | has every zombie a parent that can reap it? | **violated**, finding 2 |
| `pipe_select` | are waiters woken when they park in select? | **violated**, finding 3 |
| `pipe_eof` | does the fast reader drain before it reports end of file? | **violated**, finding 4 |
| `page_ready` | does a booted client stay ready? | **violated**, finding 5 |
| `clip_fresh` | is a first paste as fresh as promised? | **violated**, finding 6 |

Properties of the passing runs:

* `proc_table`, in three scenarios, `waits` (exits, waits, SIGCHLD handlers, spawns in
  flight), `jobs` (stops and continues, WUNTRACED, WCONTINUED) and `alarms` (timers,
  masks, services, lost workers): `ParkedWaitServed` (no zombie lies beside a wait that wants
  it), `ExitStatusDelivered` (nobody leaves the table unreported),
  `ChldBeforeReport` (SIGCHLD is up when the wait returns), `PendingMatchesState` (an
  unreported transition is the state the process is in), `TransitionReportedOnce`,
  `ZombieQuiescent` (nothing is armed, parked or signalled for a process that is gone).
  `WaitsAnswerable` (no wait is parked with nothing to wait for) is left
  out of `jobs`: finding 1 breaks it there. `TablesTyped` is the type invariant.
* `krpc`: `AnswerIsMine`, `PageExclusive`, `InterruptIsMine`, `NoLostWakeup`,
  `NoSignalLost`, `SignalBeforeAnswer`; the refinement `CallImplemented`;
  `SignalInterrupts` and `ContResumes`, which need fairness.
* `pipe_ring`: `StreamInOrder`, `FastRoleIsSole` (a fast step is taken by the only
  holder of its end, and nobody has asked the kernel to play the same role),
  `FlagHasWaiter` (no flag outlives its waiter), `WakeNeverLost` (whenever a parked
  process could be served, a wake is on its way). The last is checked, and is true, for writes
  that block alike: its sizes leave out a small write queued behind a larger atomic one that
  is then taken back, for which it is false (section 7).
* `file_refs`: `RefsExact`, `ReleasedAtLastUse`, `HoldersExact` (what promotion of a pipe
  relies on). `RefsExact` says that references lost to a worker that cannot be made are counted, not
  that they are given back.
* `objects`: `SnapshotIsPublished`; `SleeperIsCurrent` (a consumer asleep has seen
  every settled content it watches); `InputOnceInOrder`, `ReaderServed`, `EofEndsOneRead`;
  `VerdictIsRight`; `AcceptorServed`, `PeerCanAnswer` (a read parked on a side shut down for
  reading has a far end that can close, but whose writes fail; no more is asked for it);
  `ObjectsTypeOK`.
* `services`: `ExitsAreFinal`, `ExecutionsComplete`, `ExecImplemented` (the
  refinement of `ExecLife`); `OutcomeIsFinal`, `ReadersLearnOutcome`; `FreshEnough`, `GetsReturn`.

The type invariants of `KernelRpc`, `FileTable` and `Vdso` are theorems and are not
run again; that of `PipeRing` is stated and was checked with the proof's
invariant.

### Findings

1. **A parent stopped while parked in wait does not hear of its child's exit**
   (8061). `_exitProcess` looks for a parent that is `STATE_RUNNING`; a stopped
   one gets neither SIGCHLD nor its answer, and SIGCONT does not look again.
2. **A child spawned by a process that dies meanwhile can never be reaped**
   (2758). `_spawnImage` links it to the parent it was called with.
3. **A parked select can miss its wake** (7464). The flag of a pipe end is one
   word for all waiters and `_clearFlags` lowers it for all; promotion raises it
   again for queued readers and writers only.
4. **End of file before the last bytes** (8526). The fast read looks at the byte
   count first and at the peer-gone flag second.
5. **A log line takes a booted client out of ready**
   (`frontend/src/kernel/kernel-client.ts:117`). Every `boot-log` event sets the state to
   booting, the worker posts them after `ready` too, and nothing sends `ready` again.
6. **A first paste can be older than the host's clipboard** (`os/kernel-worker.js:876`).
   A paste that joins a trip is answered with what that trip read, perhaps
   before the paste.

`PROJECT.json` quotes the comment each one contradicts. Smaller observations made while
modelling, which no run is spent on: the descriptors kept by a spawn whose worker
could not be made (2968); standard descriptions handed out again after their release (2833), a write that fits and sleeps
(section 7);
the name under which a renamed open file is closed (2357); a terminal read
stopped while parked (8245); a `boot-error` state that a later `boot-log` overwrites
(`kernel-client.ts:117`); the 512-byte buffer of
`fsw_drain` (`os/fswatch.h:92`), which the record of a rename between two long names does
not fit, so that it stays at the head of the queue.

## 5. Bounds

* `ProcTable`: `MaxPid = 3` is init, a process and one more, which is what an
  orphan, a reparented zombie or a grandchild takes; pids are not reused in the
  code, so a bound on them bounds the run. `alarms` has two. `Sigs` names the
  signals of the scenario, `Kinds` the dispositions programs install, `Sels` and
  `OptSets` the arguments of wait. Each scenario takes the features its
  properties are about, since all at once does not finish.
* `KernelRpc`: two signals (one can be blocked while the other is not, one
  already pending while the other arrives) and `MaxCalls = 2` calls, so that an
  interruption of the first can meet the second. The theorems hold for any `Sigs`
  and `MaxCalls`.
* `PipeRing`: `Procs` are a creator and two more, enough for a pipeline, a shared
  end and its promotion; `Cap = 2` and writes of one and two bytes around
  `Atomic = 1` give whole and partial landings, full and empty; `Wrap = 4` makes the
  indices wrap within the `MaxBytes = 4` bytes of a run; `Wrap % Cap = 0` is assumed,
  as 2^32 and 256 KiB give it. `Selects` switches the parking select off where
  finding 3 would hide the rest.
* `FileTable`: three processes, two of which may be spawned without a parent, two descriptors, four descriptions and one file action
  per spawn: a pipe (two descriptions) beside a file and one more, shared by a
  parent and a child. The theorems hold for all numbers.
* `Objects`: `Vdso` with a sequence word of 4 values, 3 changes and 2 attempts, so that
  the word wraps during a read. `Watch` with a queue of 2 and reads of 1 record, so that
  it overflows, in two arrangements: a directory with an embedder's watch of a
  name, and a file with two writers; 5 mutations. `Terminal` with three processes in two
  groups, one per disposition, 3 characters and reads of 2. `CloseWatchdog`
  with a ring of 2, two windows and 7 records: positions pass twice the
  capacity, and a reader can lap the kernel between two looks and be killed for it. `Sockets` with capacity and backlog 1 and three sockets (`MaxSocks`), in two
  arrangements: a server that shares its sockets with a worker it spawns, and a client
  that connects twice to a path that is bound again.
* `Services`: `PageClient` with one execution of two streams, one log line, two boots;
  `Execution` also alone with a fork, two bytes and an early and a late timeout, whose
  ladders are as long as it takes for the timers to overlap. `HttpTransfer` with two
  readers, a cap of 2, chunks of 0 to 2 and 5 bytes. `Clipboard` with two
  processes, three pastes and two contents of the host.

No run uses a state constraint: bounds are guards of actions. Deadlock is checked
only in `krpc`; elsewhere programs may exit and the bounds run out, and a process
parked for good is what the properties above look for.

## 6. Fairness

`krpc`: a worker's thread goes on with a call it is in (`CallStep`),
the kernel goes on with a handler it is in, and the event loop takes each message
in its queue at last, though other handlers may run before it (`SF` on `TakeKrpc`
and `TakeIntr`: environment events keep the loop busy again and again, and the
queue is FIFO). Nothing is assumed of programs, of those who send signals,
or of the events that complete a wait.

`services`: weak fairness only. Time passes and deadlines fire (`Clocks`): a browser
runs its timers. Due callbacks in the worker run (`Tasks`);
posted messages are received (`WorkerReceives`, `PageReceives`); each reader in a
loop goes on. Only one service moves in a behaviour, so fairness to a union of actions
of different services is fairness to each. Nothing is
assumed of the programs executed (they may ignore TERM and never exit), of the
network, or of a page that was asked for the clipboard: what ends an
execution, a transfer or a trip is the code's own timer.
KILL takes every member of a group, a spawn in flight may add one after it, and
the leak timer then gives the group up.

The other runs check safety and state no fairness.

## 7. What is proved

Every theorem is checked by TLAPS to the last leaf.

**`KernelRpcProofs`**, for every set `Sigs` and every `MaxCalls`. The only
assumption is `MaxCalls \in Nat`.

* `TypeCorrect`, `AnswersAreOwn`, `PageIsExclusive`, `InterruptsAreOwn`,
  `WakeupsArrive`, `SignalsStay`, `SignalsPrecedeAnswers`: each of the safety
  invariants of `krpc` as `Spec => []...`.
* `ImplementsSysCall`: `Spec => Call!Safety`, the safety part of the refinement.

None of the seven is inductive alone. The invariant behind them, `IInv` (theorem
`Invariant`), rests on one idea, a **token**: while a call is under way its
request is in exactly one place, a `krpc` in the channel, or the kernel's books
(the parked waiter or an owed answer), or the stores of an answer under way
(`OneToken`). Around it:

* `StateByPc`: what the state word says at each step of the client;
* `AnswerOk`: what the kernel is about to store, and what the page holds once the
  word says done, is for the current call;
* `KernelPc`: which registers of the handler are loaded at each of its steps;
* `ChanShape`: the channel holds at most an old `krpc-intr`, the `krpc` and its
  own `krpc-intr`, in that order. This is why an old interruption finds no
  waiter: it is taken before the call it could be mistaken for;
* `WakeComing` and `NoLostWakeup`: a client between its load of the doorbell and
  its sleep either has not missed anything or will see the doorbell moved;
* `NoSignalLost`: as checked.

The proof has lemmas about the channel (what taking its head and appending to it
do to the number of `krpc`s), then one lemma per kind of step. A step that leaves
the token alone is separated from those that move it (`TakeKrpcToken`,
`TakeIntrToken`, `PostKrpcToken`, `CheckPendingToken`). The refinement maps each
step to one of `Ask`, `Answer`, `Return` or to a stutter, from `IInv`.

**`PipeRingProofs`**, for every finite set of processes, capacity and sizes, and
with parking selects except where said. Assumed is `RingAssumption` (`Procs` is
finite and holds `Creator`, the capacity is positive and divides `Wrap`).

* `TypeCorrect`: `Spec => [](TypeOK /\ Stream)`;
* `SoleRoleAlways`: `Spec => []FastRoleIsSole`;
* `FlagsHaveWaiters`: `Spec => []FlagHasWaiter`;
* `StreamStaysInOrder`: `Spec => []StreamInOrder`;
* `WaitsAreNeverLost`: `PollsOnly` implies `Spec => []WaitNeverLost`, whatever sizes the
  programs write;
* `WakesAreNeverLost`: `PollsOnly` and `AlikeWrites` imply `Spec => []WakeNeverLost`.

*Roles.* Why a fast step is alone although the mode word may change under it: the step
began in mode FAST, when each end had one holder (`SoleWhenFast`). From then on
its process holds the end until it closes or dies (`Holding`), and another can
only be added by a process that holds the end and is parked in its spawn; that
would be the same process, which is busy at the ring (`Parked`). So the role
stays sole (`SoleRole`). Promotion finds one holder at each end
(`PromotableIsSole`), and nothing moves the holders between that test and
the store of the mode word. `JobOk` says for whom the handler works, `Queued`
that a queue holds parked requests of its end, once each; the flags promotion
raises therefore have a waiter (`RequeuedHasWaiter`), and lowering one wait's flags
(`_clearFlags`) never leaves a flag up without one. That it may leave a waiter
without a flag is finding 3.

*The stream.* With the roles settled, whoever moves an index is the only one that can.
`Stream` says that `head` and `tail` are the counts of bytes read and written modulo
`Wrap`, at most `Cap` apart, that the cells between them hold those bytes
(`Cells`), and what a process in the middle of a copy has seen of them is still so
(`InFlight`). `Wrap` need not be a power of two, only a multiple of `Cap`: the cell of a
byte is then found from either modulus (`RingIndex`, `RingDistance`).

*Wakes.* What is parked cannot be served (`Stuck`), or somebody will look: the kernel,
in the loops of `_pipeNotify` or in a second look before it parks (`Looking`,
`Rechecking`), or a holder that has moved an index and not yet tested the flag, or whose
kick is on its way (`Owed`); and while the pipe is FAST what is parked has its flag up
(`Flagged`). The theorems have two hypotheses, and each is needed where it stands:

* `PollsOnly` (`Selects \subseteq {"poll"}`): with parking selects both properties are false,
  finding 3.
* `AlikeWrites`: the writes of the programs block at the same levels (all within the atomic
  size and of one size, or all such that a free byte is enough). With a small write queued
  behind a larger atomic one in mode LATENT, the kernel holds both back while only the larger
  does not fit. When the larger is
  taken back (`_cancelWaiter`, 7957, on an interruption or a death) nobody runs
  `_pipeNotify`, the small write stays parked although it would fit, and promotion, which
  raises the flag, does not look. It sleeps until the reader's next kick. TLC
  finds this with an atomic size of 2, writes of 1 and 2 and reads of 1; the sizes of
  `pipe_ring` (1 and 2 around an atomic size of 1) satisfy the hypothesis.

Such a write is all that can be passed over. `WaitNeverLost` says of every other parked
call, the reads and the waits a FAST pipe's programs park in, what `WakeNeverLost` says of
all, and needs no hypothesis on the sizes. TLC agrees on the instance above, on which it refutes
`WakeNeverLost`. Both theorems come from one invariant, in which a queue counts only if its
calls are all blocked together (`Uniform`): the readers' always does, the writers' under
`AlikeWrites`.

TLC agreed with each invariant before it was proved. The proof has one lemma per kind of
step (`LocalStep`, `AskStep`, `AnswerStep`, `CancelStep`, ...), and one case per action
that cites it.

**`ObjectsProofs`**, about the objects as the run composes them, for any values of
their constants; assumed are `ObjectsAssumption` and `VdsoAssumption`.

* For any words, groups of words changed and read together, width of the sequence word and
  number of attempts (an even width, and `Behind < Wrap`, less than one full turn during
  an attempt): `SnapshotsArePublished`: `ObjectsSpec => []SnapshotIsPublished`;
  `ReadsAreFresh`: a read returns nothing older than what the page showed when it was
  called; `IdleKernelHasPublished`: between handlers nothing is unpublished;
  `PageTypeCorrect`. The invariant: the word is odd exactly while the page is being stored
  (`PageParity`), a page at rest has been published (`PageKernelInv`), and in an attempt the
  word differs from the one loaded by the number of moves since, modulo the width; as
  long as that is 0, what was loaded is the page as it was at the start (`PageAttemptInv`).
* For any windows, capacity and grace, and a reader of any speed: `VerdictsAreRight`:
  `ObjectsSpec => []VerdictIsRight`. The kernel's difference of two positions is never more
  than the true one, and is the true one if less than a turn apart (`CloseAheadIs`). So what it
  still expects a window to read is never less than the distance from its last look to the QUIT,
  and exactly that until a lap is missed (`CloseExact`), which the kernel's look makes true of
  the verdict (`CloseAt`). Between the push of a QUIT and the note of its place nothing
  else is pushed, and a turn is about one window (`CloseOneTurn`).
* For any names, writers, cap and batch, and for both kinds of watch:
  `SleepersAreCurrent`: `ObjectsSpec => []SleeperIsCurrent`. What a watch has not told its
  consumer yet is still in its queue, or the queue overflowed (`WatchTold`, `WatchUntold`).
  A full queue is replaced by one overflow record and a coalesced record stands for the one
  it follows, so a record always remains for everything unseen (`WatchAdd`,
  `WatchDeliver`), and an open file is unsettled, so a watch opened in the middle of a write is
  told at its close (`WatchSeen`).
* For any processes, groups, dispositions and size of a read: `KeystrokesOnceInOrder`,
  `ReadersAreServed`, `VEofsAreSpent`: `ObjectsSpec => []...` of `InputOnceInOrder`,
  `ReaderServed`, `EofEndsOneRead`. `TermServes` relates the terminal before and
  after reads were answered, and is transitive: nobody enters the queue, the bytes read and those
  cooked are together what they were, an end of file is handed out or remains, nobody wakes.
  So it holds of the whole walk of `_ttyNotify`, whose recursion is followed by
  induction (`History`, `HistoryIn`), with what a walk also owes: whoever was asked and remains is
  stopped, or nothing is left for him (`TermNotify`). What is checked of the
  foreground holds of every reader in the queue (`TermServed`), since the foreground changes
  without a walk; a VEOF that is still up counts as handed out (`TermEofs`).
* For any servers, clients, workers, numbers of sockets and connections, capacity and backlog,
  and for both arrangements: `AcceptorsAreServed`, `PeersCanAnswer`: `ObjectsSpec => []...` of
  `AcceptorServed`, `PeerCanAnswer`. Each end of every connection that was made
  is a socket, waits in a listener's queue, or has closed its sides of both directions
  (`SockFar`, `SockNear`, `SockLinks`). Each direction is settled: no parked call could be served by what is
  buffered, by the room left or by an end of file (`SockSettled`). And each parked call is
  registered exactly once, at the socket it waits for (`SockBooks`): the walk of a direction's
  waiters (`Notify`) and the loop of a close over a listener's queue take them off one by one, and
  are followed by induction (`History`).
* For all of them together: `ObjectsTypesHold`: `ObjectsSpec => []ObjectsTypeOK`. The types
  hide statements: a latched queue of a watch is empty, a process waits on a
  terminal once, an armed watchdog has a surface and no more records before its QUIT than the
  ring holds (`CloseTypes`, part of `CloseInv`), the holders of a description are alive.

**`FileTableProofs`**, for any finite set of processes, any numbers of descriptors,
descriptions and file actions, and of processes spawned without a parent.

* `CountsAreExact`: `Spec => []RefsExact`;
* `ReleasedOnceAtLastUse`: `Spec => []ReleasedAtLastUse`; `TypeCorrect`;
* `HolderMapsAreExact`: `Spec => []HoldersExact`.

The argument counts references table by table: those to a description are the ones
of the table an action rewrites and the rest, which it leaves alone. `Counted`
says each description is counted right against all tables, `MadeBelowNext` and
`Unstarted` that ids and processes not yet in use refer to nothing and are referred to
by nothing, `StdOnce` and `StdMade` that the standard descriptions are made with the first process
without a parent and are some description's ids from then on. `Stale` is the claim itself: a
descriptor that names what is gone is a standard slot of such a process. It is why the
calls that take a reference look the description up first (`Names`), and a close of such a
slot finds nothing to release.
The release of a whole table at a death, and of a range of descriptors, is a loop in the
code and one update of the counts in the model; lemmas relate the counts before and after.

The holders need an invariant of their own, `PipeCounts`: for each pipe the count kept per
holder is the number of that holder's descriptors of the end, with the kernel as the
holder of the trace references. `HoldersExact` says that a process is in the map
exactly if it has one, which no step preserves by itself: a close must know whether it was
the last descriptor of several.

**`ExecutionProofs`**, for any executions, streams, members of a group and lengths of the
timers; assumed are positive lengths and numbers (`ExecutionAssumption`).

* `ExitsStand`: `Spec => []ExitIsFinal`.

Until an execution is done, what its group wrote was taken or is still in the pipes
(`InPipes`), and no exit event exists (`ExitWhenDone`); timers run only for a live
execution (`TimersOfLive`), so whichever of the last drain and the leak timer comes first
posts the one event. An abort that overtook the spawn is remembered until there is a shell
to kill (`AbortRemembered`), and then is the cause. The proof found that the cause of an exit
was written with overlapping arms of a `CASE`, of which TLC takes the first and the
logic any; it is now the nested conditional the code is.

**`ServicesProofs`**, about the four services as the run composes them, for any
processes, readers, sizes and lengths; assumed are `ServicesAssumption` and the
assumptions of the modules it composes.

* `ExitsStayFinal`: `ServicesSpec => []ExitsAreFinal`, with a page or without. The worker of
  `PageClient` takes its steps from messages and boots, and each is a step of `Execution`
  or leaves it alone (`ExecOfPage`), so the invariant above carries over. The executions with
  longer ladders are a second instance of the same proofs.
* `PageImplementsExecLife`: `ServicesSpec => Life!Safety`, the refinement without its
  liveness. `PageInv` ties the client's tables together: a run exists exactly for a start that
  was answered. Every event in the channel then maps to one step of `ExecLife` or to a
  stutter, and the failure of the client to `Fail`.
* `OutcomesAreFinal`: `ServicesSpec => []OutcomeIsFinal`. The promises of the body may settle
  after the transfer was aborted or failed. What makes that harmless is that at most one read
  of the body is outstanding and none once the body ended or reading is paused (`OneRead`),
  so the end and an error exclude each other (`OneOutcome`); that bytes are either queued or
  read until something went wrong (`Conserved`); and that an outcome is shown only over an
  empty queue (`ShownLast`).
* `TripsAreFresh`: `ServicesSpec => []FreshEnough`. As long as no trip timed out and no read was
  refused, a trip is in one place: asked of the page, at the host, answered, or in the slot
  (`OneTrip`), and in each what it has picked up is no older than the host was when it set
  out. Once a trip timed out nothing is claimed: its answer may settle the next one.

**`ProcTableProofs`**, for any number of processes and any signals, dispositions,
selectors and options in play. Assumed are the three assumptions `ProcTable` states about
its constants.

* `TypeCorrect`: `Spec => []TypeOK`.
* `ExitsAreDelivered`: `Spec => ExitStatusDelivered`.
* `PendingIsCurrent`: `Spec => []PendingMatchesState`.
* `ZombiesAreQuiescent`: `Spec => []ZombieQuiescent`.
* `ParkedWaitsAreServed`: `Spec => []ParkedWaitServed`.
* `ChldComesFirst`: `Spec => ChldBeforeReport`.
* `ReportsAreTrue`: `Spec => TransitionReportedOnce`.
* `WaitersHaveCandidates`: `NoJobControl => (Spec => []WaiterHasCandidate)`, where
  `NoJobControl` says that neither STOP nor TSTP is in play. With them it is false: a
  stopped parent is not answered.

Handlers are compositions of parts (`Post`, `Answer`, `Reap`, `Reparent`, `NotifyExit`...), so
the proof is about parts first. A part keeps what a PCB alone must satisfy (`Sane`) and the
family tree (`Linked`: children are younger and those listed know their parent), and it
leaves the answer of every process alone that is not parked in a wait (`Kept`); whoever it
takes off the table it reports to a parked parent (`Reported`). These two compose
(`Lawful`). The answer to the handler's caller comes last, and could overwrite such a
report only if the caller were itself parked. That it is not is the inductive part: a caller
in flight through `SPAWN` or a group kill is owed one answer and is not parked (`Owed`),
the sender of a group kill has no spawn under way besides (`SenderOwed`), and a pid not
yet given out is no process's, no child's and no caller's (`Fresh`).

The last three theorems share one notion, `Good`, which relates the table before and after a
part and composes as the parts do. A stop or a continue a process is answered with belongs
to its child and is no longer unreported (`Rep`). Whoever was parked and is answered with a
child's status has SIGCHLD if it handles it (`Chl`). And `Safe` is kept, whose two halves are:
a live process and its children are in the table (`Kids`), and no zombie that did not miss
its parent lies beside a parked wait that selects it (`Served`). In the middle of an exit the
second is false for one process, the one that exits: `Teardown` makes it a zombie beside
whatever its parent is parked in, `Reparent` keeps it the only exception (of the zombies init
inherits and waits for one is reaped there, and init is then no longer parked), and
`NotifyExit` removes it. `setpgid` cannot move a zombie into the group a parked wait selects,
because it refuses one: that is what its guard on the state is needed for.

A wait keeps its candidate because no part of a handler takes a child from a parked parent
without answering it (`Steady`: who is parked afterwards was parked before in the same wait,
with no fewer children; nobody stops). `Reap` takes a child away, and each of its callers
answers: `NotifyExit` and `Reparent` the parent that was parked, `Wait` its own
caller, which is not. A parent that is not running would not be answered by `NotifyExit`, and
only a stop makes a live process that.

**`ProcScenarioProofs`**, for the specification the run `proc_table` checks.

* `ScenariosAreTyped`: `ScenariosSpec => []TablesTyped`;
* `ScenarioWaitsAnswerable`: `NoJobControl => (ScenariosSpec => []WaitsAnswerable)`, for the
  constants of the scenario of waits; the alarms have no job control, which is proved.

Each scenario keeps the invariant of `ProcTableProofs` at its constants, of which there are
three sets. Most of the module shows that the tables of `ProcScenarios` and of the proofs,
which are two instances with the same constants, take the same steps.

Only model-checked: the liveness properties and the fairness part of both refinements.
Liveness and `ENABLED` are outside what the prover does, and so is induction over what a
recursive definition computes; the modules with proofs have no `RECURSIVE` operators, and
what is proved of their few recursive functions is what a loop preserves.

## 8. Not modelled

* **The compiler** (`compiler.js`, 36,000 lines): sequential code generation from C to
  WebAssembly. Its correctness is that of a translation, not of a state machine, and is
  out of reach here. It is more than half of the implementation's lines, and with
  `host.js` almost three quarters, so these models are of the part of the repository where
  things happen concurrently, the kernel and its neighbours, and of a small part of the
  lines.
* **The process host** (`host.js`): libc imports, SDL and WebGPU bindings are calls
  that compute or do I/O. BlockFS is one thread's code over blocks; its bitmap, extents
  and directories are data structures without interleaving.
* **Audio**: the sample rings have one producer and one consumer and free-running
  positions, the discipline `PipeRing` models with more modes; the rest mixes samples.
* **Window manager**: surfaces, focus, z-order, grabs and presentation are handled in one turn
  each; the parking of the compositor (1344-1381) meets the browser's frame loop. Its one race
  with a process, the close watchdog, is modelled.
* **strace and ProcFS**: text. The reference a trace holds on its pipe is in `FileTable`.
* **Guarded file operations**: compare and write in one turn of the worker; what a crash leaves
  depends on the browser's storage, which the repository does not describe. The same holds for the
  order in which a system image is copied (`os/kernel-worker.js:683`).
* **Build tools**: run by a developer. The lock of the package builder
  (`tools/mkpkg.js:229`) is an exclusive file creation with a steal.
* **Frontend pages, agent, static server, deployment, boot glue, vendored software**:
  presentation, sequential asynchronous code over one store, or I/O.

Of components that are modelled in part:

* processes: the image loader, argv and environment, the shebang depth;
* descriptors: offsets, access modes, directory cursors, file contents;
* pipes: rings in a system without shared memory take only the brokered actions; the death
  by SIGPIPE inside a write, and the order of EPIPE and SIGPIPE (7499);
* terminals: echo, output processing, the pty's output direction, ring mode;
* sockets: endpoints of the kernel itself, `socketpair`, a writer that dies of SIGPIPE in the middle
  of a notification;
* select and wait: the input ring as a wake source, waits with a timeout;
* clipboard: `CLIP_SET`, copies to the host, pasted files;
* embedder: terminal sessions, the worker pool, drop and paste of host files;
* the page's client: the one-request file and surface calls, recovery of storage.
