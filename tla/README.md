# A TLA+ verification of dma-accel-driver

The repository is a software stack for a PCIe DMA accelerator that exists as a
QEMU device model (not in the repository): a Linux kernel driver (Track A, with
Track B's multi-client changes in the same file), a C++ runtime over its
ioctl/mmap/poll/read interface, and scheduling layers above the runtime (Tracks
B and C). This directory holds TLA+ models of it, the TLC configurations that
check them, and TLAPS proofs.

## The system's parts

| part | source | state | how it runs |
|---|---|---|---|
| command path | `track-a/dma_accel_drv.c` | SQ/CQ rings, `cmd_table`, per-session completion ring, `inflight`, `total_inflight`, `active_sessions`, wait queues | any number of user threads in ioctl/read/poll/open/release, the interrupt handler on another CPU, the device |
| buffer table | same | `buffers[64]`, `owned_buffers` per session | user threads, under `buf_mutex` |
| probe, self-tests, remove | same | `irq_done`, queue registration, `uapi_active` | one thread, the interrupt handler, the device |
| runtime (Stream, Buffer, Fence) | `track-a/dma_accel_runtime.*` (same file in `track-c/runtime`) | fence states, submission order | one thread per Stream |
| Context, Scheduler | `track-b/` | buffer ids per Context, request queue per Context | one thread |
| CommandGroup, DependencyEngine, CommandBatch, BufferPool, StreamObserver, StreamScheduler | `track-c/runtime/` | see each | one thread |
| kctl | `track-c/third_party/kctl` | lock-free queues, pools | any number of threads; one test uses the MPMC queue |
| GEMM programs | `track-a/dma_accel_gemm_*.cpp` | tiles in buffers | one thread and the device |

## Modules

| module | models |
|---|---|
| `CmdPath` | the command path: submit from the cmd_id on, enqueue, device, interrupt routing, read, poll, open, release |
| `MCCmdPath` | instances of it: which thread drives which sessions |
| `BufferTable` | BUFFER_ALLOC, mmap, the operand checks of SUBMIT, close and release |
| `MCBufferTable` | an instance with three sessions and four slots, two slots per session |
| `SelfTest` | probe() and remove(): acquiring and unwinding, the self-tests M3 to M8, the handler in both modes, the hand-over to user space |
| `Stream` | the C++ runtime's Stream and Fence: backpressure, submit, pump, wait, moves |
| `Dependency` | DependencyEngine and CommandGroup: deferred commands and what they wait for |
| `Scheduler` | Context and Scheduler (Track B): buffer provenance, round-robin dispatch |
| `Workload` | BufferPool, CommandBatch, StreamScheduler and StreamObserver, and a client that combines them |
| `Gemm` | the tiled GEMM program and the row computed by a chain of SCALE_ADD commands |
| `Mpmc` | kctl's lock-free queue and the thread pool on it |
| `Session` | abstract: what the driver promises the user of an open file; `CmdPath` implements it |
| `RoundRobin` | abstract: a round-robin dispatcher; `Scheduler` and `Workload` (StreamScheduler) implement it |
| `BoundedQueue` | abstract: a bounded FIFO queue shared by threads; `Mpmc` implements it |
| `MCSelfTest`, `MCStream`, `MCDependency`, `MCScheduler`, `MCWorkload`, `MCGemm`, `MCMpmc` | instances of these |
| `CmdPathRouting` | TLAPS proofs about `CmdPath`: types, wake-ups, routing, counters and caps, lifetimes |
| `CmdPathContract` | TLAPS proofs on top of these: the contract of an open file, and the rings of a driver with one thread |
| `HostProofs` | TLAPS proofs about `BufferTable` and `Dependency` |
| `SelfTestProofs`, `StreamProofs`, `SchedulerProofs`, `WorkloadProofs`, `MpmcProofs` | TLAPS proofs about `SelfTest`, `Stream`, `Scheduler`, `Workload` and `Mpmc` |

A definition whose comment says *Mutant* is not part of the model. It is the
definition after it with a plausible mistake in it, used to confirm that a
property notices that mistake.

### CmdPath

Threads move through a program counter `pc[t]`. An access to shared state that
no common lock protects is a step of its own: reading `active_sessions` for the
quota, the check and registration under `cmd_lock`, each of the two increments
after it, and in `dma_accel_queue_submit_ext` the slot index, the operand
fields, `cmd_id`, the load and the store of `sq_tail`, and the doorbell. A
section under `cmd_lock` or `comp_lock` is one step. The interrupt handler is
one process (Linux does not run a handler concurrently with itself), split the
same way. The local variables of a call live in `t_sess`, `t_cmd`, `t_reg` and
are reset when it returns; `t_reg` is whichever local is live.

`cmd_table` is a map from cmd_id to session; the array's slot order does not
matter, its capacity does (`MaxInflightCmds`). A comp_ring is the sequence of its
unread entries. A descriptor is its cmd_id and its operands, and operands are
identified by the command they belong to, so a torn descriptor is one whose two
parts differ.
`issued_by` and `reaped` are history variables that only properties read.

The device is external: it fetches descriptors in ring order, runs up to
`DevSlots` at once, completes in any order and raises an interrupt for each.
Nothing in the repository says whether it holds completions back while CQ_HEAD
shows CQ full, so `DevHonoursCqHead` chooses; safety runs use the weaker device
that does not.

`TypeOK` lets counters be any integer on purpose: that they stay in step is
`InflightLockstep`.

`SessionContract` says that all of this implements `Session`. The mapping forgets
rings, interrupt handler and counters: a command is *waiting* while a submitter
holds its cmd_id, *outstanding* while it is in `cmd_table` or between the table
and its completion ring. Admission is the point where a command is accepted, the
push into the ring the point where it completes; every other step of the enqueue
path, the device and the handler is a stutter.

### BufferTable

Each critical section under `buf_mutex` is a step. ioctl(SUBMIT) is two: the
checks that resolve addresses, and the later enqueue with the mutex long
dropped. A mapping keeps its `struct file` alive, so release() runs only when
the fd is closed and no mapping is left. Sizes, offsets and lengths are small
numbers with `PageSize` and `Width` as parameters, so that rounding and 32-bit
overflow can happen. A session has one call in progress at a time. Calls that
fail without changing state are not steps. Its specification is `TableSpec`
(`TableInit`, `TableNext`), so that the module can be extended together with
`Dependency`.

### SelfTest

probe() is one thread, so a test is a stage of its program counter: `m3` and
`m4` drive the command registers, `m6`, `m7`, `m8` and `rec` (the recovery check
that ends M8) the rings. `irq_done` is a flag that the handler sets and
`wait_for_completion_timeout()` consumes. Every allocation and registration may
fail and every wait may time out (`Faults`). The handler runs in steps against
both the tests and, after the hand-over, user commands; routing them is
`CmdPath`'s subject and is one step here. `LatencyWindow` says whether the device
is slow enough for the windows M4 and M8 count on, which the code's comments
assume of a healthy device. The device is external and healthy.

### Stream

One thread drives the Streams, as the runtime requires. A Stream is its `fd_`,
the keys of `outstanding_` and `submission_order_`; a Fence is the cmd_id of its
shared state. Construction, both moves, destruction, submit (throttle, ioctl),
wait and pump are steps; pump applies one read() of at most `Batch` entries at a
time. The driver behind an fd is reduced to what a session sees: admission,
completion in any order, and a ring that drops its oldest entry when full.
`moved` is read by properties only.

### Dependency

Deferred commands are named by their position in `registry_`. A fence is named
by its command. `Fences` are commands submitted directly before the calls that
are modelled; they and the submitted commands complete at any time, and become
ready when the Stream is pumped (progress(), query(), wait(), or the throttling
inside a submission). progress() is a pass that moves from one decision to the
next: `Decides(c)` is the next command it blocks or submits, and the ones it
leaves waiting on the way are skipped. `Reachable` says that a command is in
every set closed under `pending_deps`, which is what the recursive search
computes and needs no recursion. `Verdict` is the loop with its early exits: the
first dependency that is not satisfied decides. A `submit_fn` that throws ends
the pass. `hasty` is a history variable: commands submitted while a group they
depend on was still open, for which the code promises nothing.

Left out: moving a CommandGroup (a command keeps a pointer to it), moving the
Fence out of the reference PendingCommand::fence() returns, and commands of two
engines that depend on each other.

### Scheduler

A Context is the file of its Stream and `owned_buffer_ids_`; it is a local of the
caller or an entry of the Scheduler, and `context(i)` makes entries as movable as
locals. The driver is its slots: BUFFER_ALLOC takes the first free one, and the
slots of a file are freed when it is closed and no Buffer maps it, after which
their ids are handed out again. `AllocThrows` is alloc_buffer() failing in mmap(),
with the slot taken. run_round() is a step per entry it looks at; `remaining` is
its snapshot. A dispatch may throw whatever the operands are. `last` and `out` are
read by properties only.

`StrictRoundRobin` is the refinement of `RoundRobin` with the queues of request
numbers as they are: the next request served must be the oldest of the next
Context in cyclic order that has any, and a round that ends normally leaves
nothing pending.

### Workload

One client thread owns a BufferPool, batches and a StreamScheduler. The pool and
the batches are on stream 1; commands for the other streams use buffers of their
own. A batch is submitted in one step, in which the number of commands that get
through before one throws is arbitrary; nothing of the client can come in
between, and completions that could are only delayed. run() is a step per queue
it looks at. A closure may enqueue more, on any stream, and may throw.
`MayReturn` is the client's side of the rule in the header of the pool: it gives
a buffer back when StreamObserver (or the group) has answered Completed for each
command it has a fence of, and nothing it may still submit names the buffer.
`FreeMeansIdle` excepts commands whose fence a throw destroyed, as the headers do.

### Gemm

A Buffer is its contents. All index arithmetic is the code's: tile counts, valid
extents, zero padding, the three accumulation loops (as sums), the comparison
over valid regions, the chain of accumulators. Values are small enough for float
arithmetic to be exact. Those of the row are doubled, since A_row has halves. The
device executes submitted SCALE_ADD commands in any order. `alloc_buffer()` throws
at the driver's quota.

### Mpmc

Every access to a shared atomic is a step, and so is moving an item into or out
of a cell. The weak exchange may fail without a cause. Positions are unbounded
numbers: they are compared by the sign of their difference, so 64-bit wrap-around
is of no consequence. Memory is sequentially consistent (see *Not modelled*). The
pool's destructor runs when no client is inside submit(), which C++ requires of
any object; tasks submit tasks also then. In the mapping to `BoundedQueue`, a push
takes effect when it claims its position, a pop likewise; the item of a producer
that has claimed and not written is still in its hand.

## Runs

All runs set CHECK_DEADLOCK FALSE: users may stop calling, and ids are bounded,
so the system really may stop.

| run | instance | checks |
|---|---|---|
| `command_path` | 2 threads, one shared session and one more, 2 commands, rings of 1 | the contract of an open file, counters in lockstep, no dangling session, no lost wake-up (admission, poll), no stranded completion |
| `one_thread` | 1 thread driving 2 sessions, 3 commands, rings of 2 | the hard cap, intact descriptors, CQ not overwritten |
| `progress` | 1 thread driving 2 sessions, 3 commands, rings of 1 | commands complete, submit returns, release returns |
| `buffer_table` | 3 sessions, 4 slots, quota 2 | ownership, lifetime, bounds, quota |
| `selftest` | batches of 4 on 2 device slots, any failure, 3 user commands | buffers and rings outlive their users, a quiet hand-over, everything is unwound, probe ends without a timeout |
| `stream` | 2 Streams, 2 fds, queue depth 2, reads of 2, driver ring of 2, 3 commands | exact bookkeeping, fences ready only when done, no stray completion, calls return |
| `dependency` | 3 deferred commands, 1 fence, 1 group, 1 dependency of each kind per command | dependencies first, justified blocking, no cycle, no stall, final group answers |
| `scheduler` | 2 local Contexts, 2 entries, 2 files, 2 slots, 2 Buffers, 3 requests | exact provenance, strict round-robin |
| `workload` | 2 buffers, 2 handles, 2 batches, 2 streams, 2 commands of the client and 1 of a closure | buffers lent once, idle when free, commands sent once, streams in turn |
| `gemm` | tiles of 3x3, all dimensions 1 to 7; rows of 14 with 1 to 8 terms; quota 16 | right verdicts, whole products |
| `thread_pool` | 2 workers, 1 client, 2 cells, 4 tasks | the queue contract, accepted tasks run once, the destructor returns |

Rings of one slot make every ring full, wrapped and contended at once; two
threads with two commands reach every race of two submitters in the enqueue
path, including the duplicated, torn and lost descriptors, so the
`command_path` properties hold despite them. Batches of 4 on 2 device slots make
M7 complete out of order and wait more than once. In `stream` three commands
fill a window of two and wrap the driver's ring if backpressure lets them. In
`dependency` three commands are the least that close a cycle through a third
one, and let a failure cascade twice, against the order of registration too. In
`scheduler` two files and two slots let an id pass from one file to another while
a Buffer or a record of it survives, and three requests on two Contexts make a
round go past an exhausted one. In `workload` a closure's command can land on a
queue the pass has gone by. In `gemm` dimensions 1 to 7 are below, at and above
one and two tiles, in every combination, and some combinations need more than 16
buffers. In `thread_pool` four tasks go round two cells twice, with up to three
threads pushing, since workers push from inside tasks.

One run shows the code departing from what its comments say: `release_hang`
violates `ReleaseReturns` with one thread per session. The unlocked enqueue loses a
command, `inflight` never drains and release() waits for ever;
`track-c/docs/C8-completion-note.md` reports such a hang.

### Other disagreements

The models contain these too. The first five come with a property that TLC
refutes on the instance given.

- `HardCap` with two threads (`release_hang`'s constants, 3 commands): drv.c:1655
  checks the total under `cmd_lock`, drv.c:1689 counts after it, and two
  submitters both pass; drv.c:1637 says "never an incorrect admission". How far
  they overshoot is a theorem (`OvershootBounded`).
- `OwnerAliveAtWake` on the same instance: release() can free the session between
  the handler's decrement (drv.c:363) and its wake-up of `comp_wq` (drv.c:374);
  drv.c:360 argues that the session is alive because it has not been decremented
  yet.
- `HealthyPasses` (`SelfTest` with `Faults` FALSE, `LatencyWindow` TRUE): M7 and M8
  drain CQ without waiting for each interrupt, so a handler that runs late signals
  `irq_done` for completions already reaped, and the recovery check of M8, which
  waits once, fails on a healthy device (drv.c:878; drv.c:1130 expects it to
  pass).
- `MovedCallsReturn` (`Stream` with `CompRingSize` 8): move assignment
  (runtime.cpp:110) keeps the old `submission_order_`; submit() then waits for a
  command of the closed fd.
- `NothingLost` (`scheduler`'s constants): scheduler.cpp:58-59 takes a request off
  its queue before submitting it, so one that throws is gone; scheduler.cpp:69-71
  says that it "remains pending for a future call".
- The chain program needs 17 buffers and stage 3 of the tiled one 21, and a
  session may have 16 (drv.c:112, 1431): alloc_buffer() throws. The comment at
  gemm_row_via_scale_add.cpp:93 compares with MAX_BUFFERS = 64.
- `QueueContract` fails for `Capacity` 1, which the assertion at
  mpmc_bounded_queue.hpp:25 lets pass: a cell just filled has the sequence number
  the next push looks for. The repository uses 32.
- stream_observer.cpp:23 narrows the timeout to int: above 2^31-1 ms it becomes
  negative and means no deadline.
- drv.c:1648 computes the quota before `cmd_lock`, so it can be out of date when
  a session opens in between; with one thread nothing comes in between.
- drv.c:352: admission does not count unread completions, so a session that does
  not read can lose the oldest one. The runtime's backpressure avoids it
  (`OutstandingExact`).
- runtime.cpp:102: the move constructor leaves `submission_order_` behind, so the
  window that dma_accel_runtime.hpp:118-128 describes starts anew.
- runtime.cpp:261: pump() erases a completed command from `outstanding_` only, so
  entries of `submission_order_` need not have a copy there (hpp:209-212 says
  every one has).
- hpp:29-34 promises a loud failure for an unknown cmd_id, and pump() skips it;
  `NoStrayCompletion` shows that it cannot be met.
- A CommandGroup that is empty or not sealed counts as satisfied by what it holds
  at the time.

## Fairness

Users owe nothing anywhere: user calls, signals, timeouts, copy faults and
failures are never assumed to happen.

- `CmdPath`: weak fairness of each thread's steps inside the driver (the
  scheduler runs it), of the interrupt handler (a pending interrupt is taken)
  and of the device (it works through its queue).
- `SelfTest`: the same for the probe thread, the handler and the device. No wait
  is assumed to time out, so `ProbeEnds` does not lean on timeouts.
- `Stream`: weak fairness of a call in progress and of the driver completing
  commands.
- `Mpmc`: weak fairness of the steps of a thread inside the pool, and strong
  fairness of the two exchanges, since a weak exchange may fail spuriously but
  not for ever.
- `Dependency` has no fairness: `NoStall` is the safety side of progress, and says
  that a pass over a quiet system always decides something. `Scheduler`, `Workload`
  and `Gemm` are checked for safety only.

## Proofs

All theorems hold for every value of the constants that satisfies the modules'
named assumptions, and of the hypotheses a theorem states. The assumptions are
that sizes are positive numbers and that model values are distinct; beyond that,
`Capacity` is a power of two and at least 2 (Mpmc; the header asserts the power of
two, see the disagreement above for 1), and `MaxMade <= MaxCmds` (Workload), a
relation between two bounds of the model. The inductive invariants were checked
with TLC on the instances of the runs before they were proved. Every safety
property that a passing run checks is a theorem, except `VerdictRight`.

**HostProofs, the buffer table.** `TableTypeOK`, `OwnershipInverse`, `DmaOwned`,
`DmaInBounds` and `MapsConfined` always hold, and `FreedByOwnerOnly` does. They are
inductive together with `CallInv`: a slot BUFFER_ALLOC has filled but not returned
is owned and nothing refers to it (so that undoing it is harmless), a call in
progress keeps the fd open, and a session with a mapping has not started to drain.
Each operation has a lemma; the interesting ones are `SubmitStep`, where the checks
cover everything the device will touch, and `ReleaseFreeStep`. `FullService`
(`QuotaAlwaysServed`) is a pigeonhole argument on top: the slots of the sessions are
disjoint, so that sessions within their quotas leave a slot free.

**HostProofs, dependencies.** Type correctness and all five properties of the
`dependency` run. `Base` is the common strengthening: a ready fence's command has
completed, only commands given to the device complete, dependencies are on
registered commands, and commands that are not hasty were submitted with their
groups sealed. `Monotone` collects what a step never takes back. `Acyclic` is
inductive on its own: a new edge c -> d is accepted only if some closed set holds d
and not c, and a set of commands that wait only on one another would have to lie
inside or outside it, and so would have been there before. `NoStall` follows from
`Acyclic` and `Base`. `VerdictOk` needs that a nonempty set of indices has a least
element.

**CmdPathRouting** holds the invariants of the driver for any number of threads.

- *Wake-ups.* `NoStrandedCompletion` needs `CqRange` (the handler stays behind the
  tail it has read, the device only moves that tail forward): a completion posted
  after the handler read the tail has raised its interrupt after that.
  `NoLostPollWakeup` and `NoLostQuotaWakeup` need `InSession` (a thread inside the
  driver has a session). A sleeper tested its condition in the same step in which
  it joined the wait queue, so what matters is that every step that makes the
  condition true has a wake-up after it. Opening a session needs none, since it only
  lowers the quota of the others (`QuotaShrinks`).
- *Routing.* A session only ever holds and reads completions of its own commands,
  and none twice, whatever the unlocked enqueue does to the rings. `RouteInv` says
  that a cmd_id is at any time in at most one of the places it can be: still private
  to the submitter, in `cmd_table`, taken out by the handler and on its way, unread
  in one ring, or reaped; and that every place agrees with the session that issued
  it. The handler removes the entry when it looks a completion up, so a duplicate
  finds nothing.
- *Counters.* `CountInv` balances each of them: what `inflight` shows plus the
  submitters admitted and not yet counted equals the table entries of the session
  plus the one the handler has taken out and not yet discounted; likewise for
  `total_inflight`. Six actions touch the balance, and one frame lemma covers the
  others. The caps come from a second invariant: what is bounded by QueueDepth +
  threads - 1 is `total_inflight` plus the submitters that were admitted and have not
  counted themselves. With one thread this is the hard cap itself
  (`SingleThreadHardCap`). The bound `AdmissionOvershoot` is proved only: an instance
  that could break it needs three commands, beyond the `command_path` run.
- *Lifetimes.* `LifeInv` says that a thread inside the driver, a table entry and the
  handler up to its decrement each keep their session alive, and that a thread in
  release() is alone in its session. It is inductive only with `CountInv`: release()
  frees when `inflight` is 0, and the balance turns that into *no entry of this
  session is left and the handler holds none* (`FreeDrained`). `InflightLockstep` and
  `NoDanglingSession` follow.

**CmdPathContract** proves the two promises built on these. `SessionContract` goes
action by action: `HiddenSteps` are stutters, and each remaining action maps to one
of `Session`. The rings are the other: `DescriptorsIntact` and `CqNotOverwritten`,
under the hypothesis that there is one thread (with two the unlocked enqueue tears
descriptors). `RingInv` says that a registered command is with its submitter, in SQ,
in the device or in CQ, in one of them and once; that descriptors there have the
operands of their command; that the slot being filled is the one behind the
doorbell; and that the device is behind the doorbell and ahead of the handler. The
census then gives the room: all of them are in the table, which the hard cap bounds
by the ring, so a free slot is free.

**SchedulerProofs** proves `ProvenanceExact` and `StrictRoundRobin`. For the
first, `FileInv` says that a file is open in at most one Context, that the ids a
Context records are slots of its own file, and that a slot stays with its file as
long as a Context has it open or a Buffer maps it: recycling then never meets a
live record. For the second, `RoundInv` says that the snapshot equals the queue
lengths throughout the round, and which queues are known to be empty at each
point of a pass.

**MpmcProofs** proves that the lock-free queue implements `BoundedQueue`
(`QueueRefined`) and, when there is at least one worker, that the pool loses and
repeats no accepted task (`AcceptedTasksRun`). `Laps` relates sequence numbers to
positions: position p is filled when its cell shows p + 1 and free when it shows p,
and enqueue_pos is at most a lap ahead. `Claims` gives a claimed position to one
thread, and `Attempts` says that what a thread saw before its exchange is still true
if the exchange succeeds, which is why a failed one is harmless. On these stand
where the tasks are: each in one place (queued, in a hand, or with a submitter), not
yet run where it waits, none that was accepted lost, `completed` equal to the tasks
run less those about to be counted, and, once the destructor has begun, that the
last worker leaves an empty queue.

**WorkloadProofs** proves `LentOnce`, `SentOnce`, `FreeMeansIdle` and `StreamsInTurn`.
`WorkInv` has five parts: `PoolInv` (a buffer is in `free_list_` or behind one handle),
`WorkType`, `PlaceInv` (a command is in one batch or one queue, once, or has been
sent), `IdleInv` (what a command names that is not known to be done is not free) and
`RunInv` (which queues a pass of run() knows to be empty).

**StreamProofs** proves `NoStrayCompletion` and, for `QueueDepth <= CompRingSize`,
`OutstandingExact`; the source has 16 (DMA_ACCEL_QUEUE_DEPTH) and 64
(COMP_RING_SIZE). `StreamInv` says that a session belongs to one Stream and is empty
when it belongs to none, that a command is in flight, or unread in one ring, or
ready, and that throttling waits for the head of `submission_order_`. `ExactInv` is
the window: what a Stream that was not moved has outstanding is in
`submission_order_`, which has at most `QueueDepth` entries. If the ring dropped an
entry it would hold as many commands as the window, while one more is in flight:
`RingHasRoom` refutes that by counting.

**SelfTestProofs** proves `Unwound`, `RingsOutliveIsr` and `BuffersOutliveDma`.
`HeldInv` lists what is held at each place of probe() and remove(), and `ErrorInv`
that an error only leads out; these give `Unwound`. `OnceInv` says that a command of
the test in progress is on the device, posted or reaped, once. A test passes when it
has reaped as many completions as it wanted; since it sent no more than that,
`AllDone` concludes, with the injection from reaped completions into sent commands,
that nothing is left on the device or in CQ. So the rings are quiet at the hand-over,
and from there `UserInv` keeps `inflight` equal to what is on the device plus what is
not yet routed, less the entry being routed. rmmod needs the device closed, close
waits for `inflight` to drain, so the handler finds nothing to read when the rings go.

**Model-checked only.** `CommandsComplete`, `SubmitReturns`, `ReleaseReturns`,
`ProbeEnds`, `CallsReturn` and `PoolStops`: liveness under fairness is out of the
prover's reach. `VerdictRight` of `Gemm`: it is about sums folded over sets, and what
such a fold computes for every input takes an induction over data that the prover
cannot do.

## Not modelled

- Weak memory. `CmdPath` and `Mpmc` interleave sequentially consistent steps. The
  driver's barriers and the acquire/release pairs of the queue are taken to do
  their work; the relaxed `stopping_` of the pool is a risk the model cannot show.
- The QEMU device is not in the repository; each model has the part of it that
  the code relies on, marked external. Bit layouts of registers and descriptors
  and numeric results of the compute opcodes (except SCALE_ADD in `Gemm`) are left
  out.
- Unbinding the driver while files are open, power management, devres.
- Time: a timeout may strike at any moment, deadlines are not compared.
- Moves of a Buffer and of a CommandGroup, add_stream() after a run.
- Quotas with five or seven sessions, where (n-1) * ceil(16/n) reaches 16: too
  large for TLC. The `progress` instance (two sessions, depth 1) has the same
  shape.
- The rest of kctl (ring buffers, sharded pool, device handle, BPF guard), which
  nothing in the repository includes; tests and benchmarks, which print timings
  or compare data.
