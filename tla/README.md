# protofire verification project

TLA+ models of the parts of the protofire kernel where interleavings, crashes and long sequences of
calls decide correctness, the TLC instances that check them, and TLAPS proofs of the theorems that
matter most. Every definition is translated from the Rust source; `PROJECT.json` maps each one to its
file and lines (`src/src/...` is the crate, `src/docs/...` its documentation). Where this file says
"unlisted", a `.cfg` is kept here for the reader but is not one of the runs of `PROJECT.json`.

## 1. The system

protofire is a bare-metal kernel in Rust for x86_64, riscv64 and aarch64: a preemptive per-CPU scheduler,
blocking primitives on one wait-queue type, IPC, a virtual memory system with a posted TLB shootdown,
a VFS with a journaling filesystem of its own (SimpleFS) and readers for many foreign ones, a network
stack, drivers, services and user programs.

| Part | Source | Model |
|------|--------|-------|
| Anonymous pipes | `kernel/ipc/pipe.rs`, `kernel/process/wait/condvar.rs` | `PipeRing`, `Pipe`, `ByteStream` |
| Wait queues, semaphores, events | `kernel/process/wait/` | `WaitQueue`, `Semaphore`, `Event`, `Waits` |
| Futexes | `syscall/futex.rs` | `Futex`, `Waits` |
| Scheduler: queues, dispatch, stealing, tick, job control | `kernel/process/scheduler/` | `ReadyQueues`, `Scheduler` |
| Process termination, waiting, reaping | `kernel/process/process/`, `scheduler/terminate.rs`, `syscall/process/wait.rs` | `Termination` |
| TLB invalidation log, CPU registration | `kernel/smp/tlb.rs`, `kernel/smp/bringup.rs` | `PostedLog` |
| Kernel stack window | `kernel/process/thread/stack_window.rs`, `kernel_stack.rs` | `StackWindow` |
| Shared memory segments | `kernel/shm.rs` | `SharedMemory` |
| SimpleFS commit, recovery, free extents | `fs/simplefs/` | `SimpleFSDisk`, `SimpleFS` |
| Block cache | `fs/block_cache.rs` | `BlockCache` |
| TCP | `network/tcp/` | `Tcp` |
| The rest | | not modelled, section 8 |

`PROJECT.json` has the full list of components with a reason for each part left out.

How the modelled parts interact: a pipe's readers and writers park through condition variables, which are
wait queues; semaphores, events and futexes are wait queues with a state. A wait queue hands woken threads
to the scheduler (`wake_thread`), whose timer tick also ends timed waits. A process that ends signals an
event, and gives up its shared memory on the way. A dropped kernel stack is unmapped, its range is posted
to the TLB log, and its address comes back only when every CPU has walked the log. Filesystems read and
write their volumes through the block cache. Among the modules, `Waits` composes `Semaphore`, `Event` and
`Futex` over `WaitQueue`; `StackWindow` is built on `PostedLog`, `Scheduler` on `ReadyQueues`, `SimpleFS`
on `SimpleFSDisk`; and `Pipe` implements `ByteStream`. The modules `*Proofs` and `SublistLemmas` hold the
theorems (section 5).

## 2. Modules, state and actions

**Pipe.** `ring` is `struct PipeRing` (buffer, positions, count), with `read_from`, `write_to` and
`resize` as the operators `ReadFrom`, `WriteTo`, `Resize`. `Read` and `Write` are one critical section
each; `Condvar::wait` is two steps, the unlock and `Park`, because the source unlocks before it enqueues.
`Relock`, `NotifyOne`, `NotifyAll`, `DropEnd`, `SetCapacity` (F_SETPIPE_SZ) and `SetNonblocking`
complete the interface. An index out of bounds sets `panicked`. `ByteStream` is the abstract
specification: bytes come out once, in order. `StreamOrder` is the refinement.

**WaitQueue, Semaphore, Event, Futex, Waits.** Blocking is one step (queue lock, interrupts off). Waking is
several: `wake_with` selects under the lock, drops it, then `wake_thread` checks and wakes each thread. In
between the timer may expire the selected thread, and on a preemptible or SMP machine any thread may run.
A futex call adds its registry of weak references: `futex_wait` reads the word, gets or creates the queue,
blocks, and prunes the registry, each a step of its own; `futex_wake` keeps the registry locked and wakes
one waiter at a time. `Waits` is the one specification of all three over one timer and one kill. The record
`mode`, fixed in the initial state, says whether wakers are interleaved, which waits carry timeouts, which
queues are used, who may be killed, and who waits and who wakes. Time is abstract: a tick finds any
registered deadline elapsed.

**ReadyQueues, Scheduler.** The queue operators are pure functions. The actions follow the control flow
of `dispatch.rs`, `waker.rs`, `timer.rs`, `spawn.rs`, `terminate.rs`: dispatch, steal (take and add are
two steps), halt, interrupt, yield, preempt, block, wake (select, check, set, place: four lock regions),
tick (boost, charge, sweep), expiry (check, place), spawn, resume, affinity, exit, stop, continue, and kill
(mark, then for each CPU's scheduler the scan of its ready queues, of its waiting queue, the termination of
what was found and the look at its current slot, then the decision to release the process).
`onStack` is the stack a CPU executes on, which lags behind `current` until `switch_context`.

**Termination.** One process with its one thread, killers and waiters. `complete_termination` and
`request_termination` hold no lock from one assignment to the next, so each assignment is a step: mark,
record the reason, reopen the claim, release the resources, signal the event; and for a kill the scans of
the ready queue, the waiting queue and the current slot. The thread moves between those places through
`set_process_and_thread_state`, whose test and assignments are two steps. A waiter probes, sleeps on the
event, finds the process in the table, claims, takes the reason, and forgets the process: the table entry,
the deferred address space and the pid.

**PostedLog.** The ring, cursors, flush generation and append lock are the fields of `struct PostedLog`;
`version` and `cached` stand for page-table entries and each CPU's TLB. A post is: edit and local drop,
read of the online count, append (or promotion to a full flush when the ring is full), publish. A walk
is: read generation, flush or read the entries word by word, drop, publish.

**StackWindow.** `frontier`, `live`, `retired` (with marks), `recycled` are the fields of `StackWindow`.
`Allocate` drains what `all_cpus_flushed` honours, then recycles or advances the frontier; `MapStack`,
`FailToBack`, `DropStack`, `Retire` and `UseStack` follow `KernelStack`.

**SharedMemory.** `byId`, `byKey` and `nextId` are the registry, `attachments` and `vaHint` a process's own
record, `mapped` its page tables. `Shmget`, `Shmat`, `Rmid` hold the registry's lock throughout and are one
step, with their failures (`ShmgetFails`, `ShmatFails`). `shmdt` is four: find the attachment, detach,
forget, reap. `detach_all_for_process` is three, and runs in the context of the process or of its killer.

**SimpleFSDisk, SimpleFS.** The device has two superblock mirrors, two slots of an inode and a dirent
table, and data blocks; the memory has the tree, the map of free extents (start to length, as in
`free_data_extents`), the recycled inode slots, the active slot, the generation and `needs_shadow_sync`.
An operation takes the state lock, changes the memory, writes its data block, then validates and flushes;
`WriteNext` is one device write, `Fail` a failed one, `Crash` a loss of power in mid write, `Mount`
`open_with_runtime_policy`, and the five `Check*` actions are `check_and_repair`.

**BlockCache.** `slots` is the pool, `queue` and `broken` what the device holds and has failed. Each lock
section and each device request is a step: a miss fetches, bumps and inserts; an insertion into a pool of
dirty entries empties a slot, writes it to the device outside the lock, and looks for the empty slot again;
a flush submits until the device's queue is full, then waits for its oldest write. A synchronous write that
fails (`WriteFails`) may have changed the block, or, after a timeout, may still be in the device's queue.
`lost` is a ghost: the blocks whose last write failed in an eviction or a store. `usage` says which calls may
overlap.

**Tcp.** `conn` is the connection table of both hosts, `listener` the port and its backlog, `net` a bag of
segments in flight. `process_segment` holds the table's lock and is one step, with one operator per state
(`InSynSent` to `InTimeWait`); `Connect`, `Accept`, `Write`, `Close`, `Retransmit`, `GiveUp`,
`TimeWaitExpires`, `AbortHandshake` (ICMP) and `Unlisten` are the other calls and timers. A read looks at the
buffer and parks in two steps. `stream` records what was written, sent and read. `receiver` is the receive
thread of each host, which blocks (`ReceiverBlocks`) when `has_receive_waiter` finds nobody; `Polled` says when
some thread of a host is bound to take its segments from the device.

## 3. Runs

| Run | Instance | Shows |
|-----|----------|-------|
| `pipe_up` | 1 reader, 2 writers, capacities 1 and 2, writes of up to 2 bytes, uniprocessor | byte stream refinement (`StreamOrder`); no reader asleep on data or EOF; no mutual park; a blocked read returns; every blocked writer hears of a dropped read end |
| `waits` | 3 threads on a semaphore, a manual- or auto-reset event, or a futex; eight machines | permits accounted for, none idle beside a waiter; nobody asleep on a set event; one wait per auto-reset signal; futex waiters are where a wake looks, and untimed wakes on a uniprocessor reach them; owed waits return |
| `sched` | 3 threads on four kinds of machine, 1 or 2 CPUs | each thread in exactly one place, and in no two even when it is stopped or killed; a waiter is registered where it will be found |
| `sched_fair` | 3 threads, 1 CPU | sleepers wake, ready threads run |
| `termination` | 2 killers, 2 waiters; three kinds of machine | who collects the process learns its reason; its address space is given back; every waiter returns |
| `tlb` | 2 CPUs of which the one that edits joins late, 2 pages, 1 slot, 2 edits | an honoured mark means no stale translation; no entry overwritten under a walk; stale translations are dropped, also under promotion and late join |
| `stack` | 2 CPUs, 2 slices, 2 edits | no stack is seen through an earlier mapping; retired slices come back |
| `shm` | 2 processes, 2 keys, 3 ids, 2 segments of 1 or 2 frames, exec, exits and kills | mappings are backed by live frames; removed segments are forgotten |
| `simplefs` | 2 threads with a file each, 3 blocks (or 2), 2 to 6 operations, ten volumes | see below |
| `cache` | 2 callers, 2 slots, 3 blocks, queue of 2; five usages | clean entries match the device, reads return the latest write and a successful flush is on the device, also beside failed evictions and stores; flushes return |
| `tcp` | 2 clients, backlog of 1, segments of 2 bytes, sequence numbers modulo 32; seven machines | streams stay in order and complete; no reader asleep on data; what was written arrives; closed connections leave the tables |
| `pipe_resize_panic` | 1 reader, 1 writer | violation, see section 6 |

`waits` runs every primitive under any interleaving of untimed waits, and the semaphore and the events on a
uniprocessor where the timer interrupts wake-ups, waits may time out and one thread may be killed. The futex
has two waiters and two wakers (one thread is both) in the first kind, and no timeouts in the second.

`simplefs` merges ten volumes through the `machine` record of the initial state: V2 and V3 with two
crashes; with a crash that may tear a superblock; with a failed write and a crash; V3 with a volume check
beside writers; two torn superblocks; a full volume; six operations without faults. `CrashAtomic`: the
newest readable superblock names tables that load and hold the last acknowledged tree or that of an operation
begun since. `FilesAsAcknowledged`: between operations the files read as acknowledged, failed operations rolled
back; and where no write fails a crash leaves the contents of the last success or of an operation begun since.
`FreeMapExact`: the incrementally kept free map is the one a mount would rebuild. `RepairConverges`: a boot's
repair succeeds.

`cache` merges five usages: every call under the volume's lock on a device that may fail (FAT32, exFAT);
deferred and immediate writes mixed (ext4, which has no volume lock, while one thread at a time uses it); reads and flushes that overlap while nobody
writes; a device slower than the driver's or the flush's patience; read-ahead with `write_blocks_cached` (SimpleFS).

`tcp` merges seven machines: a lost segment; a receive buffer smaller than the stream, a copied segment and an
early timeout; both ends writing with read deadlines; closing with data in flight; any segment of an idle
connection's life lost or copied; two clients for one backlog place with ICMP errors and a listener that goes; and
receive threads that nobody keeps awake.

`termination`: on one CPU the thread exits or is killed by two others from wherever it is; on several CPUs
it exits under waiters that already sleep, or is killed in its sleep.

**Bounds.** Three threads are the least with which a waiter, a waker and an overtaking third meet; two CPUs
the least with which stealing, remote wakes and posts happen. A ring of one slot fills at the first post
that nobody walked and wraps at the second; two edits make an address be reused once and a ring wrap. A
pipe of capacity 1 and 2 wraps, fills and is resized around its contents. Two killers let one finish what
the other began, two waiters compete for one claim. Two attaching processes make one detach the last and
one not, and three ids let a key be used again while an older segment of it is still attached. Three blocks
are the least in which a freed block has a free neighbour on one side and a live one on the other; four
operations reach create, append, overwrite and remove, and six are what the free-map defect needs to lose
contents. Two crashes put the second one into the repair of the first. Three blocks for two slots force
evictions, two writes of a block make a cached copy stale. Initial sequence numbers 29 and 14 modulo 32 make
the client's numbers wrap in its first segments and keep the windows below half the space. Every bound is a constant
or a field of the record chosen in `Init`. Deadlock is checked in the TLB, stack and cache runs; in the
others the bounds on operations (or all ends of a pipe being dropped) let the system stop. Symmetry is used
only in `sched`, whose set of machines is closed under permutations of threads and which checks invariants
only.

What is claimed for part of the instances only, because the code does not keep it in the rest (section 6):
contents and the exact free map of `simplefs` while no live block has entered the free map (`aliased`),
contents also only without an online check, and after a crash only without failed writes; `CrashAtomic` not for
two torn superblocks, nor for a failed write on V2; `WaiterIsParked`, and of `PlacedOnce` that no thread is lost, for threads that
nobody stops or kills;
the cache's three safety properties for blocks whose own write did not fail in an eviction or a store;
`UntimedFutexWakesKept` on uniprocessors without timeouts; `WrittenArrives` where nobody closes
and no timer fires early, and with `TeardownCompletes` where a datagram receiver keeps the receive threads awake.

The type invariants `SchedTypeOK` and `FsTypeOK` are in no listed run; they hold in the instances of `sched`
and `simplefs` when added there. `PipeTypeOK`, `TypeOK`, `WindowTypeOK` and `ShmTypeOK` are proved.

## 4. Fairness

Safety runs use none. The liveness properties assume:

- `FairPipeSpec`, `FairWaitsSpec`: strong fairness of each thread's own continuation (relock, notify, finish a
  wake, go on with a futex call, return from a wait). The scheduler runs every ready thread; `ReadyRuns` is
  checked for it. Starting a new read, write, release, signal or FUTEX_WAKE is never assumed. Strong, because
  a thread's step is disabled while another holds the CPU. Ticks keep coming, so a tick sooner or later takes
  each registered deadline, and its pass ends.
- `Scheduler!FairSpec`: weak fairness of the CPU's own code, strong fairness of the tick, and that each CPU
  is infinitely often at a point where an interrupt may preempt (`boundary`): user code runs with
  interrupts on and system calls end.
- `TermSpec`: weak fairness of a call that has begun, which the scheduler's fairness gives. Nobody has to
  exit, kill or wait.
- `PostedLog!FairSpec`, `FairWindowSpec`: a started walk or post finishes; a CPU keeps entering the kernel
  (`CatchUp`): application processors have their own LAPIC timer (`arch/x86_64/smp.rs:339`), and
  `apply_remote_tlb_invalidations` ends every interrupt dispatch (`arch/x86_64/idt/dispatch.rs:157`,
  `arch/riscv64/trap.rs:217`). `Register` is fair: a CPU that started registers.
- `FairCacheSpec`: weak fairness of a call that has begun, and of the device finishing what it holds.
- `FairTcpSpec`: weak fairness of a host's taking a segment while it is `Polled`, of its timers (the maintenance
  thread calls `run_maintenance`, `kernel/maintenance.rs:271`), of a connect's and a read's loop, and of accept.
  A host is polled by connect's loop (`tcp/ops.rs:142`), by accept's (`network/mod.rs:1036`), and by the receive
  thread while it has not blocked and somebody waits (`kernel/maintenance.rs:109`). That thread blocks without
  a timeout when it finds nobody, and only a UDP receiver that parks signals its event (`network/udp.rs:272`), so
  the two liveness properties are claimed for machines with `udp`: a program on each host waits for datagrams.
  `TcpUnpolled` and `TcpUnpolledClose` (section 6) show what happens without one. ARP, DHCP and ICMPv6 also poll,
  for their own answers: a segment may be taken at any time, but nothing is assumed of them. Losses are bounded
  by the machine and fewer than the retries.

SimpleFS and shared memory have no liveness property: their operations are finite sequences of steps.

## 5. Proofs

TLAPS proves the following for every value of the constants that meets the stated assumptions. Each
rests on an inductive invariant, itself checked by TLC before it was proved. In the proof modules a leaf
that names no prover is for Zenon; leaves that need arithmetic or sequences name SMT, with
Z3 called directly as the second attempt. Where a theorem
assumes something beyond the module's `ASSUME`s, section 6 has the behaviour that breaks the claim without it.

| Module | About | Assumes |
|---|---|---|
| `SublistLemmas` | the lists a kernel queue becomes when it is filtered | |
| `BufferProofs` | `Pipe`, `BlockCache` | `OneReaderUp` for the two parking theorems of the pipe; `OneCallAtATime` for the cache |
| `ProcessProofs` | `SharedMemory`, `Termination` | `Disciplined` for shared memory; `MachinesAreOrderly` for termination |
| `WaitQueueProofs`, `WaitsProofs` | `WaitQueue`, `Semaphore`, `Event`, `Futex`, `Waits` | `ModesAreOrderly` |
| `ShootdownProofs` | `PostedLog`, `StackWindow` | `Early = CPUs` |
| `SimpleFSCommitProofs`, `SimpleFSProofs` | `SimpleFSDisk`, `SimpleFS` | |

The constants' own assumptions are in the modules that declare them. Most say that a bound is a natural
number and that sets of names are apart. `ShmAssumption` and `ThreadsAssumption` take finitely many processes
and threads; `CacheAssumption` takes at least one caller; `FutexAssumption` takes enough queues for the words,
`Arc::new` being able to make one more; `TornAssumption` keeps what a torn write leaves apart from every record
that parses; `MachineAssumption`, `TerminationAssumption` and `ModesAssumption` give the machines their shape.

**Lists.** `Keep(s, S)` (`Sublists`) is the sublist of `s` with the elements of `S`: what `retain` and a pass
over a queue leave. It is a recursive function, and `SublistLemmas` proves by induction on the prefix that it
holds exactly those elements and none twice. The library's induction theorems take an operator and cannot be
used; here the induction is over a set of numbers, by its least element (`Least`).

**Pipe.** `PipeTypeCorrect`: `PipeSpec => []PipeTypeOK`. `PipeIsAByteStream`: `PipeSpec => StreamOrder`, the
refinement of `ByteStream`, for any readers, writers, capacities and resizes, on any number of CPUs. Its invariant
`StreamInv` adds to the types that the write position is where the unread bytes end (`RingEnds`, modulo the
capacity, because a resize to exactly the contents leaves it one past the buffer); the lemmas before it say what
`read_from`, `write_to` and `resize` do to the contents in every position of the ring.

For one reader and any number of writers on a uniprocessor (`OneReaderUp`; on SMP the claim is false, see
`PipeSmp`): `ReaderNeverStranded`: `PipeSpec => []NoStrandedReader`, and `NeverMutuallyParked`: `NoMutualPark`
holds for as long as no ring operation has panicked. `NoStrandedReader` is not inductive: a step could notify a
queue that does not hold the sleeping reader, or a reader could park on a condition that has changed.
`PipeIInv` adds that the queues hold exactly the parked threads, once each (`QueuesExact`); that a thread about
to park still sees its reason (`ParkingJustified`, which is where the uniprocessor is used); that a closed end
is unused (`ClosedEndUnused`); that waiting calls want at least a byte (`WantPositive`); and that an empty ring
beside a parked writer is still being passed on (`EmptyPassedOn`).

**Shared memory.** For any finite set of processes, any keys, ids, sizes and address space, where a process
attaches a segment once at a time and is not killed in the middle of a call (`Disciplined`; see `ShmTwice`,
`ShmPreempt`): `MappingsAreBacked` (`MappingIsBacked`), `RemovedAreForgotten` (`RemovedIsForgotten`),
`IndexesAlwaysAgree` (`IndexesAgree`). Whether frames are freed under a mapping hangs on `attach_count`, which
counts attachments spread over the processes' own lists and over calls in progress. The invariant therefore
says that the count of a segment is the number of processes that hold it, in the list or in a detach that has
not yet counted (`CountIsHolders`); that what a process holds or maps is in the registry and belongs to it
(`HeldIsKnown`, `MappedIsHeld`, `AttachedOnce`); that a call in the middle has found what it still has to
detach (`CallOK`); that a removed segment without holders has a reaper on the way (`RemovedIsPending`); that the
indexes agree (`KeysAgree`) and that an id not yet handed out is fresh (`UnusedIsFresh`).

**Wait queues, semaphores, events, futexes.** For any threads, queues and words, on machines that do not cross
the wake-up of a timed wait with other threads (`ModesAreOrderly`: a uniprocessor that does not preempt the
kernel, or callers that pass no timeout; see `SemLateWake`, `FutexStopsEarly`): `InvHolds` (the invariant),
`FreePermitsFindSleepers` (`NoIdlePermit`), `PermitsAreAccounted` (`PermitsAccounted`), `SetEventsWake`
(`SetEventHasNoSleeper`), `OneWaitForEachSignal` (`OneWaitPerSignal`), `FutexWaitersAreRegistered`
(`FutexWaiterRegistered`), `FutexWakesAreKept` (`UntimedFutexWakesKept`). `WaitInv` says of the queue that a sleeper is linked or in the hands of a waker
(`Found`), linked and selected at most once (`Linked`, `PickedOnce`), that a wake-up from a wait that is over
finds its thread awake (`LateOK`), and that what the timer holds is the wait its thread is in or a thread that
no longer sleeps (`RegisteredOK`, `ExpiringOK`). A step then reaches a primitive in one of four ways: it disturbs
nobody, blocks a thread, sends one off, or hands something to the first sleepers; `SemInv`, `EventInv` and
`FutexInv` are kept in each. For the futex, whoever pays a changed word's debt has at least as many wake-ups left
as the word has sleepers (`Served`, `NothingLost`).

**Termination.** For any killers and waiters, on the machines of the run (`MachinesAreOrderly`: no process kills
itself; on several CPUs the waiters already sleep and the thread either exits or is killed by one killer in its
sleep; `TermReapedTwice`, `TermKillRunning`, `TermScanRace` show what happens outside): `LifeIsOrderly` (the
invariant), `ReapersLearnTheReason` (`ReasonReported`), `SpacesAreGivenBack` (`SpaceGivenBack`), `PidsAreFreedOnce`
(`ReapedOnce`).
`TermInv`: the process is `Living`, or one actor is `Dying` it, every assignment of `complete_termination`
and `request_termination` being a place in that actor's path, or it is `Dead` and unreaped, in the hands of one
waiter, or forgotten.

**TLB log and stack window.** For any number of CPUs, pages, ring slots, edits and stack operations, all CPUs
registered before the first edit (`Early = CPUs`, which is how the boot CPU brings them up; a later CPU breaks
it, see `TlbLateCpu`): `LogTypeCorrect`, `HonouredMeansDropped` (`HonouredIsDropped`), `EntriesAreKept`
(`WalkedEntryIsKept`), `ProgressNeverRetreats` (`ProgressIsMonotone`), `SlicesArePlaced` and `StacksAreFresh`
(`FreshStacks`). The log's `IInv` says: cursors and generations are within what was handed out and the ring never
holds more than `Slots` unwalked entries (`InBounds`); what is behind a CPU's cursor or flush generation is gone
from its TLB (`ServedIsGone`); a walk in progress has dropped what lies behind its own position (`WalkOK`); a post
in progress owns the append lock and has a free slot (`PostOK`); each issued mark points at an entry, or a
generation, that covers it (`RequestOK`, `Kept`). `WindowInv` adds that a slice is in one place (`Placed`), that
nobody has a translation of a slice that was never used or has been cleared (`Seen`), and that a retired slice's
mark is that of a request made after its last mapping (`RetiredAsked`, `Retiring`).

**Block cache.** For any pool, volume and queue depth and any failures of the device, those of evictions and stores
included, where one call is made at a time and the device answers within the driver's and the flush's patience
(`OneCallAtATime`). FAT32 (`fs/fat32/vfs.rs:57`) and exFAT (`fs/exfat/vfs.rs:48`) make their calls under the lock of
the volume; ext4 has no such lock and is covered only while one thread at a time uses the volume. `CacheStaleRead`,
`CacheRewrite` and `CacheLateWrite` break the claim outside. The three properties exempt a block in `lost`, whose
own write failed in an eviction or a store, until it is written again (`CacheLostEviction`). Proved
are `CacheInvHolds`, `CleanEntriesMatch` (`CleanMatchesDevice`), `ReadsAreLatest` (`ReadsLatest`),
`FlushesReachTheDevice` (`FlushedIsOnDisk`). `CacheInv`
says, of blocks not in `lost`, where the newest content of each block is while the one call is at each of its
steps: in the pool, in the caller's hands on its way out of an emptied slot, or on the device; and for a flush that what it has tried is clean
or still waited for, that it knows each write in the device's queue, and that a completion finds the entry it was
submitted from. The usages in which calls overlap are only model-checked.

**SimpleFS.** For any writers, names, inode capacity, volume, and any number of operations, crashes and failures:

- `CommitsAreOrderly`: `Spec => []FsInv`;
- `CrashesAreAtomic`: `Spec => []CrashAtomic`;
- `ChecksConverge`: `Spec => []RepairConverges`;
- `TheActiveTablesAreKept`: `Spec => ActiveTablesKept`, no step writes a table a mount would read at that moment
  (`ActiveTablesKept` also holds in the instance of `simplefs`);
- `TreeIsAcknowledged`: between operations the tree in memory is the acknowledged one;
- `CacheShowsTheActiveTables`: the block cache holds of the active tables only what the device holds.

`CrashAtomic`, `ActiveTablesKept` and `TreeIsAcknowledged` say `Guarded`: on a V2 volume no write fails, and with
torn superblocks at most one write is cut short. Both are needed: `FsFailedPublish` is V2 with a failed write, and
with two tears both mirrors can be unreadable. That a mount finds the right tree is not inductive. `CommitInv`
says which writes of a flush are still to come, that they come in the order of the three phases (`InOrder`), and
that what is not to come any more is on the device and in the cache (`Landed`). `RecoveryInv` says what a mount
would find: before the publishing write the secondary mirror is current, or torn beside a current primary, or,
after a failed commit (V3), ahead of memory with its own tables in the shadow slot (`Ahead`) until the pending
write of the next commit takes that back (`AheadAllowed`); from then on both name the new tree (`Publishing`).
Without a mount it is `Off`: the newest readable mirror names tables that hold a whole tree that was acknowledged
or attempted, and so does every mirror as new (`Named`). A crash, a failed and a torn write each lead from one of
these to another (`InterruptionSurvives`). `RepairInv` follows a check through its rounds.

**Only model-checked.** All liveness properties (fairness and ENABLED are out of the prover's reach). Of the
scheduler `PlacedOnce` and `WaiterIsParked`: their inductive invariant relates every queue,
registration and hand-over of some forty actions, and has not been written. Of SimpleFS the contents of files
(`FilesAsAcknowledged`) and the free map (`FreeMapExact`): they need, beyond `FsInv`, what merging
and splitting extents does to the set of free blocks in every arrangement of neighbours, which has not been proved. Of TCP `StreamInOrder` and `NoReaderSleepsOnData`: `Tcp` uses RECURSIVE
operators for the reassembly queue, which disable the SMT backend. And what the theorems' assumptions leave out of
the runs: overlapping calls of the block cache, CPUs that register late.

## 6. Where code and text disagree

One run of `PROJECT.json` ends in a counterexample: `pipe_resize_panic`. `PipeRing::resize` to exactly the
buffered byte count leaves `write_pos` equal to the buffer length; after a read, the next write indexes out
of bounds (`kernel/ipc/pipe.rs:157`, against `pipe.rs:30` "buffered data is preserved across a resize").

Twelve unlisted configurations reproduce one further disagreement each; all end in a counterexample.

| Configuration | Code | Text it disagrees with |
|---|---|---|
| `PipeSmp` | `condvar.rs:65` unlocks before it enqueues; a notify in between is lost on SMP | `kernel/sync/mutex.rs:76` "Split unlock and interrupt-restore so Condvar can atomically park/relock." |
| `SemTimedLoss` | `semaphore.rs:90` a permit handed to a waiter that times out first is gone | `semaphore.rs:3` "Counting semaphore with permit accounting" |
| `FutexLostWake` | `futex.rs:83` a wait looks at the word, then gets its queue, then blocks; on a preemptible or SMP machine the word changes and the wake finds no queue in between | `futex.rs:68` "block the calling thread until `*uaddr != val`, a wake arrives, or `timeout_ticks` elapse" |
| `SchedHalfSwitch` | `dispatch.rs:361` a yielding thread is in the ready queue, its lock dropped, before `switch_context` saves its registers; another CPU can steal and run it | `dispatch.rs:374` "interrupts are masked so nothing else can observe the half-finished switch" |
| `TermReapedTwice` | `fork.rs:95` the claim is reopened after the process was marked: a waiter that collects in between is followed by a second | `process/lifecycle.rs:920` "Reaping is intentionally one-shot" |
| `TermKillRunning` | `process/lifecycle.rs:352` a process that kills itself is flagged and marked; its exit then finds it Terminated and completes nothing | `fork.rs:107` "flagged to self-terminate at its next scheduler boundary, where the resource teardown runs in its own context" |
| `TlbGap` | `smp/tlb.rs:232` the online count is used as a bound on ids | `bringup.rs:35` "a count only works as an index bound when the ids are contiguous — which nothing makes them" |
| `ShmKill` | `shm.rs:150` the teardown of a killed process unmaps in the page tables of the killer, which may have a segment of its own at that address | `shm.rs:151` "under the address space that attached it" |
| `FsFreeMap` | `extent_repair.rs:117` an overwrite frees the old extent first; if it directly precedes the new one the two merge and `mark_extent_allocated` finds no free extent starting at the new one: the block is live and free until the next mount | `extent_repair.rs:106` "Remove `[start, start+count)` from the free extent map." |
| `FsOnlineCheck` | CheckVolume runs `check_and_repair` beside writes through open handles; its list of orphans is stale when it zeroes (`extent_repair.rs:386`) | `docs/kernel/fs.md:287` "Recovery runs at boot, not on demand", `docs/status.md:337` "no online repair" |
| `CacheVolumeEnd` | `block_cache.rs:248` the read-ahead of a sequential read goes past the last block, and the whole request fails | `block_cache.rs:207` "on miss the block is read from the underlying device and stored in the cache before returning" |
| `TcpSackLoss` | `ops.rs:1110` segments covered by a SACK are dropped from the retransmit queue, and a receiver with a full buffer drops the run it had acknowledged | `types.rs:331` "SACK (RFC 2018)", whose sender keeps what is not acknowledged cumulatively |

The following are a configuration above or of a run with the changes given (two threads where `Sched` is
named, except for `SchedApStarves` and `SchedReleasedRuns`); each names the property that is then violated.

| Name | Configuration | Violated | Code and text |
|---|---|---|---|
| `PipeResizeWriter` | `PipeUp`, one writer | `ParkedWriterMeansFull` | `pipe.rs:186` a growing resize wakes nobody; `pipe.rs:20` "Writers block on `write_wait` when the buffer is full" |
| `SemLateWake` | `Waits`, `WaitsSpec`, 2 threads, 2 semaphores, `TimedPreemptible` | `LateWakeEndsNoWait` | `queue.rs:278`; `docs/kernel/ipc.md:62` "so a wake that arrives after the timer fired cannot be delivered twice" |
| `EventSignalLost` | `SemTimedLoss` with `AutoReset = {a}`, `MaxSignals = 2` | `SignalNotLost` | `event.rs:75` the signal goes with a waiter that times out; `event.rs:73` "Auto-reset releases at most one waiter, otherwise records a sticky signal." |
| `FutexStopsEarly` | `FutexLostWake`, 3 threads, `TimedOnly` | `NoLostFutexWake` | the waiter `wake_one` picked times out, its `false` ends the loop, the next waiter sleeps on; `futex.rs:68` as above |
| `SchedWaiterLost` | `Sched`, `OnePreemptedTimed` | `WaiterIsParked` | `waker.rs:80` a late wake removes the registration of the next wait; `waker.rs:231` "The queue holds every thread the scheduler has taken out of the running set" |
| `SchedExpiryRace` | `Sched`, `TwoTimed` | `PlacedOnce` | `thread/lifecycle.rs:632` tick and waker both queue a thread; `scheduler/process.rs:241` "A thread sits on exactly one CPU's queues at a time" |
| `SchedApStarves` | `SchedFair`, `TwoYieldOneLate` | `ReadyRuns` | `timer.rs:414` application processors never boost; `docs/kernel/process.md:36` "Long-waiting normal threads are boosted" |
| `SchedStop` | `Sched`, `OneStops` | `StoppedStaysStopped` | `lifecycle.rs:424` a yield makes a stopped thread ready; `process.rs:347` "Stop (suspend) all threads belonging to the given process." |
| `SchedContinue` | `Sched`, `OneStops` | `StoppedIsFound` | `spawn.rs:171` continue scans queues and the current slot only; `process.rs:372` "Resume (continue) all stopped threads belonging to the given process." |
| `SchedResched` | `Sched`, `TwoBlock` | `ReschedHonored` | `timer.rs:374`; `spawn.rs:134` "The scheduler will check the flag at the next tick boundary or kernel-exit" |
| `SchedReleasedRuns` | `Sched`, `TwoKill` | `ReleasedNeverRuns` | `spawn.rs:265` the scans of a kill are apart, and a thread that moves between them is found by none; `fork.rs:138` "nothing can be racing with us" |
| `TermNoReason` | `TermReapedTwice` | `ReasonReported` | `fork.rs:84` Terminated before the reason is recorded; a waiter collects nothing |
| `TermScanRace` | `Term`, `KillMoving` | `RunsInItsSpace` | a thread between two places escapes the scans; `fork.rs:138` "nothing can be racing with us" |
| `TermRevived` | `Term`, `KillMoving` | `TerminatedForGood` | test and assignment of `set_process_and_thread_state` are apart; `thread/lifecycle.rs:397` "must not revive an already terminated thread or process" |
| `TlbLateCpu` | `Tlb`, `Spec`, `Users <- Pair`, `Editors <- Pair` | `HonouredIsDropped` | `smp/tlb.rs:378` a CPU that edits while it registers has not counted itself, and its entry takes the slot of one that it has yet to walk; `smp/tlb.rs:115` "a CPU that has not been through the kernel since the edit is never assumed to have dropped it" |
| `TlbTornEntry` | `Tlb`, `Spec`, 3 CPUs, `Up <- Trio`, `Early <- Pair`, `Editors <- SecondOnly`, `Users <- Nobody` | `WalkedEntryIsKept` | `smp/tlb.rs:378` the count is read before the append; `smp/tlb.rs:118` "an entry is only ever overwritten once every CPU has walked past it" |
| `ShmExec` | `ShmKill` with `Allowed = {"exec"}` | `AttachedIsMapped` | `process/lifecycle.rs:510` exec replaces the address space and keeps the attachments |
| `ShmTwice` | `ShmKill` with `{"again"}` | `RemovedIsForgotten` | `shm.rs:351` one shmdt forgets every attachment of the id and counts one; `shm.rs:235` "never left behind after the mapping is gone" |
| `ShmPreempt` | `ShmKill` with `{"kill", "preempt"}` | `MappingIsBacked` | a kill between the steps of a shmdt counts the attachment twice; `shm.rs:234` "an id is never reusable while a mapping of it is live" |
| `FsLostContents` | `FsFreeMap`, `Long` | `FilesSurvive` | the free-map defect, six operations: the second file's data is written onto the first file's live block |
| `FsFailedPublish` | `FsFreeMap`, `FailingV2` | `NeverWritesActive` | V2: after a failed write of the primary superblock the next commit writes the tables the newer secondary names; `superblock.rs:158` "we loaded from the active tables, which are never written during a commit" |
| `CacheStaleRead` | `Cache`, `CacheSpec`, `Readers` | `CleanMatchesDevice` | a read that missed before a write inserts its old block after it; SimpleFS's readers hold no lock the writer takes |
| `CacheRewrite` | `Cache`, `CacheSpec`, `Rewriting` | `CleanMatchesDevice` | `write_back` changes the data before the generation; `block_cache.rs:403` "A block rewritten while its write was in flight keeps its flag" |
| `CacheLateWrite` | `Cache`, `CacheSpec`, `LateWrites` | `CleanMatchesDevice` | a write that timed out lands after a newer one |
| `CacheLostEviction` | `Cache`, `CacheSpec`, `LosingEvictions` | `EveryReadLatest` | `block_cache.rs:803` drops the result of the victim's write; `block_cache.rs:353` "dirty data remains safe in the cache and will be retried on eviction or explicit `flush()`" |
| `CacheTwoEvictions` | `Cache`, `RoughCacheSpec`, `TwoEvictions` | `EvictionFindsItsSlot` | a second caller takes the emptied slot; `block_cache.rs:809` "In the single-threaded kernel no other thread can steal it" |
| `TcpSleep` | `Tcp`, `TcpSpec`, `GivingUp` | `NoSleepAfterClose` | `ops.rs:904` giving up removes the connection and wakes no reader; `types.rs:354` "a close wakes every waiter so nobody sleeps through EOF" |
| `TcpUndrained` | `Tcp`, `TcpSpec`, `GivingUp` | `ReaderDrains` | the buffer goes with the table entry; `types.rs:292` "leave the count alone so a reader drains what arrived" |
| `TcpUnpolled` | `Tcp`, `Unpolled` | `WrittenArrives` | `maintenance.rs:119` the receive thread blocks on an event that a TCP reader does not signal (`types.rs:246`); `maintenance.rs:113` "every park signals the event", `stack/config.rs:72` "a TCP reader that parks with nobody polling for it would sleep to its deadline — the failure this thread exists to prevent" |
| `TcpUnpolledClose` | `Tcp`, `UnpolledClose` | `TeardownCompletes` | after close nobody reads, so an entry in FIN-WAIT-2, which has no timer, keeps its place; the same comments |

Read in the source but not modelled: `insert_dir_entry_locked` (`fs/simplefs/fs.rs:231`) stores the new
entry's position and then shifts every position from there on, the new one included.

## 7. Abstractions

Common: a critical section under a lock is one step. Payloads, names and addresses are members of small
sets. Statistics, logging and the placement watchdog's report are left out.

- **Pipe**: a byte is a number modulo `Modulus`, assigned in the order of writing, so that a lost, repeated
  or reordered byte shows. Capacities are small; `F_SETPIPE_SZ` clamps to at least a page in the code.
- **Waits**: deadlines are abstract (a registered deadline may elapse at any tick). On the uniprocessor
  machine a waker is not preempted between selecting and waking. One word of one process is one futex key;
  a user thread that changes a word wakes its waiters next. A process has one thread today, so two threads
  of one futex key are what the call is written for, not what a system call starts yet.
- **Scheduler**: priorities Normal and High, round-robin policy (FIFO, Idle and Realtime have no caller in
  the kernel); one thread per process; the simulated dispatch of host builds is left out. x86_64 preempts
  only from user mode, riscv64 and aarch64 also in the kernel: `kernelPreemption` is a field of `boot`.
  An affinity of 0 lets any CPU steal. The scans of stop and those of continue are one step, as are reading
  the victim's queue length and draining it. Softirqs and SIGCHLD are left out.
- **Termination**: only the scheduler of the CPU that has the thread is scanned. The process's and the
  thread's state are written in one step, the checks of a wake are one with its test, and a reaper's three
  removals (table, address space, pid) are one step. The kill's reason and the exit's are told apart, their
  codes are not.
- **TLB**: atomics are sequentially consistent; reading all cursors is one step, as are an edit with its
  local drop and the two records a flush publishes. `catch_up` is not nested. aarch64 broadcasts in hardware
  and posts nothing. Loads of CR3 never ask to keep translations, so one TLB per CPU is sound
  in spite of PCIDs. `InvalidationMark::Nothing` is not modelled.
- **Stack window**: a slice is one page and all stacks have one shape.
- **Shared memory**: a segment's frames are its presence in the registry. IPC_STAT and IPC_SET change neither
  registry nor mappings. A failed creation uses up its id; that it also leaks the frames it had is not
  followed. A failed attach takes the pages it had installed out of the hardware tables; the registrations of them
  that stay in the software tables when the hardware refused one (`shm.rs:111`) are not modelled. Unmapping edits the page tables the CPU is running on, as the code does.
- **SimpleFS**: one directory, files that are empty or hold one block, contents are operation numbers. Each
  table is one device write and a torn one is unreadable. What a flush reads through the block cache may
  be the cached or the device's copy (`Seen`). V3 stands for V4. `write_file` takes one snapshot where
  the code takes two. Each thread owns its names; two writers of one file are not modelled.
- **Block cache**: contents are write numbers. A generation is used to choose a victim, a free choice
  here, and to recognise a submitted entry, for which `stamp` stands; `dirty_since` decides which blocks an
  aged flush takes, any here. A stolen slot (`PlacePanics`) is a step of `RoughCacheSpec` only. A write that the
  driver gave up on stays in the device's queue only in machines with `timeouts`; calls that overlap a write of
  the same block are left to `CacheStaleRead` and `CacheRewrite`. `invalidate`, `invalidate_range`, `prefetch` and
  `flush_if_under_pressure` have no callers outside tests.
- **TCP**: a byte is its position in the stream. Options are taken as negotiated; ECN, timestamps, PSH and
  congestion control (whose window the send path does not read) are left out, as are port allocation and
  socket options. What a handler transmits enters the network in its own step. A timer fires when nothing is
  in flight that could make it unnecessary, or early as often as the machine allows. The lookup and the lock
  of a read are one step. A datagram receiver waits throughout or never, and the latch of the receive thread's
  event is not followed. The second overlap test of `enqueue_ooo` is never reached. Sequence arithmetic
  wraps as in a release build; `initial_seq + 1` would panic at the top of the range in a debug build.

## 8. Not modelled

- **Frames, copy-on-write, page faults, swap, PCIDs**: the page tables and reference counts they share are one
  state with several writers under several locks; a model that keeps less would show little. Of an
  edit, what reaches the TLBs is in `PostedLog`.
- **fork, the rest of exec, signal handlers, credentials**: copies of large records; their state changes on
  the scheduler's side are in `Scheduler` and `Termination`.
- **Message queues, eventfd, timerfd, epoll, io_uring, `Condvar::wait_timeout`**: further users of the wait
  queues of `WaitQueue`.
- **SimpleFS**: growth and truncation over several extents, rename, subdirectories, links, deduplication,
  compression, attributes, staging roots, slots retained by open handles.
- **VFS, tmpfs, mounts; services**: lookups and dependency graphs against open handles and running programs.
- **Foreign filesystems**: parsers of on-disk formats, whose difficulty is in bytes and layouts.
- **DHCP, fragment reassembly, connection tracking, other protocols**: small protocol machines beside
  encoders, routing tables and ciphers.
- **Drivers, interrupts, traps, boot**: registers and rings whose other side is not in the repository. The
  models take from them where interrupts are masked and what a tick calls.
- **Lock words** of spinlocks and mutexes: taken as mutual exclusion.
- **Console, procfs, image building, ABI tables, ciphers, user programs**: formats, text and pure functions.
