# A TLA+ model of WASMOS

WASMOS is a small SMP microkernel: WebAssembly and native drivers, services and
applications are processes that talk over IPC endpoints, and everything else
(file systems, network, graphics, device buses) runs outside the kernel on top
of that. This project models the parts the rest depends on: the IPC core, the
scheduler's block/wake/dispatch machinery, timed waits and futexes, the life of
a process from spawn to reap; and, above the kernel, the one component whose
correctness rests on what survives a power cut, the journal of the WFS file
system. It checks them with TLC on small instances and proves with TLAPS, for all
sizes, nearly every safety invariant that the runs check, and that an endpoint
implements a mailbox.

## Inventory

Sources are relative to the repository; the kernel is under `src/kernel`.

| Part | State | Operations | Talks to | What is hard |
|---|---|---|---|---|
| **IPC endpoints** (`ipc.c`, `idtable.c`) | id table; per endpoint a ring, a notification counter, a wait list, the contacts it owes a hangup, the hangups pending to it; context watches | create, send, receive (try, block, wait with deadline), notify, consume, watch a context, release all endpoints of an owner | scheduler events; the poll hub; the reaper calls the release | a send is three critical sections; a kill lands between them; a hangup may never be refused, duplicated or reordered; several receivers share one wait list |
| **Select sets** (`ipc.c`, `poll.c`) | watched ids, scan cursor, readiness latch, wait list; per endpoint the hub of watching sets | create, add, wait, receive, destroy, signal | endpoints push signals under their own lock | scan and park are not atomic; a set is destroyed under its waiters and under senders |
| **Scheduler** (`sched_thread.c`, `sched_event.c`, `thread.c`, dispatch in `process.c`) | per thread: state, `on_rq`, `blocking_transition`, `wake_pending`, `enqueue_owed`, `dispatch_ref`, wait list link; per CPU: ready list, current thread | pick, steal, claim, dispatch, end of dispatch, event wait/wake/abort/timeout, enqueue, settle, sweep | everybody blocks and wakes through it | mostly lock-free hand-offs between CPUs; exactly one enqueue per wake |
| **Processes** (`process.c`, `thread.c`) | process and thread tables: states, exit status, `exiting`, `reap_requested`, live thread count, slot claims, wait and join registrations | spawn, exit, kill, wait, join, reap, auto-reap | scheduler, IPC release, capabilities | no lock covers a process: kill in mid-dispatch, deferred reap, wait racing exit, slots and thread slots used again |
| **Timed waits** (`sched_event.c`, `timer.c`) | per-thread deadline, lower-bound hint, arm generation | arm, check, fire, tick | scheduler loop | a lock-free scan against arms, wakes and new waits |
| **Synchronisation** (`futex.c`, `user_mutex.c`, `sync_*.c`) | wait queues keyed by address or object | wait, wake, lock, unlock | scheduler events | check-then-block; owner death |
| **Process manager** (`process_manager*`) | service registry, pending spawns | spawn, register, look up, shut down | IPC, context watches | a child that dies while it is being set up |
| **Capabilities, policy** | grants per context | grant, check, revoke | every host call | revocation at teardown |
| **Interrupt routing** (`irq*.c`, `msi_vectors.c`) | sharers, mask state, vectors | route, acknowledge, release | IPC notifications | a sharer that dies with the line masked |
| **Transfer buffers** (`xfer_buffer/`) | ownership and grants | allocate, share, release | IPC arguments | release at death of either side |
| **WFS journal** (`drivers/fs_wfs`) | the log, its tail, the superblock's mount state; in memory the open transaction, the next sequence, `dirty_marked`, the read-only latch | open, stage, revoke, commit, checkpoint, sync, mount, replay | a block driver whose device may cache writes | a crash or a failed request between any two writes; stale log content; a crash in recovery; blocks freed and used for data |
| **Other file systems and services** | directories, extents, bitmaps, open files | read, write, allocate | the journal, block drivers | sequential per request |
| Memory, runtimes, loaders, drivers, graphics, network, tools | see `PROJECT.json` | | | device or third-party state, out of scope |

Properties that make the modelled parts correct: an endpoint is a FIFO
mailbox; a dead peer is announced exactly once, last, to everybody it wrote to;
nobody sleeps beside a message; a select set reports what is readable and no
freed set is signalled; a thread runs on one CPU, its queue node is in one pair
of hands, it is not left runnable on no queue and never sleeps through a wake; a
deadline is kept, and
not early; a process slot is not recycled under a dispatch, a refused reap is
retried, a registered waiter is woken and collects the real status; the volume
a mount recovers changes by whole transactions. `PROJECT.json` lists the hazards
behind them, each at its line.

## Modules

| Module | Models | Step granularity |
|---|---|---|
| `IpcEndpoint` | endpoints | one critical section of the table lock or an endpoint lock |
| `Mailbox` | what an endpoint promises its receiver (abstract) | one put, take, open or shut |
| `IpcSelect` | select sets and the poll hub | one look of a scan, one event-lock section; the table lock is a variable |
| `SchedDispatch` | blocking, waking, dispatching on several CPUs | one atomic access, or one event/table lock section; a run-queue lock is held over two steps |
| `TimedWait` | events, deadlines, the timeout scan, futexes | one access to a word used without a lock, or one event-lock section |
| `ProcessLife` | one process slot, its threads, the CPUs that dispatch them, the parent | one atomic access, or one thread-table-lock section |
| `WfsJournal` | the WFS journal over a caching, failing device | one block request with what the driver does on its reply |
| `AtomicVolume` | what a journaled volume promises (abstract) | one begin, update, free, commit, acknowledge, failure or loss |
| `KernelList` | the kernel's intrusive lists as sequences: elements, unlinking | |
| `ListLemmas` | what appending to, unlinking from and taking the head of such a list does | |
| `IpcEndpointProofs` | theorems of `IpcEndpoint`: types, waiters, hangups, wake-ups | |
| `IpcEndpointRefinement` | `IpcEndpoint` implements `Mailbox` | |
| `IpcSelectProofs`, `SchedDispatchProofs`, `TimedWaitProofs`, `ProcessLifeProofs`, `WfsJournalProofs` | the inductive invariants of those modules and their theorems | |
| `MC…` | the instances TLC checks | |

### IpcEndpoint

A call that takes more than one critical section leaves the calling thread in a
named place: `send` (source checked, destination not yet locked), `note` and
`note_alloc` (enqueued, contact not yet recorded, before and after the
allocation with the lock dropped), `parked_recv`/`parked_wait`, `woken_recv`,
`drain`. The model keeps:

* the quota test and the shared id space of both endpoint kinds (`CreateTyped`);
* the source check under the table lock only (`SendBegin`), the refusal and the
  accept under the destination's lock (`SendRefused`, `SendEnqueue`), the two
  looks at the source's contact list (`NoteCheck`, `NoteRecord`, with the
  allocation allowed to fail);
* a receive that hands the freed slot to the oldest pending hangup and wakes
  one more receiver (`DequeueLocked`);
* `ipc_recv_blocking_for`'s re-lookup by id, without owner or type test;
* the teardown as one pass under the table lock (`ReleaseOwner`) followed by one
  step per delivered hangup (`DeliverContact`, `DeliverWatch`).

`Exit` and the guard of `ReleaseOwner` stand for as much of the process life
cycle as endpoints see: a process becomes a zombie at any moment, a thread of it
that is on a CPU finishes its call (a ring-0 call is not preempted), and the
reap is refused while `thread_owner_has_active_dispatch`. Payloads are reduced
to data or hangup and the endpoint they come from. The record of refused sends
is diagnostic and is left out. A source that is a notification endpoint leaves
no contact, so `EveryPeerHears` speaks of message endpoints.

`heard` and `sent` are history variables: no action reads them.

### IpcSelect

An endpoint is a count, a liveness flag and a hub. A wait holds the table lock
while it scans, one endpoint lock at a time; sends land between two looks. The
event lock that the wait takes before it drops the table lock makes "take the
latch, else join the wait list" one step; a signal is the other side of it.

`Reactors` are the sets that one thread at a time uses, the way `ipc.h:321-323`
describes a reactor and the only way the kernel's own services use one; nobody
enters a wait on, or adds to, such a set while another thread is in it
(`MayUse`). Any thread may still destroy it. The other sets are shared freely.

### SchedDispatch

Each CPU is a sequential process with a program counter: timeouts, pick, steal,
slot claim, READY claim, switch, what the thread does, clear current, settle,
result handling, release, sweep; and, called from several of those places, wake
and enqueue. A thread blocks on an event (with the blocking-transition flag) or
for an exit (without it). Wakes come from a running thread or the idle thread's
interrupts, timeouts from the loop. An interrupt that wakes the thread it
interrupted behaves like a waker on another CPU and is covered by it.
`sched_mark_ready_if_live` is a load and a CAS, two steps. Which threads are
sticky, which deadline is due and which CPU an affinity redirect picks is left
open. Memory accesses are sequentially consistent, as the code's seq_cst and
acq_rel operations on these words make them.

`on_rq` is a flag of its own, apart from membership in a ready list: linking
wins the exchange and then inserts, unlinking takes the node out and then clears
the flag, and the lock of that one queue is held in between (`Link`, `Insert`;
`Pick` or `Steal`, `UnlinkDone`). Another CPU may try the same node under the lock
of another queue. `Joiners` are the threads that wait for an exit, `Rootless` those
whose dispatch may find no root table and back out after `current_thread` was
published. `EnqueueScan` takes both branches of a deferral, the reported one and
the silent one; the count that selects between them is left open.

`loose` is a history variable: a thread is loose from the moment one of two
promotions makes it READY, the mark that follows its debt in the silent branch
or that of an exit waker, until it is linked, owed or runs. No action reads it.

The gap between the ZOMBIE test and the registration of a waiter for an exit is
taken as one step here and in steps of its own in `ProcessLife`.

### TimedWait

A thread arms its deadline, links itself and blocks while it holds the lock of
the futex's event; a CPU walks the deadlines of all slots without a lock, reads
the state, clears or expires the deadline, and fires by reading the event,
locking it and looking again. `armed` stands for `g_sched_timeout_arm_seq`: it
is the set of scans that would find the counter changed. The value of a futex
word is left out; what a wait read of it becomes `stale` once somebody writes
it. A wait that finds the word changed returns at once and changes nothing. The
lock of the hash bucket is released only after the event's lock is taken, and is
one with it here. `Timeouts` are in ticks; `timer_ms_to_ticks` rounds up, so
none is zero by rounding.

A wake takes the thread off its list and makes it runnable in two steps
(`WakeOne`, `WakePromote`); an expiry drops the event's lock between the two
(`Fire`, `FirePromote`). The promotion is one step here; that it may be deferred
to the CPU the thread still runs on is `SchedDispatch`'s.

`smp` is chosen once. Without it, a thread in a critical section has interrupts
off and a scan runs to its end before a thread does (`ThreadRuns`, `ScanRuns`);
with it, everything interleaves.

### ProcessLife

One slot of the process table is followed through the processes that occupy it.
CPUs pick a READY thread, claim the thread slot, resolve the process, claim the
state, check the identity again, run the thread, handle its result, release the
claim and retry a reap; the parent spawns, kills, waits and reaps. READY,
RUNNING and BLOCKED of the process are one state, LIVE: no test on the exit path
tells them apart. `thread_mark_owner_exited` holds the thread table lock but the
dispatch claim does not take it, so a tombstone may miss a thread that is being
claimed (`MayEscape`). A pass of `thread_reap_owner` visits the slots one after
the other under the thread table lock (`ReapSlot`) while dispatch claims, which
take no lock, come and go; it is repeated while a slot was refused, up to
`ReapPasses` times (64 in the code), and then the process slot is reset with the
refused thread slots left behind and a leftover counted (`ReapPass`). A thread
spawn takes a slot, counts it and wakes it in three steps, and is undone when
there is no stack or root table for it or a kill came first (`SpawnReap`). A
thread exit wakes its joiner, counts itself out and tests for the last in three
steps. Threads are user threads; the main thread, always slot 1 here, may join
the other.

`wrote` and `late` are history variables. `late` records a registration
or a request that came after the event it was meant for; see "Disagreements".

### WfsJournal

A transaction stages images into the log, names them in a DESCRIPTOR, lists the
blocks it frees in a REVOKE, flushes, writes COMMIT, flushes, copies the images
home, flushes, and moves the tail. A mount reads the state from the superblock
and replays the transaction at the tail if it is complete. The device answers
reads from its cache, writes any cached block back at any time, and loses the
cache at a power cut; the driver's process may also die alone. A failed write
may have happened or not. A metadata block's content is the set of updates it
has seen, each with its own stamp, so a lost, torn or resurrected update shows;
a checksum is the content it was taken over.

`AtomicVolume` is the promise: one stable content, changed by whole
transactions, success reported only for a stable one. The refinement mapping
takes as stable what a mount would recover from the media alone. A freed block
has no promised content, since it may hold file data at once. Nor has a volume
whose superblock says ERROR (`Lose`): a mount replays only a DIRTY volume
(`wfs_super.c:183-188`), so a transaction that was half checkpointed when a
replay failed stays half applied, and `fsck` sets the volume CLEAN without reading
the log (`wfs_fsck.c:738-741`). That the driver serves such a volume read-only and
never clears the mark is `ErrorIsSticky` and `CrashKeepsWritable`.

Three assumptions restrict the passing run, each where the code does not hold
without it (see "Disagreements"): `TailOrdered` (no later write overtakes the
tail), `HandledFaults` (which requests fail) and `HandledDeaths` (where the
driver dies alone). A power cut may come anywhere.

## Runs

Passing:

| Run | Instance | Shows |
|---|---|---|
| `IpcApi` | `Spec`: 2 ids, a process thread and a kernel thread, depth 1, 1 contact, counter to 2 | the whole API, with the process dying at any point: `TypeOK`, `WaitersAreParked`, and that it implements `Mailbox` |
| `IpcHangup` | `HangupSpec`: two senders of one process, endpoints 1, 2 (dying) and 3, 4 (listening), depth 1, 2 contacts | exactly-once, last, never silently forgotten hangups; the reserved slot; no receiver asleep beside a message; the batch drains |
| `SelectWait` | `FairSpec`: 2 endpoints of 2 messages, 2 sets, the first shared by 2 threads, the second a reactor's | no dangling watcher, registered exactly once, nobody parks over a message; the reactor sleeps only on empty endpoints and reports every readable one |
| `SchedDispatch` | `Spec`: 2 CPUs, 2 threads, one that waits for exits, one pinned whose dispatch may fail | one dispatch, one pair of hands on a node, affinity, no lost wake, every hand-off kept but the two below |
| `WfsCrash` | 2 metadata blocks, transactions of up to 2 targets and 1 revoke, 2 updates, 2 crashes, 1 failed request | the refinement of `AtomicVolume`, and what a mount serves, spares and keeps |
| `TimedWait` | `FairSpec`: 2 threads, 1 scanning CPU, 2 futexes, waits for ever and of 2 ticks, 3 ticks, with and without `smp` | lists and waiters agree, no lost futex wake; on one CPU deadlines kept, never early, timed waits end |
| `ProcessLife` | 2 CPUs, a parent, 2 threads, 2 processes in turn, no `auto_reap`, 2 reap passes | until a reap gives up the slot outlives its dispatches and a spawn starts clean; statuses are real, waiters and refused reaps are not forgotten, even after that |

The bounds are the smallest with which each case occurs: a ring that fills
(depth 1 and its reserved slot), a pending list of two hangups, a contact list
one shorter than the number of correspondents, two threads racing to be the
first to write, a third receiver that finds the ring empty again, a set created
after one was destroyed, and a thread that is woken, runs and blocks again while
its first waker is still on its way, a crash in the recovery from a crash, a
deadline beyond the hint armed in a slot the scan has passed, a reap whose passes
are all refused, a successor in a slot that a dispatch of its predecessor still
names. `WfsCrash` was also run by
hand with 3 updates and 1 crash (5.3 million states), and with 3 updates, 2
crashes and no failed request (3.6 million). Two CPUs suffice for every hand-off in the
code, all of which have two sides; the third party in a race is the other
thread's waker, running on one of them.

The endpoint, select, journal, timed-wait and process runs turn deadlock
checking off: ids, pids, ticks, updates and crashes are bounded, and when all are
used up nothing may be left to do. The scheduler runs check deadlock.

## Disagreements

Five runs find a disagreement between the code and what it says of itself
(`PROJECT.json`, "findings"):

* `SchedStolenToken`: `process_wake_waiters` promotes, then claims the token,
  and a stale waker can take the token and drop it. The run is under
  `ReportedSpec`, without the branch the next one is about.
* `SchedSilent`: the branch of `cpu_sched_enqueue_from` that stays silent
  (`sched_thread.c:358-365`, every deferral whose count is no power of two) owes
  the enqueue before it marks the thread READY. A sweep that takes the debt in
  between finds the thread not READY and drops it; the mark then leaves the thread
  runnable on no queue, owed nothing. The run has event waits only, so the stolen
  token plays no part. `HandoffKept`, which holds, says that these two promotions
  are the only ones that lose a thread.
* `WfsTail`: the tail write is not followed by a flush. A device that writes
  later blocks back first can lose it, and then a sequence number is used twice:
  the second transaction finds a COMMIT of its own sequence in the log. The ATA
  driver flushes each write; the virtio driver does not.
* `SelectCrowd`: `ipc.h:318-320` calls readiness level-triggered, but a send wakes
  one waiter of a set and a woken wait scans from a rotating cursor. Of several
  threads on one set two can be handed the same endpoint, and a third sleeps on
  although another endpoint holds a message. With one thread per set the promise
  holds (`NoStuckWaiter`, proved).
* `ProcessReap`: `process_reap_claim` looks for a dispatch before it claims the
  zombie, and `dispatch_done` runs it on live `auto_reap` processes; a dispatch
  and a kill between the two let it free the stacks of a running thread.

Others were met with the same modules and are reproduced by replacing the
properties of a configuration:

* `LevelTriggered` of `IpcSelect` under `Spec`, with two threads: `ipc_select_add`
  wakes nobody when it adds a readable endpoint to a set on which a thread is
  parked. `ipc_select_listen` builds its set first, so in-kernel services are not
  affected; `ListenSpec` states that.
* A late mark (`sched_thread.c:977`) can make a thread READY that another promotion
  already ran and that has blocked again, so it resumes while linked on a wait
  list, a state `sched_event.c:180-185` calls unreachable: in `SchedDispatch` a
  thread reaches `run` with `waiting` still at `event`. The unlink at the head of
  `sched_event_wait` then takes it off that list under the lock of the new event,
  not of the list. No property covers this: `SchedDispatch` has no lists and
  `TimedWait` no late mark.
* `DispatchKeepsSlot` and `SpawnUndisturbed` without `leftovers`: once
  `thread_reap_owner` has given up, a dispatch that claimed a thread before its
  process died, checked its identity and was then delayed, meets
  `process_set_running` on a successor in the process slot and runs the old
  thread under it; and a spawn that gets no thread slot leaves its process slot
  NEW for ever (`process.c:1496-1500`). `thread.c:484-489` argues that the window
  closes within a handful of instructions; nothing but that speed keeps 64
  passes from being too few.
* `HintIsLowerBound` of `TimedWait`: with `smp`, a thread that is armed but not
  yet BLOCKED is taken for one that was woken and its deadline is cleared
  (`sched_event.c:121-124`), or skipped by a scan whose generation it did not
  touch, so the hint goes above it; a deadline read before a wake and a new wait
  can fire the new wait early. The `...Up` properties therefore speak of one
  CPU.
* `RegisteredWaiterIsWoken` without `late`: `process_wait` and
  `process_thread_join` test for ZOMBIE and register in separate steps, and a
  target that exits in between wakes nobody (`process.c:2135`, `2182`); the
  comment at `process.c:2238-2239` has a kill wake anyone waiting.
* `RefusedReapIsRetried` without `late`: a reap that saw a dispatch and stores
  `reap_requested` after that dispatch has looked is dropped; `process.c:1211`
  says that it is deferred.
* `CollectedStatusIsReal` with `AutoReap`: `process_wait` reads the status before
  it claims the reap, and an auto-reap on another CPU may have reset the slot.
* `HandledFaults`: after a failed COMMIT write or flush the next transaction
  reuses the sequence of one that may be durable; after a failed CLEAN mark the
  disk may say CLEAN while `dirty_marked` stays set, so later transactions are
  never replayed. `HandledDeaths`: a driver that dies between COMMIT and its
  flush is restarted over a log that only the cache holds, and its replay writes
  home before the COMMIT is durable.

## Fairness

Fairness is assumed in three places. `IpcHangup` assumes weak fairness of the
reaper's delivery loop, which takes one endpoint lock per record and waits for
nothing else. `SelectWait` assumes that a thread which can take a step inside a
wait or a destroy takes it, and that the reactor calls `ipc_select_wait` again:
the code of such a loop. Senders are not
assumed to do anything. `TimedWait` assumes weak fairness of the timer and strong
fairness of a thread inside a call and of a scan: a lock or the only CPU is
taken again and again by others, and the scheduler, which runs the scan before
every dispatch, and the spinlocks give each its turn; nothing is assumed of a
thread outside a call, so nobody need ever wake a waiter.

## Proofs

Every theorem is about the unbounded module: any number of ids, contexts,
threads, CPUs, blocks, any depth and any limit. The constants' assumptions are
the `ASSUME`s of the modules, which TLC evaluates in the runs: limits are naturals,
positive where the code's are, the marker values are distinct from what they
mark, and the threads that share a wait list are finitely many (the thread table
is an array). None of the properties is inductive alone; each proofs module
states one invariant that is (`IInv`, and `JInv` for the journal's recovery),
checked by TLC on the module's run before it was proved, and has one lemma per action or per class of actions.

**Endpoints** (`IpcEndpointProofs`): `TypeCorrect`, `PendingSafe`, `WaitersSafe`,
`HangupsAreLast`, `PeersHear`, `HangupsComeOnce`, `WakeupsAreKept`.

* A receive keeps a ring full behind pending hangups only if a send that finds
  room knows that nothing is pending; a release clears the wait lists of the
  dying endpoints only if every thread parked there is seen in `call`; a thread
  that dies with its process is off every list only if threads park on their own
  process's endpoints. `IInv` therefore adds `CallsHaveTargets`, `UnbornIsFree`,
  `OnlyMessageHolds`, `BatchIsOfProcess` and `ParkedMayUse`.
* The hangups need an account of where the record of each is (`Books`): of an
  endpoint that was not torn down there is none anywhere (`SilentWhileAlive`),
  after that there is one, in the batch, in the inbox or heard (`OneRecord`,
  `NoDuplicates`). The fact that carries it is `SendersLive`: a thread inside a
  send owns its source, and the teardown waits for threads on a CPU, so no send
  of a dying endpoint is left when its hangups go out. What a step does to an
  inbox is `Grown` or `Shrunk`, which the refinement uses too.
* `WakeupsAreKept` counts: an enqueue adds one item and, while somebody sleeps,
  one taker; a receive takes one of each. It needs that a thread on its way may
  take what it was woken for (`TakersMayUse`), or it would leave without taking.

`IpcEndpointRefinement` proves `Refinement`: `Spec => MailboxSpec`, where a
mailbox's content is ring and pending list in sequence. A refill at a receive
moves the boundary between the two and is no step of the mailbox
(`MoveUp`); a hangup is a put behind everything else because the pending list is
non-empty only behind a full ring; a data send is within the depth because a
ring with room has nothing pending behind it.

**Select sets** (`IpcSelectProofs`): `TypeCorrect`, `HubsNameLiveSets`,
`WatchersAreRegistered`, `ParkingMissesNothing`, `ReactorsSleepOnEmpty`. The table
lock is what the calls say (`InCall`), a list holds its parked threads
(`Parked`), hub and set agree but for what a destroy has visited
(`Registered`), and while nothing is latched everything a scan has looked at is
still empty (`ScanClean`), where the rotating index needs that it covers the list
(`RotationCovers`).

**Scheduler** (`SchedDispatchProofs`): `TypeCorrect`, `NodesAreExclusive`,
`OneCpuPerThread`, `AffinityIsRespected`, `WakesAreKept`, `HandoffsAreKept`, all of
`Spec`, with both branches of a deferral and waits for an exit. A CPU's registers
agree with the phase of its work (`Shape`), the slot claim is `dispatch_ref` and
one CPU has it (`Exclusive`), queues and claims respect the mask (`Affine`), and a
BLOCKED thread that waits for nothing has a CPU that will make it READY
(`Waking`). `NodesAreExclusive` needs the flag tied to the node: `on_rq` is set
exactly while the node is in a list or a CPU is between the two halves of linking
or unlinking it, and then in one of these places only (`Flagged`); that the queue lock is
held over both halves is not used, which is why several locks are enough. For
`HandoffsAreKept` a READY thread is queued, owed, loose, or at a point of some
CPU's code from which it will be queued or owed (`Carried`); a waker that only looks
whether the thread is still BLOCKED is no such point, which is why the property
itself is not inductive.

**Timed waits** (`TimedWaitProofs`): `TypeCorrect`, `WaitersAreLinked`,
`FutexWakesReachWaiters` (for a wake that asks for all waiters), and on one CPU
`DeadlinesAreKept` and `TimeoutsAreDue`. The event lock belongs to the thread that
is inside (`LockHeld`), a thread taken off a list is in the hands of one waker or
scan until it is promoted (`Hands`), a thread whose word changed under it has the writer still
waiting for the lock (`StaleIsSeen`), and while a scan runs nothing else does, so
what it has read is still so (`Alone`, `ScanReads`) and the bound it collects
covers the slots it has passed (`ParkedTicks`).

**Processes** (`ProcessLifeProofs`): `TypeCorrect` without a condition, since
`process_count_dec` saturates; and under `AutoReap = FALSE` (with it the first does
not hold: run `ProcessReap`) `SlotsAreKept`, `SpawnsAreUndisturbed`,
`StatusesAreReal`, `WaitersAreWoken` and `ReapsAreRetried`, each for as long as no
reap has given up, for any number of passes; `leftovers` is the kernel's own
counter of that, and the run shows the last three beyond it as well.
The argument is a token: of a process its parent is done with, one actor or
`reap_requested` has the reap (`Token`); no thread is on its stack once a reap has
found none there (`Quiet`), because a process that is marked exits
(`Marked`) and a dispatch checks that after its claim.

**Journal** (`WfsJournalProofs`), for any number of metadata blocks, any size of
transaction and any number of crashes. For any requests that fail, any steps at
which the driver dies and a device that writes back in any order, none of the
three restrictions of the `WfsCrash` run:

* `JournalTypeCorrect`: `Spec => []TypeOK`, the layout of the log and the limits
  of a transaction included;
* `ErrorSticky`: `Spec => ErrorIsSticky`, an action property.

`TypeOK` is not inductive: the limits hold after a replay only if every record
in any block of the log is within them (`Content`), a checkpoint writes an image
home only if the slots of the open transaction hold images (`StagedAreImages`),
and the slots of the next transaction do only if it starts empty (last conjunct
of `Driver`). The mark needs three more facts (`ErrorKnown`): a mark on the media
is also in the cache, where mounts and syncs look; a running driver that could
see it is read-only; and so is one about to write it. `Wrote` and `Settled`
reduce every request, done or failed, to its effect on the two disks, and
`Onward` says what a step may do to the driver's own variables, so that most
actions follow from `WroteStep` or `SettledStep`.

Under `Handled`, which states those three restrictions as a hypothesis on the
constants (the tail is not overtaken; COMMIT, its flush and the CLEAN mark do not
fail; the driver does not die alone between COMMIT and its flush), and with
every other failure, death and power cut allowed:

* `JournalRefines`: `Handled => (Spec => VolumeSpec)`, the refinement of
  `AtomicVolume`;
* `ServedStable`, `EarlyCrashes`, `CrashesKeepWritable`, `ReplaysSpareFreed`: the
  other properties of the run.

Each part of the hypothesis is needed: without it TLC finds the counterexamples
under "Disagreements". The inductive invariant is `JInv`. Its core is that media
and cache are always in one of four relations, by where the driver is (`Phase`):
`Empty`, no transaction in either and the same metadata blocks; `Retired`, one
that is home and that the tail has passed in the cache only; `Committing`, one
whose COMMIT record the media lacks; `Held`, one that both have, with home blocks
that differ only where its images make up for it. `Ordered` keeps stale records
from being taken for live ones (no record is newer than the tail), `Memory` ties
the driver's variables to the log, and `Fresh` with `Dated` tells the open
transaction from an older one in the same slots: every image it stages has a
stamp that no older image has. What a request, a flush, a writeback or a power
cut makes of the four relations is proved once, as lemmas on two disks
(`LogWriteModes`, `HomeWriteModes`, `TailWriteModes`, `CommitWriteModes`,
`FlushedModes`, `WritebackModes`, `CutModes`), and each action cites the one it
needs. For the refinement, `MediaStep` and `StableStays` show that what a mount
would recover changes in exactly one way, when `Committing` becomes `Held`, by the
flush or by the device's own writeback of the COMMIT record (`CommitRefines`);
`LossRefines` covers the one other change, a mark of ERROR reaching the media, after
which nothing is promised; `UpdatedIs` shows that an update starts from the promised content, and `Courses`
what the caller is told. `FreeAssumption` says that the mark `FREE` is no content.

Only model-checked: the liveness properties `BatchDrains`,
`EveryReadyEndpointReported` and `TimedWaitEndsUp`, since liveness under fairness
is outside the prover, and the five runs that expect a violation.

## Not modelled

See `PROJECT.json`, "components". In short: id reuse after 2^32 creations;
priority bands and the anti-starvation streak; select sets that outlive their
process; of processes, parked spawns, detached threads, kernel workers, the
failures of a process spawn other than the lack of a thread slot, and the death of
the parent; of WFS, file data, backup
superblocks and the superblock's counters; mutexes and the semaphore; and the
parts above the kernel other than the journal. Vendored libraries, the bulk of
the repository's lines, are not this system's logic.

## Plan

Done: `IpcEndpoint` with `Mailbox` and its proofs, `IpcSelect`, `SchedDispatch`,
`TimedWait`, `ProcessLife`, `WfsJournal` with `AtomicVolume`, and the theorems
above. Next:

1. `RunQueue`: bands, bitmap, anti-starvation streak, bounded bypass;
2. `UserMutex` and `Semaphore` over the events of `TimedWait`;
3. `XferBuffer`, `Capability`, `IrqSharing`: ownership and release at death;
4. `ProcessManager`: spawn protocol, registry, shutdown.
