---------------------------- MODULE IpcEndpoint ----------------------------
(***************************************************************************)
(* The kernel's IPC endpoints (src/src/kernel/ipc.c): bounded message      *)
(* rings, notification counters, blocking receivers, and the hangups that  *)
(* tell an endpoint's correspondents that its owner died.                  *)
(*                                                                         *)
(* One action is one critical section: everything the code does between    *)
(* taking and releasing g_endpoint_table_lock or an endpoint's lock.  The  *)
(* windows between two critical sections of one call are states of the     *)
(* calling thread (call).  The poll hub an enqueue notifies is modelled    *)
(* by IpcSelect; the record of refused sends is diagnostic, carries no     *)
(* control and is left out.                                                *)
(***************************************************************************)
EXTENDS Naturals, Sequences, FiniteSets

CONSTANTS
    MaxId,            \* bound: endpoint ids handed out are 1 .. MaxId
    Contexts,         \* process contexts (IPC_CONTEXT_KERNEL is not one)
    Threads,          \* threads that make IPC calls
    ThreadContext,    \* the context each thread runs in
    KERNEL,           \* IPC_CONTEXT_KERNEL
    NONE,             \* IPC_ENDPOINT_NONE
    QUEUE_DEPTH,      \* IPC_QUEUE_DEPTH
    CONTACTS_MAX,     \* IPC_ENDPOINT_CONTACTS_MAX
    PER_CONTEXT_MAX,  \* IPC_ENDPOINT_PER_CONTEXT_MAX
    NOTIFY_MAX        \* UINT32_MAX, where notify_count saturates

\* The endpoint ids.  idtable hands each out once; it recycles ids only after
\* a wrap of the 32-bit counter, which this model does not reach.
Endpoints == 1 .. MaxId

\* IPC_QUEUE_SLOTS: one ring slot more than a sender may fill.
QUEUE_SLOTS == QUEUE_DEPTH + 1

\* The thread table is an array of THREAD_MAX_COUNT slots.
ASSUME EndpointAssumption ==
    /\ MaxId \in Nat
    /\ QUEUE_DEPTH \in Nat \ {0}
    /\ CONTACTS_MAX \in Nat \ {0}
    /\ PER_CONTEXT_MAX \in Nat \ {0}
    /\ NOTIFY_MAX \in Nat \ {0}
    /\ NONE \notin Endpoints
    /\ KERNEL \notin Contexts
    /\ NONE \notin Contexts
    /\ KERNEL # NONE
    /\ IsFiniteSet(Threads)
    /\ ThreadContext \in [Threads -> Contexts \cup {KERNEL}]

(***************************************************************************)
(* Messages.  A data message is told apart only by its source; a hangup    *)
(* (WASMOS_IPC_HANGUP) comes from no endpoint and names the dead endpoint  *)
(* in arg0 (NONE for a context watch) and its owner in arg1.               *)
(***************************************************************************)
Data(source) == [type |-> "data", source |-> source, arg0 |-> NONE, arg1 |-> NONE]

HangupMessage(dead, ctx) ==
    [type |-> "hangup", source |-> NONE, arg0 |-> dead, arg1 |-> ctx]

Message ==
    {Data(s) : s \in Endpoints \cup {NONE}}
        \cup {HangupMessage(d, c) : d \in Endpoints \cup {NONE}, c \in Contexts}

VARIABLES
    next_id,     \* idtable's counter: the id the next create gets
    type,        \* "free", "message", "notification" or, torn down, "released"
    owner,       \* header.owner_context_id; NONE while the id is free
    queue,       \* the ring, oldest first (head, tail and count)
    notify_count,
    waiters,     \* event.wait_list, longest waiter first
    contacts,    \* destinations this endpoint owes a hangup, newest first
    contacts_overflowed,
    pending,     \* hangups owed TO this endpoint that found its ring full
    watches,     \* g_context_watches by watched context: destinations
    batch,       \* deliver list of the teardown pass, by dead endpoint
    watch_batch, \* deliver list of the teardown pass, by dead context
    reported,    \* endpoints counted in batch.overflowed and logged
    ctx,         \* the process of a context: "live", "zombie", "gone"
    call,        \* the IPC call each thread is in: where, and on which endpoints
    heard,       \* history: hangups of endpoint s received by endpoint d
    sent         \* history: destinations that accepted data of message endpoint s

epVars   == <<next_id, type, owner, queue, notify_count>>
hangVars == <<contacts, contacts_overflowed, pending>>
oweVars  == <<watches, batch, watch_batch, reported>>
histVars == <<heard, sent>>
vars == <<epVars, waiters, hangVars, oweVars, ctx, call, histVars>>

\* Calls that end with the ring checked under no lock the thread still holds.
Parked == {"parked_recv", "parked_wait"}

\* Calls that hold no lock but are still to touch an endpoint.  A thread here
\* is on a CPU: a ring-0 call is never preempted.
InSend == {"send", "note", "note_alloc"}

Call ==
    [at  : {"idle", "woken_recv", "drain", "dead"} \cup Parked \cup InSend,
     src : Endpoints \cup {NONE},
     dst : Endpoints \cup {NONE}]

Idle == [at |-> "idle", src |-> NONE, dst |-> NONE]
Dead == [at |-> "dead", src |-> NONE, dst |-> NONE]

\* Every variable keeps its type; notify_count saturates within its width and
\* the ids never run past the table (ipc_notify_from, idtable_alloc_id).
TypeOK ==
    /\ next_id \in 1 .. MaxId + 1
    /\ type \in [Endpoints -> {"free", "message", "notification", "released"}]
    /\ owner \in [Endpoints -> Contexts \cup {KERNEL, NONE}]
    /\ queue \in [Endpoints -> Seq(Message)]
    /\ notify_count \in [Endpoints -> 0 .. NOTIFY_MAX]
    /\ waiters \in [Endpoints -> Seq(Threads)]
    /\ contacts \in [Endpoints -> Seq(Endpoints)]
    /\ contacts_overflowed \in [Endpoints -> BOOLEAN]
    /\ pending \in [Endpoints -> Seq(Message)]
    /\ watches \in [Contexts -> Seq(Endpoints)]
    /\ batch \in [Endpoints -> Seq(Endpoints)]
    /\ watch_batch \in [Contexts -> Seq(Endpoints)]
    /\ reported \in SUBSET Endpoints
    /\ ctx \in [Contexts -> {"live", "zombie", "gone"}]
    /\ call \in [Threads -> Call]
    /\ heard \in [Endpoints -> [Endpoints -> Nat]]
    /\ sent \in [Endpoints -> SUBSET Endpoints]

Init ==
    /\ next_id = 1
    /\ type = [e \in Endpoints |-> "free"]
    /\ owner = [e \in Endpoints |-> NONE]
    /\ queue = [e \in Endpoints |-> << >>]
    /\ notify_count = [e \in Endpoints |-> 0]
    /\ waiters = [e \in Endpoints |-> << >>]
    /\ contacts = [e \in Endpoints |-> << >>]
    /\ contacts_overflowed = [e \in Endpoints |-> FALSE]
    /\ pending = [e \in Endpoints |-> << >>]
    /\ watches = [c \in Contexts |-> << >>]
    /\ batch = [e \in Endpoints |-> << >>]
    /\ watch_batch = [c \in Contexts |-> << >>]
    /\ reported = {}
    /\ ctx = [c \in Contexts |-> "live"]
    /\ call = [t \in Threads |-> Idle]
    /\ heard = [d \in Endpoints |-> [s \in Endpoints |-> 0]]
    /\ sent = [s \in Endpoints |-> {}]

----------------------------------------------------------------------------
(***************************************************************************)
(* Lookup helpers.                                                         *)
(***************************************************************************)

\* ipc_endpoint_get resolves the id: idtable holds a live element.
Live(e) == type[e] \in {"message", "notification"}

\* ipc_endpoint_acquire(e, IPC_ENDPOINT_TYPE_MESSAGE)
IsMessage(e) == type[e] = "message"

\* ipc_endpoint_acquire_owned: the owner, or the kernel, and nobody else.
MayUse(t, e) == ThreadContext[t] \in {KERNEL, owner[e]}

\* A thread whose process was reaped never runs again.
CanRun(t) ==
    /\ call[t].at # "dead"
    /\ ThreadContext[t] # KERNEL => ctx[ThreadContext[t]] # "gone"

\* idtable_count_for_owner
CountForOwner(c) == Cardinality({e \in Endpoints : Live(e) /\ owner[e] = c})

\* The source check of ipc_send_from, under the table lock alone.  Kernel
\* senders pass no source or an endpoint of the kernel's own.
MaySendAs(t, s) ==
    IF ThreadContext[t] = KERNEL
    THEN s = NONE \/ (s \in Endpoints /\ owner[s] = KERNEL)
    ELSE s \in Endpoints /\ Live(s) /\ owner[s] = ThreadContext[t]

SeqHas(s, x) == \E i \in 1 .. Len(s) : s[i] = x

(***************************************************************************)
(* sched_event_wake_one on the endpoint's event: the longest waiter leaves *)
(* the list and becomes runnable.  A thread parked in a blocking receive   *)
(* goes on to re-resolve the endpoint; one parked in ipc_endpoint_wait_for *)
(* returns, and its caller drains with ipc_recv_for.                       *)
(***************************************************************************)
Resumed(label) == IF label = "parked_recv" THEN "woken_recv" ELSE "drain"

WakeOne(e, p) ==
    IF waiters[e] = << >> THEN p
    ELSE [p EXCEPT ![Head(waiters[e])].at = Resumed(@)]

\* Mutation: wake a receiver only when the ring was empty.
WakeOneOnEdge(e, p) ==
    IF waiters[e] = << >> \/ queue[e] # << >> THEN p
    ELSE [p EXCEPT ![Head(waiters[e])].at = Resumed(@)]

\* The wake an enqueue performs, on the thread states p.
EnqueueWake(e, p) == WakeOne(e, p)

\* Mutation: the woken thread is left on the wait list.
LeftWaitingStale(e) == waiters[e]

LeftWaiting(e) == IF waiters[e] = << >> THEN << >> ELSE Tail(waiters[e])

\* ipc_endpoint_enqueue_locked: append, then wake one receiver.  p is the
\* thread state the caller's own progress leaves.
EnqueueLocked(e, ring, m, p) ==
    /\ queue' = [queue EXCEPT ![e] = Append(ring, m)]
    /\ call' = EnqueueWake(e, p)
    /\ waiters' = [waiters EXCEPT ![e] = LeftWaiting(e)]

\* History: what the receiver of e learns by taking m.
Hears(e, m) ==
    heard' = IF m.type = "hangup" /\ m.arg0 # NONE
             THEN [heard EXCEPT ![e][m.arg0] = @ + 1]
             ELSE heard

\* Mutation: the freed slot is left empty although a hangup is waiting.
DequeueLockedNoRefill(e, p) ==
    /\ queue' = [queue EXCEPT ![e] = Tail(@)]
    /\ Hears(e, Head(queue[e]))
    /\ call' = p
    /\ UNCHANGED <<waiters, pending>>

\* ipc_endpoint_dequeue_locked: take the oldest message; the slot it frees
\* goes to the oldest pending hangup.
DequeueLocked(e, p) ==
    /\ Hears(e, Head(queue[e]))
    /\ \/ /\ pending[e] = << >>
          /\ queue' = [queue EXCEPT ![e] = Tail(@)]
          /\ call' = p
          /\ UNCHANGED <<waiters, pending>>
       \/ /\ pending[e] # << >>
          /\ EnqueueLocked(e, Tail(queue[e]), Head(pending[e]), p)
          /\ pending' = [pending EXCEPT ![e] = Tail(@)]

----------------------------------------------------------------------------
(***************************************************************************)
(* Creation: ipc_endpoint_create and ipc_notification_create.  The quota   *)
(* counts both kinds together and is tested before the table grows.        *)
(***************************************************************************)
CreateTyped(c, ty) ==
    /\ next_id <= MaxId
    /\ c # KERNEL => ctx[c] # "gone"
    /\ CountForOwner(c) < PER_CONTEXT_MAX
    /\ next_id' = next_id + 1
    /\ type' = [type EXCEPT ![next_id] = ty]
    /\ owner' = [owner EXCEPT ![next_id] = c]
    /\ UNCHANGED <<queue, notify_count, waiters, hangVars, oweVars, ctx, call, histVars>>

(***************************************************************************)
(* ipc_send_from.                                                          *)
(***************************************************************************)

\* The source check passed; no lock is held until the destination's.
SendBegin(t, s, d) ==
    /\ CanRun(t)
    /\ call[t].at = "idle"
    /\ MaySendAs(t, s)
    /\ call' = [call EXCEPT ![t] = [at |-> "send", src |-> s, dst |-> d]]
    /\ UNCHANGED <<epVars, waiters, hangVars, oweVars, ctx, histVars>>

\* Mutation: the reserved slot is open to every sender.
HasRoomAllSlots(d) == Len(queue[d]) < QUEUE_SLOTS

\* The depth a sender sees; the slot past it is for hangups only.
HasRoom(d) == Len(queue[d]) < QUEUE_DEPTH

\* IPC_ERR_NOENT, IPC_ERR_UNSUPPORTED or IPC_ERR_FULL: nothing is queued.
SendRefused(t) ==
    /\ CanRun(t)
    /\ call[t].at = "send"
    /\ ~IsMessage(call[t].dst) \/ ~HasRoom(call[t].dst)
    /\ call' = [call EXCEPT ![t] = Idle]
    /\ UNCHANGED <<epVars, waiters, hangVars, oweVars, ctx, histVars>>

\* Accepted under the destination's lock; the contact is noted afterwards.
SendEnqueue(t) ==
    LET s == call[t].src
        d == call[t].dst
    IN  /\ CanRun(t)
        /\ call[t].at = "send"
        /\ IsMessage(d)
        /\ HasRoom(d)
        /\ EnqueueLocked(d, queue[d], Data(s), [call EXCEPT ![t].at = "note"])
        /\ sent' = IF s # NONE /\ IsMessage(s) THEN [sent EXCEPT ![s] = @ \cup {d}] ELSE sent
        /\ UNCHANGED <<next_id, type, owner, notify_count, hangVars, oweVars, ctx, heard>>

\* A kernel send on nobody's behalf (an interrupt, a log notice): source NONE,
\* so there is no contact to note.
KernelSend(d) ==
    /\ IsMessage(d)
    /\ HasRoom(d)
    /\ EnqueueLocked(d, queue[d], Data(NONE), call)
    /\ UNCHANGED <<next_id, type, owner, notify_count, hangVars, oweVars, ctx, histVars>>

(***************************************************************************)
(* ipc_endpoint_note_contact, under the SOURCE endpoint's lock.            *)
(***************************************************************************)

\* Nothing to record: no source, a send to itself, a source that is no live
\* message endpoint or is the kernel's, or a destination already recorded.
NothingToNote(s, d) ==
    \/ s \in {NONE, d}
    \/ /\ s \in Endpoints
       /\ ~IsMessage(s) \/ owner[s] = KERNEL \/ SeqHas(contacts[s], d)

\* The first look.  A full list is an overflow; otherwise the lock is dropped
\* to allocate the record.
NoteCheck(t) ==
    LET s == call[t].src
        d == call[t].dst
    IN  /\ CanRun(t)
        /\ call[t].at = "note"
        /\ \/ /\ NothingToNote(s, d)
              /\ call' = [call EXCEPT ![t] = Idle]
              /\ UNCHANGED contacts_overflowed
           \/ /\ ~NothingToNote(s, d)
              /\ Len(contacts[s]) >= CONTACTS_MAX
              /\ contacts_overflowed' = [contacts_overflowed EXCEPT ![s] = TRUE]
              /\ call' = [call EXCEPT ![t] = Idle]
           \/ /\ ~NothingToNote(s, d)
              /\ Len(contacts[s]) < CONTACTS_MAX
              /\ call' = [call EXCEPT ![t].at = "note_alloc"]
              /\ UNCHANGED contacts_overflowed
        /\ UNCHANGED <<epVars, waiters, contacts, pending, oweVars, ctx, histVars>>

\* Mutation: the duplicate test is not repeated after the allocation.
RecordedMeanwhileNever(s, d) == FALSE

\* Another send may have recorded the destination while the lock was dropped.
RecordedMeanwhile(s, d) == SeqHas(contacts[s], d)

\* The second look, with the record allocated or not.
NoteRecord(t, allocated) ==
    LET s == call[t].src
        d == call[t].dst
    IN  /\ CanRun(t)
        /\ call[t].at = "note_alloc"
        /\ call' = [call EXCEPT ![t] = Idle]
        /\ \/ /\ ~IsMessage(s)
              /\ UNCHANGED <<contacts, contacts_overflowed>>
           \/ /\ IsMessage(s)
              /\ ~allocated \/ Len(contacts[s]) >= CONTACTS_MAX
              /\ contacts_overflowed' = [contacts_overflowed EXCEPT ![s] = TRUE]
              /\ UNCHANGED contacts
           \/ /\ IsMessage(s)
              /\ allocated
              /\ Len(contacts[s]) < CONTACTS_MAX
              /\ IF RecordedMeanwhile(s, d)
                 THEN UNCHANGED contacts
                 ELSE contacts' = [contacts EXCEPT ![s] = <<d>> \o @]
              /\ UNCHANGED contacts_overflowed
        /\ UNCHANGED <<epVars, waiters, pending, oweVars, ctx, histVars>>

----------------------------------------------------------------------------
(***************************************************************************)
(* Receiving.                                                              *)
(***************************************************************************)

\* ipc_recv_for on a non-empty ring.  An empty ring answers IPC_EMPTY and
\* registers no waiter, so it changes nothing.
RecvFor(t, e) ==
    /\ CanRun(t)
    /\ call[t].at = "idle"
    /\ IsMessage(e)
    /\ MayUse(t, e)
    /\ queue[e] # << >>
    /\ DequeueLocked(e, call)
    /\ UNCHANGED <<next_id, type, owner, notify_count, contacts, contacts_overflowed,
                   oweVars, ctx, sent>>

\* The test for emptiness hands over from the endpoint's lock to the event's
\* without a gap: the thread is on the wait list before any sender can look.
Park(t, e, label) ==
    /\ CanRun(t)
    /\ call[t].at = "idle"
    /\ IsMessage(e)
    /\ MayUse(t, e)
    /\ queue[e] = << >>
    /\ call' = [call EXCEPT ![t] = [at |-> label, src |-> NONE, dst |-> e]]
    /\ waiters' = [waiters EXCEPT ![e] = Append(@, t)]
    /\ UNCHANGED <<epVars, hangVars, oweVars, ctx, histVars>>

\* ipc_recv_blocking_for on an empty ring.  (On a non-empty one it dequeues
\* at once, exactly as RecvFor does.)
RecvBlocking(t, e) == Park(t, e, "parked_recv")

\* ipc_recv_blocking_for after the wake: the endpoint is looked up again by id,
\* with neither its owner nor its type re-checked.
ResumeRecv(t) ==
    LET e == call[t].dst
    IN  /\ CanRun(t)
        /\ call[t].at = "woken_recv"
        /\ \/ /\ ~Live(e) \/ queue[e] = << >>       \* PEER_GONE or EMPTY
              /\ call' = [call EXCEPT ![t] = Idle]
              /\ UNCHANGED <<queue, waiters, pending, heard>>
           \/ /\ Live(e)
              /\ queue[e] # << >>
              /\ DequeueLocked(e, [call EXCEPT ![t] = Idle])
        /\ UNCHANGED <<next_id, type, owner, notify_count, contacts, contacts_overflowed,
                       oweVars, ctx, sent>>

\* ipc_endpoint_wait_for: returns at once when readable, parks otherwise.
EndpointWait(t, e) ==
    \/ Park(t, e, "parked_wait")
    \/ /\ CanRun(t)
       /\ call[t].at = "idle"
       /\ IsMessage(e)
       /\ MayUse(t, e)
       /\ queue[e] # << >>
       /\ call' = [call EXCEPT ![t] = [at |-> "drain", src |-> NONE, dst |-> e]]
       /\ UNCHANGED <<epVars, waiters, hangVars, oweVars, ctx, histVars>>

\* The deadline of a parked ipc_endpoint_wait_for passes: the thread leaves
\* the wait list and returns, like a woken one.
WaitTimeout(t) ==
    LET e == call[t].dst
    IN  /\ call[t].at = "parked_wait"
        /\ call' = [call EXCEPT ![t].at = "drain"]
        /\ \E i \in 1 .. Len(waiters[e]) :
              /\ waiters[e][i] = t
              /\ waiters' = [waiters EXCEPT ![e] = SubSeq(@, 1, i - 1) \o SubSeq(@, i + 1, Len(@))]
        /\ UNCHANGED <<epVars, hangVars, oweVars, ctx, histVars>>

\* The ipc_recv_for the caller of ipc_endpoint_wait_for makes next.
Drain(t) ==
    LET e == call[t].dst
    IN  /\ CanRun(t)
        /\ call[t].at = "drain"
        /\ \/ /\ ~IsMessage(e) \/ queue[e] = << >>
              /\ call' = [call EXCEPT ![t] = Idle]
              /\ UNCHANGED <<queue, waiters, pending, heard>>
           \/ /\ IsMessage(e)
              /\ queue[e] # << >>
              /\ DequeueLocked(e, [call EXCEPT ![t] = Idle])
        /\ UNCHANGED <<next_id, type, owner, notify_count, contacts, contacts_overflowed,
                       oweVars, ctx, sent>>

(***************************************************************************)
(* Notification endpoints: a saturating counter, owner only, never blocks. *)
(***************************************************************************)

\* Mutation: the counter is incremented at UINT32_MAX too.
SaturatingIncUnchecked(n) == n + 1

\* Notifications past UINT32_MAX are coalesced instead of wrapping to zero.
SaturatingInc(n) == IF n < NOTIFY_MAX THEN n + 1 ELSE n

\* ipc_notify_from
NotifyFrom(t, e) ==
    /\ CanRun(t)
    /\ call[t].at = "idle"
    /\ type[e] = "notification"
    /\ MayUse(t, e)
    /\ notify_count' = [notify_count EXCEPT ![e] = SaturatingInc(@)]
    /\ UNCHANGED <<next_id, type, owner, queue, waiters, hangVars, oweVars, ctx, call, histVars>>

\* ipc_wait_for: consumes one; IPC_EMPTY at zero changes nothing.
WaitFor(t, e) ==
    /\ CanRun(t)
    /\ call[t].at = "idle"
    /\ type[e] = "notification"
    /\ MayUse(t, e)
    /\ notify_count[e] > 0
    /\ notify_count' = [notify_count EXCEPT ![e] = @ - 1]
    /\ UNCHANGED <<next_id, type, owner, queue, waiters, hangVars, oweVars, ctx, call, histVars>>

----------------------------------------------------------------------------
(***************************************************************************)
(* Teardown.                                                               *)
(***************************************************************************)

\* ipc_context_watch.  The process manager issues one per spawned child, while
\* the child is still parked.
ContextWatch(c, d) ==
    /\ ctx[c] = "live"
    /\ watches[c] = << >>
    /\ watches' = [watches EXCEPT ![c] = <<d>> \o @]
    /\ UNCHANGED <<epVars, waiters, hangVars, batch, watch_batch, reported, ctx, call, histVars>>

\* process_mark_exited: the process becomes a zombie.  A thread of it that is
\* on a CPU finishes the call it is in.
Exit(c) ==
    /\ ctx[c] = "live"
    /\ ctx' = [ctx EXCEPT ![c] = "zombie"]
    /\ UNCHANGED <<epVars, waiters, hangVars, oweVars, call, histVars>>

\* Mutation: the reap does not wait for threads still on a CPU.
NoActiveDispatchUnchecked(c) == TRUE

\* thread_owner_has_active_dispatch is false: no thread of c is inside a call.
NoActiveDispatch(c) == \A t \in Threads : ThreadContext[t] = c => call[t].at \notin InSend

OwnedBy(c) == {e \in Endpoints : Live(e) /\ owner[e] = c}

\* The threads parked on an endpoint of c are aborted; those of c itself were
\* reaped with it.
CallsAfterRelease(c) ==
    [t \in Threads |->
        IF ThreadContext[t] = c THEN Dead
        ELSE IF call[t].at \in Parked /\ call[t].dst \in OwnedBy(c)
             THEN [call[t] EXCEPT !.at = Resumed(@)]
        ELSE call[t]]

\* batch->discard: hangups owed to a dying endpoint are owed to no one.
ClearPending(c) == [e \in Endpoints |-> IF e \in OwnedBy(c) THEN << >> ELSE pending[e]]

\* Popping the records of one list and pushing them on the batch turns it round.
Reversed(s) == [i \in 1 .. Len(s) |-> s[Len(s) + 1 - i]]

\* ipc_endpoints_release_owner up to the table unlock: ipc_endpoint_teardown
\* on every endpoint of c, and the context watches on c moved to the batch.
ReleaseOwner(c) ==
    LET dying == OwnedBy(c)
    IN  /\ ctx[c] = "zombie"
        /\ NoActiveDispatch(c)
        /\ ctx' = [ctx EXCEPT ![c] = "gone"]
        /\ type' = [e \in Endpoints |-> IF e \in dying THEN "released" ELSE type[e]]
        /\ queue' = [e \in Endpoints |-> IF e \in dying THEN << >> ELSE queue[e]]
        /\ waiters' = [e \in Endpoints |-> IF e \in dying THEN << >> ELSE waiters[e]]
        /\ batch' = [e \in Endpoints |-> IF e \in dying THEN Reversed(contacts[e]) ELSE batch[e]]
        /\ contacts' = [e \in Endpoints |-> IF e \in dying THEN << >> ELSE contacts[e]]
        /\ reported' = reported \cup {e \in dying : contacts_overflowed[e]}
        /\ contacts_overflowed' =
              [e \in Endpoints |-> IF e \in dying THEN FALSE ELSE contacts_overflowed[e]]
        /\ pending' = ClearPending(c)
        /\ watch_batch' = [watch_batch EXCEPT ![c] = Reversed(watches[c])]
        /\ watches' = [watches EXCEPT ![c] = << >>]
        /\ call' = CallsAfterRelease(c)
        /\ UNCHANGED <<next_id, owner, notify_count, histVars>>

\* Mutation: a hangup overtakes the messages already in the ring.
IntoRingFirst(d, m) ==
    IF pending[d] = << >> /\ Len(queue[d]) < QUEUE_SLOTS
    THEN /\ queue' = [queue EXCEPT ![d] = <<m>> \o @]
         /\ call' = EnqueueWake(d, call)
         /\ waiters' = [waiters EXCEPT ![d] = LeftWaiting(d)]
         /\ UNCHANGED pending
    ELSE /\ pending' = [pending EXCEPT ![d] = Append(@, m)]
         /\ UNCHANGED <<queue, call, waiters>>

\* ipc_hangup_deliver to a live destination: into the ring when it has room and
\* no older hangup waits, else to the end of the pending list.
IntoRingOrPending(d, m) ==
    IF pending[d] = << >> /\ Len(queue[d]) < QUEUE_SLOTS
    THEN EnqueueLocked(d, queue[d], m, call) /\ UNCHANGED pending
    ELSE /\ pending' = [pending EXCEPT ![d] = Append(@, m)]
         /\ UNCHANGED <<queue, call, waiters>>

\* A destination that no longer exists holds nothing: the record is freed.
HangupDeliver(d, m) ==
    IF IsMessage(d) THEN IntoRingOrPending(d, m)
    ELSE UNCHANGED <<queue, call, waiters, pending>>

\* Mutation: the delivery waits for a slot instead of leaving the record pending.
DeliverContactWaits(s) ==
    /\ batch[s] # << >>
    /\ IsMessage(Head(batch[s])) => Len(queue[Head(batch[s])]) < QUEUE_SLOTS
    /\ batch' = [batch EXCEPT ![s] = Tail(@)]
    /\ HangupDeliver(Head(batch[s]), HangupMessage(s, owner[s]))
    /\ UNCHANGED <<next_id, type, owner, notify_count, contacts, contacts_overflowed,
                   watches, watch_batch, reported, ctx, histVars>>

\* One turn of the delivery loop, outside the table lock, for a contact of the
\* dead endpoint s or a watch on the dead context c.  The batch of a pass is
\* kept here as one list per endpoint and one per context; which of the lists
\* comes next is left open.
DeliverContact(s) ==
    /\ batch[s] # << >>
    /\ batch' = [batch EXCEPT ![s] = Tail(@)]
    /\ HangupDeliver(Head(batch[s]), HangupMessage(s, owner[s]))
    /\ UNCHANGED <<next_id, type, owner, notify_count, contacts, contacts_overflowed,
                   watches, watch_batch, reported, ctx, histVars>>

DeliverWatch(c) ==
    /\ watch_batch[c] # << >>
    /\ watch_batch' = [watch_batch EXCEPT ![c] = Tail(@)]
    /\ HangupDeliver(Head(watch_batch[c]), HangupMessage(NONE, c))
    /\ UNCHANGED <<next_id, type, owner, notify_count, contacts, contacts_overflowed,
                   watches, batch, reported, ctx, histVars>>

----------------------------------------------------------------------------
ThreadStep(t) ==
    \/ SendRefused(t)
    \/ SendEnqueue(t)
    \/ NoteCheck(t)
    \/ \E ok \in BOOLEAN : NoteRecord(t, ok)
    \/ ResumeRecv(t)
    \/ WaitTimeout(t)
    \/ Drain(t)

ThreadCall(t) ==
    \/ \E s \in Endpoints \cup {NONE}, d \in Endpoints : SendBegin(t, s, d)
    \/ \E e \in Endpoints :
          \/ RecvFor(t, e)
          \/ RecvBlocking(t, e)
          \/ EndpointWait(t, e)
          \/ NotifyFrom(t, e)
          \/ WaitFor(t, e)

Reaper ==
    \/ \E s \in Endpoints : DeliverContact(s)
    \/ \E c \in Contexts : DeliverWatch(c)

Next ==
    \/ \E c \in Contexts \cup {KERNEL}, ty \in {"message", "notification"} : CreateTyped(c, ty)
    \/ \E t \in Threads : ThreadCall(t) \/ ThreadStep(t)
    \/ \E d \in Endpoints : KernelSend(d)
    \/ \E c \in Contexts, d \in Endpoints : ContextWatch(c, d)
    \/ \E c \in Contexts : Exit(c) \/ ReleaseOwner(c)
    \/ Reaper

Spec == Init /\ [][Next]_vars

\* The delivery loop of the reaper is a plain loop that takes no lock for
\* longer than one record: it is not stopped by anything another thread does.
FairSpec == Spec /\ WF_vars(Reaper)

----------------------------------------------------------------------------
(***************************************************************************)
(* Properties.                                                             *)
(***************************************************************************)

\* What the receiver of e is still to take, in order: the ring, then the
\* hangups waiting behind it.
Inbox(e) == queue[e] \o pending[e]

\* A hangup waits on the pending list only behind a completely full ring, and
\* the ring never exceeds its slots: as long as one is pending the endpoint is
\* readable, so the receives that move it forward are sure to come.
PendingBehindFullRing ==
    \A e \in Endpoints :
        /\ Len(queue[e]) <= QUEUE_SLOTS
        /\ pending[e] # << >> => Len(queue[e]) = QUEUE_SLOTS

HangupsOf(s, d) ==
    {i \in 1 .. Len(Inbox(d)) : Inbox(d)[i].type = "hangup" /\ Inbox(d)[i].arg0 = s}

Occurrences(x, q) == Cardinality({i \in 1 .. Len(q) : q[i] = x})

\* The record of a hangup that s owes d lives in exactly one place at a time
\* (contacts, teardown batch, ring, pending list) and is received at most once,
\* although several threads may send to d for the first time at once.
HangupAtMostOnce ==
    \A s, d \in Endpoints :
        Occurrences(d, contacts[s]) + Occurrences(d, batch[s])
            + Cardinality(HangupsOf(s, d)) + heard[d][s] <= 1

NotingContact(s, d) ==
    \E t \in Threads : call[t].at \in {"note", "note_alloc"} /\ call[t].src = s /\ call[t].dst = d

\* No correspondent is forgotten silently: once d accepted a message of s (a
\* process's endpoint), then until d itself is gone the hangup is still owed,
\* is being recorded, is on its way, was received, or the overflow that lost it
\* is recorded on s or was reported at its teardown.
EveryPeerHears ==
    \A s, d \in Endpoints :
        (d \in sent[s] /\ s # d /\ owner[s] # KERNEL /\ IsMessage(d))
        => \/ SeqHas(contacts[s], d)
           \/ NotingContact(s, d)
           \/ SeqHas(batch[s], d)
           \/ HangupsOf(s, d) # {}
           \/ heard[d][s] > 0
           \/ contacts_overflowed[s]
           \/ s \in reported

\* A hangup is the last word of a peer: behind it, or after it was received, no
\* message of that peer is left to take.  A service may release everything it
\* holds for the peer when it takes the hangup.
HangupIsLast ==
    \A s, d \in Endpoints :
        \A j \in 1 .. Len(Inbox(d)) :
            (Inbox(d)[j].type = "data" /\ Inbox(d)[j].source = s)
            => /\ heard[d][s] = 0
               /\ \A i \in HangupsOf(s, d) : j < i

\* Threads woken for e, or told that it is readable, that have yet to look.
InFlight(e) == {t \in Threads : call[t].at \in {"woken_recv", "drain"} /\ call[t].dst = e}

\* No lost wake-up: a thread stays parked on an endpoint only while every
\* queued message has a thread already on its way to take it.
NoLostWakeup ==
    \A e \in Endpoints :
        (\E t \in Threads : call[t].at \in Parked /\ call[t].dst = e)
            => Len(queue[e]) <= Cardinality(InFlight(e))

\* A thread is on the wait list of exactly the endpoint it is parked on, once,
\* and never on that of an endpoint that no longer exists.
WaitersAreParked ==
    /\ \A e \in Endpoints :
          /\ \A i \in 1 .. Len(waiters[e]) :
                call[waiters[e][i]].at \in Parked /\ call[waiters[e][i]].dst = e
          /\ \A i, j \in 1 .. Len(waiters[e]) : waiters[e][i] = waiters[e][j] => i = j
          /\ waiters[e] # << >> => IsMessage(e)
    /\ \A t \in Threads : call[t].at \in Parked => SeqHas(waiters[call[t].dst], t)

\* Every hangup a dead endpoint or context owes leaves the teardown batch, even
\* when no receiver ever drains its ring.
BatchDrains ==
    /\ \A s \in Endpoints : batch[s] # << >> ~> batch[s] = << >>
    /\ \A c \in Contexts : watch_batch[c] # << >> ~> watch_batch[c] = << >>

----------------------------------------------------------------------------
(***************************************************************************)
(* What an endpoint promises its receiver: a first-in first-out mailbox    *)
(* that refuses data beyond its depth and never refuses a hangup.          *)
(***************************************************************************)
MailboxState ==
    [e \in Endpoints |->
        IF type[e] = "free" THEN "new"
        ELSE IF type[e] = "message" THEN "open"
        ELSE "shut"]

Mailbox == INSTANCE Mailbox WITH
    Boxes <- Endpoints,
    Depth <- QUEUE_DEPTH,
    Payloads <- Message,
    inbox <- [e \in Endpoints |-> Inbox(e)],
    state <- MailboxState

MailboxSpec == Mailbox!Spec

============================================================================
