--------------------------- MODULE SchedDispatch ---------------------------
(***************************************************************************)
(* Blocking, waking and dispatching threads on several CPUs                *)
(* (src/src/kernel/sched_thread.c, sched_event.c, thread.c and             *)
(* process_schedule_once_impl in process.c).                               *)
(*                                                                         *)
(* Each CPU is a sequential process with a program counter; one step is    *)
(* one atomic access to shared scheduler state, or one critical section of *)
(* an event or thread-table lock; a run-queue lock is held over two steps. *)
(* A CPU runs the scheduler loop                                           *)
(* (timeouts, pick, dispatch, result handling, sweep) and, while a thread  *)
(* or the idle thread runs on it, whatever that thread or an interrupt     *)
(* does: block, yield, wake another thread.                                *)
(*                                                                         *)
(* Left to other modules: exit, kill and reap of threads, the priority     *)
(* bands of a run queue (one band here), and when a deadline expires.      *)
(* g_enqueue_owed_count only tells the sweep that it would find nothing.   *)
(***************************************************************************)
EXTENDS Naturals, Sequences, KernelList

CONSTANTS
    CPUs,
    NThreads,   \* slots of the thread table in use
    Affinity,   \* the CPUs each thread may run on
    Joiners,    \* the threads that wait for a process or a thread to exit
    Rootless,   \* the threads whose address space may be gone when dispatched
    NOBODY      \* no thread

\* The threads, in table order.
Threads == 1 .. NThreads

ASSUME SchedAssumption ==
    /\ NThreads \in Nat
    /\ NOBODY \notin Threads \cup CPUs
    /\ Affinity \in [Threads -> (SUBSET CPUs) \ {{}}]

VARIABLES
    state,        \* thread_t::state
    queue,        \* ready list of each CPU
    on_rq,        \* thread_t::on_rq, the claim on the thread's run-queue node
    blocking_transition,
    wake_pending,
    enqueue_owed,
    dispatch_ref, \* THREAD_SLOT_FREE (FALSE) or THREAD_SLOT_DISPATCH (TRUE)
    waiting,      \* "event": linked on an event's wait list; "exit": waiting
                  \* for a process or thread to exit; "no": neither
    loose,        \* history: the thread is READY by a step that leaves its enqueue to
                  \* others, and has been neither linked nor owed an enqueue since
    cpu           \* what each CPU is doing

threadVars == <<state, blocking_transition, wake_pending, enqueue_owed, dispatch_ref, waiting,
                loose>>
vars == <<threadVars, queue, on_rq, cpu>>

\* Where a CPU can be, by the routine it is in.
InThread   == {"run", "block"}
InDispatch == {"picked", "claim", "ready", "set_running", "switch", "rootless", "clear", "settle", "take", "complete",
               "token", "promote", "requeue", "requeue_running", "unlink", "reset", "yielded", "release"}
InWake     == {"wake", "transition", "claim_wake", "if_blocked", "mark", "mark_cas", "owe",
               "promoted", "promoted_wake", "promoted_transition", "promoted_claim"}
InEnqueue  == {"enqueue", "check", "link", "insert", "owe_first", "late_mark", "late_mark_cas"}
InSweep    == {"sweep", "sweep_take", "sweep_check", "sweep_release"}
Labels ==
    {"loop", "pick", "steal", "idle", "fire", "dropped"}
        \cup InThread \cup InDispatch \cup InWake \cup InEnqueue \cup InSweep

States == {"READY", "RUNNING", "BLOCKED"}

\* Every variable keeps its type; the sweep's index stays within the thread table
\* (sched_sweep_owed_enqueues).
TypeOK ==
    /\ state \in [Threads -> States]
    /\ queue \in [CPUs -> Seq(Threads)]
    /\ on_rq \in [Threads -> BOOLEAN]
    /\ blocking_transition \in [Threads -> BOOLEAN]
    /\ wake_pending \in [Threads -> BOOLEAN]
    /\ enqueue_owed \in [Threads -> BOOLEAN]
    /\ dispatch_ref \in [Threads -> BOOLEAN]
    /\ waiting \in [Threads -> {"no", "event", "exit"}]
    /\ cpu \in [CPUs -> [pc      : Labels,
                         thread  : Threads \cup {NOBODY},  \* picked for dispatch
                         current : Threads \cup {NOBODY},  \* cpu_local()->current_thread
                         result  : {"yielded", "blocked"}, \* last_run_result
                         token   : BOOLEAN,                \* sched_block_complete_claim
                         target  : Threads \cup {NOBODY},  \* being woken or enqueued
                         seen    : States,                 \* state loaded by a mark
                         ret     : Labels,                 \* where wake or enqueue returns
                         rq      : CPUs \cup {NOBODY},     \* the queue whose lock it holds
                         slot    : 1 .. NThreads + 1]]     \* table index of the sweep
    /\ loose \in [Threads -> BOOLEAN]

\* A run-queue node is in one place at most, over all queues.
LinkedOnce ==
    \A c, d \in CPUs : \A i \in 1 .. Len(queue[c]), j \in 1 .. Len(queue[d]) :
        queue[c][i] = queue[d][j] => c = d /\ i = j

\* The lists a queue can start with.
Lists == UNION {[1 .. n -> Threads] : n \in 0 .. NThreads}

\* Every thread was spawned and placed, in some order; no CPU has dispatched yet.
Init ==
    /\ state = [t \in Threads |-> "READY"]
    /\ queue \in [CPUs -> Lists]
    /\ LinkedOnce
    /\ \A t \in Threads : \E c \in Affinity[t] : t \in Elems(queue[c])
    /\ on_rq = [t \in Threads |-> TRUE]
    /\ blocking_transition = [t \in Threads |-> FALSE]
    /\ wake_pending = [t \in Threads |-> FALSE]
    /\ enqueue_owed = [t \in Threads |-> FALSE]
    /\ dispatch_ref = [t \in Threads |-> FALSE]
    /\ waiting = [t \in Threads |-> "no"]
    /\ cpu = [c \in CPUs |->
                 [pc |-> "loop", thread |-> NOBODY, current |-> NOBODY, result |-> "yielded",
                  token |-> FALSE, target |-> NOBODY, seen |-> "READY", ret |-> "loop",
                  rq |-> NOBODY, slot |-> 1]]
    /\ loose = [t \in Threads |-> FALSE]

----------------------------------------------------------------------------
At(c, label) == cpu[c].pc = label

\* CPU c moves to label; the rest of its registers stay.
Goto(c, label) == cpu' = [cpu EXCEPT ![c].pc = label]

\* Call cpu_sched_enqueue for t, or wake t, and go on at ret.
Call(c, label, t, ret) ==
    cpu' = [cpu EXCEPT ![c] = [@ EXCEPT !.pc = label, !.target = t, !.ret = ret]]

\* A wake or an enqueue ends: back to the caller.
Return(c) ==
    cpu' = [cpu EXCEPT ![c] = [@ EXCEPT !.pc = cpu[c].ret, !.target = NOBODY,
                                        !.seen = "READY", !.ret = "loop",
                                        !.rq = NOBODY]]

\* t's node is in some CPU's ready list.
Linked(t) == \E c \in CPUs : t \in Elems(queue[c])

\* Some CPU holds the lock of CPU d's queue.
QueueLocked(d) == \E c \in CPUs : cpu[c].rq = d

IsCurrent(t) == \E c \in CPUs : cpu[c].current = t

\* t is entering a wait: it holds the lock of its event until it is BLOCKED.  (A
\* waker also holds one, but of an event t has left: t may wait on another.)
EventLocked(t) == \E c \in CPUs : cpu[c].pc = "block" /\ cpu[c].thread = t

----------------------------------------------------------------------------
(***************************************************************************)
(* Picking a thread: cpu_sched_pick_next and cpu_sched_try_steal.          *)
(***************************************************************************)

\* cpu_sched_pick_next, under the CPU's queue lock: the head of the ready list
\* is taken off it.
Pick(c) ==
    /\ At(c, "pick")
    /\ ~QueueLocked(c)
    /\ \/ /\ queue[c] # << >>
          /\ queue' = [queue EXCEPT ![c] = Tail(@)]
          /\ cpu' = [cpu EXCEPT ![c] = [@ EXCEPT !.pc = "picked", !.thread = Head(queue[c]), !.rq = c]]
       \/ /\ queue[c] = << >>
          /\ Goto(c, "steal")
          /\ UNCHANGED queue
    /\ UNCHANGED <<threadVars, on_rq>>

\* cpu_sched_steal_pick on another CPU's queue: the first thread that is not
\* sticky and may run here.  Which threads are sticky is left open.
Steal(c) ==
    /\ At(c, "steal")
    /\ \E d \in CPUs \ {c} : \E i \in 1 .. Len(queue[d]) :
          /\ ~QueueLocked(d)
          /\ c \in Affinity[queue[d][i]]
          /\ queue' = [queue EXCEPT ![d] = Unlinked(@, i)]
          /\ cpu' = [cpu EXCEPT ![c] = [@ EXCEPT !.pc = "picked", !.thread = queue[d][i], !.rq = d]]
    /\ UNCHANGED <<threadVars, on_rq>>

\* cpu_sched_unlink_locked ends: the claim on the node is released last, and then
\* the lock of its queue.
UnlinkDone(c) ==
    /\ At(c, "picked")
    /\ on_rq' = [on_rq EXCEPT ![cpu[c].thread] = FALSE]
    /\ cpu' = [cpu EXCEPT ![c] = [@ EXCEPT !.pc = "claim", !.rq = NOBODY]]
    /\ UNCHANGED <<threadVars, queue>>

\* Nothing to steal, or the remote lock was contended: the idle thread runs.
StealNothing(c) ==
    /\ At(c, "steal")
    /\ Goto(c, "idle")
    /\ UNCHANGED <<threadVars, queue, on_rq>>

LeaveIdle(c) ==
    /\ At(c, "idle")
    /\ Goto(c, "sweep")
    /\ UNCHANGED <<threadVars, queue, on_rq>>

(***************************************************************************)
(* Dispatch: process_schedule_once_impl from the slot claim to the switch. *)
(***************************************************************************)

\* Mutation: the slot is taken without contesting it.
SlotClaimStore(c) ==
    /\ At(c, "claim")
    /\ Goto(c, "ready")
    /\ dispatch_ref' = [dispatch_ref EXCEPT ![cpu[c].thread] = TRUE]
    /\ UNCHANGED <<state, blocking_transition, wake_pending, enqueue_owed, waiting, loose, queue, on_rq>>

\* CAS dispatch_ref FREE -> DISPATCH.
SlotClaim(c) ==
    LET t == cpu[c].thread
    IN  /\ At(c, "claim")
        /\ IF dispatch_ref[t]
           THEN /\ Goto(c, "dropped")
                /\ UNCHANGED dispatch_ref
           ELSE /\ Goto(c, "ready")
                /\ dispatch_ref' = [dispatch_ref EXCEPT ![t] = TRUE]
        /\ UNCHANGED <<state, blocking_transition, wake_pending, enqueue_owed, waiting, loose, queue, on_rq>>

\* Mutation: a pick that lost its slot is simply dropped.
DroppedPickForgotten(c) ==
    /\ At(c, "dropped")
    /\ cpu' = [cpu EXCEPT ![c] = [@ EXCEPT !.pc = "sweep", !.thread = NOBODY]]
    /\ UNCHANGED <<threadVars, queue, on_rq>>

\* sched_owe_enqueue_for_dropped_pick: the place in the queue is gone, so a
\* runnable thread is owed an enqueue.
DroppedPick(c) ==
    LET t == cpu[c].thread
    IN  /\ At(c, "dropped")
        /\ cpu' = [cpu EXCEPT ![c] =
                      [@ EXCEPT !.pc = IF state[t] = "READY" THEN "owe" ELSE "sweep",
                                !.target = IF state[t] = "READY" THEN t ELSE NOBODY,
                                !.ret = IF state[t] = "READY" THEN "sweep" ELSE "loop",
                                !.thread = NOBODY]]
        /\ UNCHANGED <<threadVars, queue, on_rq>>

\* cpu_sched_claim_for_dispatch: CAS READY -> RUNNING, or give the slot back.
ClaimForDispatch(c) ==
    LET t == cpu[c].thread
    IN  /\ At(c, "ready")
        /\ IF state[t] = "READY"
           THEN state' = [state EXCEPT ![t] = "RUNNING"] /\ Goto(c, "set_running")
           ELSE UNCHANGED state /\ Goto(c, "release")
        /\ loose' = [loose EXCEPT ![t] = FALSE]
        /\ UNCHANGED <<blocking_transition, wake_pending, enqueue_owed, dispatch_ref, waiting, queue, on_rq>>

\* process_set_running stores RUNNING once more.
SetRunning(c) ==
    /\ At(c, "set_running")
    /\ state' = [state EXCEPT ![cpu[c].thread] = "RUNNING"]
    /\ loose' = [loose EXCEPT ![cpu[c].thread] = FALSE]
    /\ Goto(c, "switch")
    /\ UNCHANGED <<blocking_transition, wake_pending, enqueue_owed, dispatch_ref, waiting, queue, on_rq>>

\* current_thread is published and the thread switched to.
Switch(c) ==
    /\ At(c, "switch")
    /\ cpu' = [cpu EXCEPT ![c] = [@ EXCEPT !.pc = "run", !.current = cpu[c].thread]]
    /\ UNCHANGED <<threadVars, queue, on_rq>>

\* current_thread is published, and then no root table found to switch to (or no
\* thread context).
SwitchRootless(c) ==
    /\ At(c, "switch")
    /\ cpu[c].thread \in Rootless
    /\ cpu' = [cpu EXCEPT ![c] = [@ EXCEPT !.pc = "rootless", !.current = cpu[c].thread]]
    /\ UNCHANGED <<threadVars, queue, on_rq>>

\* current_thread is withdrawn and the dispatch ends without a run or a settle.
SwitchFailed(c) ==
    /\ At(c, "rootless")
    /\ cpu' = [cpu EXCEPT ![c] = [@ EXCEPT !.pc = "release", !.current = NOBODY]]
    /\ UNCHANGED <<threadVars, queue, on_rq>>

(***************************************************************************)
(* What the running thread does.                                           *)
(***************************************************************************)
Ends(c, result) == cpu' = [cpu EXCEPT ![c] = [@ EXCEPT !.pc = "clear", !.result = result]]

\* process_yield(PROCESS_RUN_YIELDED), or a preemption on the way out of an
\* interrupt.
Yield(c) ==
    /\ At(c, "run")
    /\ Ends(c, "yielded")
    /\ UNCHANGED <<threadVars, queue, on_rq>>

\* A service entry returns PROCESS_RUN_BLOCKED without having blocked.
ReturnBlocked(c) ==
    /\ At(c, "run")
    /\ Ends(c, "blocked")
    /\ UNCHANGED <<threadVars, queue, on_rq>>

\* sched_event_wait, under the event's lock: on the wait list, in transition.
BlockOnEvent(c) ==
    LET t == cpu[c].thread
    IN  /\ At(c, "run")
        /\ waiting' = [waiting EXCEPT ![t] = "event"]
        /\ blocking_transition' = [blocking_transition EXCEPT ![t] = TRUE]
        /\ Goto(c, "block")
        /\ UNCHANGED <<state, wake_pending, enqueue_owed, dispatch_ref, loose, queue, on_rq>>

\* sched_event_wait: BLOCKED, unlock, process_yield(PROCESS_RUN_BLOCKED).
Blocked(c) ==
    /\ At(c, "block")
    /\ state' = [state EXCEPT ![cpu[c].thread] = "BLOCKED"]
    /\ loose' = [loose EXCEPT ![cpu[c].thread] = FALSE]
    /\ Ends(c, "blocked")
    /\ UNCHANGED <<blocking_transition, wake_pending, enqueue_owed, dispatch_ref, waiting, queue, on_rq>>

\* process_wait or process_thread_join: process_set_blocked without a blocking
\* transition, then process_yield(PROCESS_RUN_BLOCKED).  The check of the target
\* and the registration of the waiter are one step with it here.  A thread that
\* came back still linked on a wait list does not do this.
BlockOnExit(c) ==
    LET t == cpu[c].thread
    IN  /\ At(c, "run")
        /\ t \in Joiners
        /\ waiting[t] # "event"
        /\ waiting' = [waiting EXCEPT ![t] = "exit"]
        /\ state' = [state EXCEPT ![t] = "BLOCKED"]
        /\ loose' = [loose EXCEPT ![t] = FALSE]
        /\ Ends(c, "blocked")
        /\ UNCHANGED <<blocking_transition, wake_pending, enqueue_owed, dispatch_ref, queue, on_rq>>

(***************************************************************************)
(* The end of a dispatch.                                                  *)
(***************************************************************************)
ClearCurrent(c) ==
    /\ At(c, "clear")
    /\ cpu' = [cpu EXCEPT ![c] = [@ EXCEPT !.pc = "settle", !.current = NOBODY]]
    /\ UNCHANGED <<threadVars, queue, on_rq>>

\* Where the result handling starts.
Handling(c) == IF cpu[c].result = "blocked" THEN "complete" ELSE "unlink"

\* sched_settle_deferred_enqueue: the state is read before the debt is taken.
Settle(c) ==
    /\ At(c, "settle")
    /\ Goto(c, IF state[cpu[c].thread] = "READY" THEN "take" ELSE Handling(c))
    /\ UNCHANGED <<threadVars, queue, on_rq>>

SettleTake(c) ==
    LET t == cpu[c].thread
    IN  /\ At(c, "take")
        /\ enqueue_owed' = [enqueue_owed EXCEPT ![t] = FALSE]
        /\ IF enqueue_owed[t] THEN Call(c, "enqueue", t, Handling(c)) ELSE Goto(c, Handling(c))
        /\ UNCHANGED <<state, blocking_transition, wake_pending, dispatch_ref, waiting, loose, queue, on_rq>>

\* sched_block_complete_claim, first half: the transition is over.
Complete(c) ==
    /\ At(c, "complete")
    /\ blocking_transition' = [blocking_transition EXCEPT ![cpu[c].thread] = FALSE]
    /\ Goto(c, "token")
    /\ UNCHANGED <<state, wake_pending, enqueue_owed, dispatch_ref, waiting, loose, queue, on_rq>>

\* Second half: take the token a waker may have left.
Token(c) ==
    LET t == cpu[c].thread
    IN  /\ At(c, "token")
        /\ wake_pending' = [wake_pending EXCEPT ![t] = FALSE]
        /\ cpu' = [cpu EXCEPT ![c] = [@ EXCEPT !.pc = "promote", !.token = wake_pending[t]]]
        /\ UNCHANGED <<state, blocking_transition, enqueue_owed, dispatch_ref, waiting, loose, queue, on_rq>>

Promotes(c) == cpu[c].token /\ state[cpu[c].thread] = "BLOCKED"

Promote(c) ==
    LET t == cpu[c].thread
    IN  /\ At(c, "promote")
        /\ state' = IF Promotes(c) THEN [state EXCEPT ![t] = "READY"] ELSE state
        /\ cpu' = [cpu EXCEPT ![c] = [@ EXCEPT !.pc = "requeue", !.token = FALSE]]
        /\ UNCHANGED <<blocking_transition, wake_pending, enqueue_owed, dispatch_ref, waiting, loose, queue, on_rq>>

\* A thread that a waker made READY is enqueued.
Requeue(c) ==
    LET t == cpu[c].thread
    IN  /\ At(c, "requeue")
        /\ IF state[t] = "READY" THEN Call(c, "enqueue", t, "release")
                                 ELSE Goto(c, "requeue_running")
        /\ UNCHANGED <<threadVars, queue, on_rq>>

\* The state is read again: a thread still RUNNING only said it blocked and is
\* treated as having yielded; a BLOCKED one is left to its waker.
RequeueRunning(c) ==
    LET t == cpu[c].thread
    IN  /\ At(c, "requeue_running")
        /\ IF state[t] = "RUNNING"
           THEN /\ state' = [state EXCEPT ![t] = "READY"]
                /\ Call(c, "enqueue", t, "release")
           ELSE UNCHANGED state /\ Goto(c, "release")
        /\ UNCHANGED <<blocking_transition, wake_pending, enqueue_owed, dispatch_ref, waiting, loose, queue, on_rq>>

\* The thread yielded while still on a wait list: it leaves the list.
Unlink(c) ==
    LET t == cpu[c].thread
    IN  /\ At(c, "unlink")
        /\ IF waiting[t] = "event"
           THEN /\ ~EventLocked(t)
                /\ waiting' = [waiting EXCEPT ![t] = "no"]
                /\ Goto(c, "reset")
           ELSE /\ Goto(c, "yielded")
                /\ UNCHANGED waiting
        /\ UNCHANGED <<state, blocking_transition, wake_pending, enqueue_owed, dispatch_ref, loose, queue, on_rq>>

\* Its handshake flags are cleared with it.
Reset(c) ==
    LET t == cpu[c].thread
    IN  /\ At(c, "reset")
        /\ blocking_transition' = [blocking_transition EXCEPT ![t] = FALSE]
        /\ wake_pending' = [wake_pending EXCEPT ![t] = FALSE]
        /\ Goto(c, "yielded")
        /\ UNCHANGED <<state, enqueue_owed, dispatch_ref, waiting, loose, queue, on_rq>>

\* READY unconditionally, and enqueued.
YieldRequeue(c) ==
    /\ At(c, "yielded")
    /\ state' = [state EXCEPT ![cpu[c].thread] = "READY"]
    /\ Call(c, "enqueue", cpu[c].thread, "release")
    /\ UNCHANGED <<blocking_transition, wake_pending, enqueue_owed, dispatch_ref, waiting, loose, queue, on_rq>>

\* dispatch_done
Release(c) ==
    /\ At(c, "release")
    /\ dispatch_ref' = [dispatch_ref EXCEPT ![cpu[c].thread] = FALSE]
    /\ cpu' = [cpu EXCEPT ![c] = [@ EXCEPT !.pc = "sweep", !.thread = NOBODY, !.result = "yielded"]]
    /\ UNCHANGED <<state, blocking_transition, wake_pending, enqueue_owed, waiting, loose, queue, on_rq>>

----------------------------------------------------------------------------
(***************************************************************************)
(* cpu_sched_enqueue_from.                                                 *)
(***************************************************************************)

\* The scan of every CPU's current_thread.  A thread still executing is not
\* linked: it is marked READY and an enqueue is owed to it.  The two happen in
\* either order: the report of this case is rate-limited, and the branch that
\* stays silent owes before it marks.
EnqueueScan(c) ==
    /\ At(c, "enqueue")
    /\ IF IsCurrent(cpu[c].target)
       THEN \/ Goto(c, "mark")
            \/ Goto(c, "owe_first")
       ELSE Goto(c, "check")
    /\ UNCHANGED <<threadVars, queue, on_rq>>

\* Only a READY thread belongs in a ready list.
EnqueueCheck(c) ==
    /\ At(c, "check")
    /\ IF state[cpu[c].target] = "READY" THEN Goto(c, "link") ELSE Return(c)
    /\ UNCHANGED <<threadVars, queue, on_rq>>

\* Mutation: the affinity mask is not consulted.
EnqueueTargetLocal(c, t) == {c}

\* The calling CPU's queue, unless the thread may not run there.
EnqueueTarget(c, t) == IF c \in Affinity[t] THEN {c} ELSE Affinity[t]

\* Mutation: the claim is loaded and stored, and the value loaded not looked at.
ClaimsOnRqAlways(t) == TRUE

\* The exchange on on_rq wins the node.
ClaimsOnRq(t) == ~on_rq[t]

\* Under the target queue's lock: claim the node, or find it claimed.
Link(c) ==
    LET t == cpu[c].target
    IN  /\ At(c, "link")
        /\ \E d \in EnqueueTarget(c, t) :
              /\ ~QueueLocked(d)
              /\ IF ClaimsOnRq(t)
                 THEN cpu' = [cpu EXCEPT ![c] = [@ EXCEPT !.pc = "insert", !.rq = d]]
                 ELSE Return(c)
        /\ on_rq' = [on_rq EXCEPT ![t] = TRUE]
        /\ UNCHANGED <<threadVars, queue>>

\* Still under the lock: the node goes to the tail; a node found linked is left
\* where it is and the claim given up.
Insert(c) ==
    LET t == cpu[c].target
    IN  /\ At(c, "insert")
        /\ IF Linked(t)
           THEN /\ on_rq' = [on_rq EXCEPT ![t] = FALSE]
                /\ UNCHANGED queue
           ELSE /\ queue' = [queue EXCEPT ![cpu[c].rq] = Append(@, t)]
                /\ UNCHANGED on_rq
        /\ loose' = [loose EXCEPT ![t] = FALSE]
        /\ Return(c)
        /\ UNCHANGED <<state, blocking_transition, wake_pending, enqueue_owed, dispatch_ref, waiting>>

\* sched_owe_enqueue, and done.
Owe(c) ==
    /\ At(c, "owe")
    /\ enqueue_owed' = [enqueue_owed EXCEPT ![cpu[c].target] = TRUE]
    /\ loose' = [loose EXCEPT ![cpu[c].target] = FALSE]
    /\ Return(c)
    /\ UNCHANGED <<state, blocking_transition, wake_pending, dispatch_ref, waiting, queue, on_rq>>

\* sched_owe_enqueue, with the mark still to come.
OweFirst(c) ==
    /\ At(c, "owe_first")
    /\ enqueue_owed' = [enqueue_owed EXCEPT ![cpu[c].target] = TRUE]
    /\ Goto(c, "late_mark")
    /\ UNCHANGED <<state, blocking_transition, wake_pending, dispatch_ref, waiting, loose, queue, on_rq>>

(***************************************************************************)
(* sched_mark_ready_if_live: a load, then a CAS from the state loaded.     *)
(***************************************************************************)
MarkLoad(c) ==
    LET now == state[cpu[c].target]
    IN  /\ \/ /\ At(c, "mark")
              /\ IF now = "READY" THEN Goto(c, "owe")
                 ELSE cpu' = [cpu EXCEPT ![c] = [@ EXCEPT !.pc = "mark_cas", !.seen = now]]
           \/ /\ At(c, "late_mark")
              /\ IF now = "READY" THEN Return(c)
                 ELSE cpu' = [cpu EXCEPT ![c] = [@ EXCEPT !.pc = "late_mark_cas", !.seen = now]]
        /\ UNCHANGED <<threadVars, queue, on_rq>>

MarkCas(c) ==
    LET t == cpu[c].target
    IN  /\ \/ /\ At(c, "mark_cas")
              /\ Goto(c, "owe")
              /\ UNCHANGED loose
           \/ /\ At(c, "late_mark_cas")
              /\ Return(c)
              /\ loose' = IF state[t] = cpu[c].seen THEN [loose EXCEPT ![t] = TRUE] ELSE loose
        /\ state' = IF state[t] = cpu[c].seen THEN [state EXCEPT ![t] = "READY"] ELSE state
        /\ UNCHANGED <<blocking_transition, wake_pending, enqueue_owed, dispatch_ref, waiting, queue, on_rq>>

(***************************************************************************)
(* Wakers.                                                                 *)
(***************************************************************************)

\* sched_event_wake_one, under the event's lock, by the running thread or an
\* interrupt: the waiter is detached; sched_wake_thread follows.
WakeFromEvent(c, t) ==
    /\ cpu[c].pc \in {"run", "idle"}
    /\ cpu[c].thread # t
    /\ waiting[t] = "event"
    /\ ~EventLocked(t)
    /\ waiting' = [waiting EXCEPT ![t] = "no"]
    /\ Call(c, "wake", t, cpu[c].pc)
    /\ UNCHANGED <<state, blocking_transition, wake_pending, enqueue_owed, dispatch_ref, loose, queue, on_rq>>

\* sched_timeout_check finds an expired deadline of a BLOCKED thread.
TimeoutDue(c, t) ==
    /\ At(c, "loop")
    /\ state[t] = "BLOCKED"
    /\ waiting[t] = "event"
    /\ Call(c, "fire", t, "loop")
    /\ UNCHANGED <<threadVars, queue, on_rq>>

\* sched_timeout_fire: re-validated under the event's lock, which is dropped
\* before the wake.
TimeoutFire(c) ==
    LET t == cpu[c].target
    IN  /\ At(c, "fire")
        /\ ~EventLocked(t)
        /\ IF waiting[t] = "event"
           THEN waiting' = [waiting EXCEPT ![t] = "no"] /\ Goto(c, "wake")
           ELSE UNCHANGED waiting /\ Return(c)
        /\ UNCHANGED <<state, blocking_transition, wake_pending, enqueue_owed, dispatch_ref, loose, queue, on_rq>>

\* sched_wake_claim_enqueue: publish the wake, then look at the transition.
WakePublish(c) ==
    /\ \/ At(c, "wake") /\ Goto(c, "transition")
       \/ At(c, "promoted_wake") /\ Goto(c, "promoted_transition")
    /\ wake_pending' = [wake_pending EXCEPT ![cpu[c].target] = TRUE]
    /\ UNCHANGED <<state, blocking_transition, enqueue_owed, dispatch_ref, waiting, loose, queue, on_rq>>

\* In transition: the completion path owns the enqueue.  sched_wake_thread still
\* leaves a mark and a debt; the wakers of process.c leave only the token.
WakeTransition(c) ==
    LET busy == blocking_transition[cpu[c].target]
    IN  /\ \/ At(c, "transition") /\ Goto(c, IF busy THEN "mark" ELSE "claim_wake")
           \/ /\ At(c, "promoted_transition")
              /\ IF busy THEN Return(c) ELSE Goto(c, "promoted_claim")
        /\ UNCHANGED <<threadVars, queue, on_rq>>

\* Mutation: a waker that finds the token gone leaves nothing behind.
WakeClaimSilent(c) ==
    LET t == cpu[c].target
    IN  /\ \/ At(c, "claim_wake") /\ IF wake_pending[t] THEN Goto(c, "if_blocked") ELSE Return(c)
           \/ At(c, "promoted_claim") /\ IF wake_pending[t] THEN Goto(c, "enqueue") ELSE Return(c)
        /\ wake_pending' = [wake_pending EXCEPT ![t] = FALSE]
        /\ UNCHANGED <<state, blocking_transition, enqueue_owed, dispatch_ref, waiting, loose, queue, on_rq>>

\* The token is exchanged back: whoever gets it owns the enqueue.  A
\* sched_wake_thread that finds it gone leaves a mark and a debt.
WakeClaim(c) ==
    LET t == cpu[c].target
    IN  /\ \/ At(c, "claim_wake") /\ IF wake_pending[t] THEN Goto(c, "if_blocked") ELSE Goto(c, "mark")
           \/ At(c, "promoted_claim") /\ IF wake_pending[t] THEN Goto(c, "enqueue") ELSE Return(c)
        /\ wake_pending' = [wake_pending EXCEPT ![t] = FALSE]
        /\ UNCHANGED <<state, blocking_transition, enqueue_owed, dispatch_ref, waiting, loose, queue, on_rq>>

\* thread_wake_if_blocked: only a true BLOCKED -> READY enqueues.
WakeIfBlocked(c) ==
    LET t == cpu[c].target
    IN  /\ At(c, "if_blocked")
        /\ IF state[t] = "BLOCKED"
           THEN state' = [state EXCEPT ![t] = "READY"] /\ Goto(c, "enqueue")
           ELSE UNCHANGED state /\ Return(c)
        /\ UNCHANGED <<blocking_transition, wake_pending, enqueue_owed, dispatch_ref, waiting, loose, queue, on_rq>>

\* process_wake_waiters and process_wake_thread_joiner: promote first, then run
\* the handshake.
WakeFromExit(c, t) ==
    /\ At(c, "run")
    /\ cpu[c].thread # t
    /\ waiting[t] = "exit"
    /\ state[t] = "BLOCKED"
    /\ waiting' = [waiting EXCEPT ![t] = "no"]
    /\ Call(c, "promoted", t, "run")
    /\ UNCHANGED <<state, blocking_transition, wake_pending, enqueue_owed, dispatch_ref, loose, queue, on_rq>>

WakePromote(c) ==
    LET t == cpu[c].target
    IN  /\ At(c, "promoted")
        /\ state' = IF state[t] = "BLOCKED" THEN [state EXCEPT ![t] = "READY"] ELSE state
        /\ loose' = IF state[t] = "BLOCKED" THEN [loose EXCEPT ![t] = TRUE] ELSE loose
        /\ Goto(c, "promoted_wake")
        /\ UNCHANGED <<blocking_transition, wake_pending, enqueue_owed, dispatch_ref, waiting, queue, on_rq>>

(***************************************************************************)
(* sched_sweep_owed_enqueues: one table slot after the other.              *)
(***************************************************************************)
NextSlot(c) ==
    cpu' = [cpu EXCEPT ![c] = [@ EXCEPT !.pc = "sweep", !.slot = cpu[c].slot + 1,
                                        !.target = NOBODY]]

\* Mutation: the walk runs one slot past the table.
SweepPastEnd(c) ==
    /\ At(c, "sweep")
    /\ cpu[c].slot <= NThreads + 1
    /\ NextSlot(c)
    /\ UNCHANGED <<threadVars, queue, on_rq>>

\* A slot without a debt, or still executing, or claimed, is skipped.
Sweep(c) ==
    LET t == cpu[c].slot
    IN  /\ At(c, "sweep")
        /\ t \in Threads
        /\ IF enqueue_owed[t] /\ ~IsCurrent(t) /\ ~dispatch_ref[t]
           THEN /\ dispatch_ref' = [dispatch_ref EXCEPT ![t] = TRUE]
                /\ Call(c, "sweep_take", t, "loop")
           ELSE /\ UNCHANGED dispatch_ref
                /\ NextSlot(c)
        /\ UNCHANGED <<state, blocking_transition, wake_pending, enqueue_owed, waiting, loose, queue, on_rq>>

SweepTake(c) ==
    LET t == cpu[c].target
    IN  /\ At(c, "sweep_take")
        /\ enqueue_owed' = [enqueue_owed EXCEPT ![t] = FALSE]
        /\ Goto(c, IF enqueue_owed[t] THEN "sweep_check" ELSE "sweep_release")
        /\ UNCHANGED <<state, blocking_transition, wake_pending, dispatch_ref, waiting, loose, queue, on_rq>>

SweepCheck(c) ==
    LET t == cpu[c].target
    IN  /\ At(c, "sweep_check")
        /\ IF state[t] = "READY" /\ ~on_rq[t]
           THEN Call(c, "enqueue", t, "sweep_release")
           ELSE Goto(c, "sweep_release")
        /\ UNCHANGED <<threadVars, queue, on_rq>>

SweepRelease(c) ==
    /\ At(c, "sweep_release")
    /\ dispatch_ref' = [dispatch_ref EXCEPT ![cpu[c].slot] = FALSE]
    /\ NextSlot(c)
    /\ UNCHANGED <<state, blocking_transition, wake_pending, enqueue_owed, waiting, loose, queue, on_rq>>

SweepDone(c) ==
    /\ At(c, "sweep")
    /\ cpu[c].slot \notin Threads
    /\ cpu' = [cpu EXCEPT ![c] = [@ EXCEPT !.pc = "loop", !.slot = 1]]
    /\ UNCHANGED <<threadVars, queue, on_rq>>

\* No deadline is due: on to the pick.
TimeoutsDone(c) ==
    /\ At(c, "loop")
    /\ Goto(c, "pick")
    /\ UNCHANGED <<threadVars, queue, on_rq>>

----------------------------------------------------------------------------
Dispatching(c) ==
    \/ Pick(c) \/ Steal(c) \/ UnlinkDone(c) \/ StealNothing(c) \/ SlotClaim(c) \/ DroppedPick(c)
    \/ ClaimForDispatch(c) \/ SetRunning(c) \/ Switch(c) \/ SwitchRootless(c) \/ SwitchFailed(c)
    \/ Blocked(c)
    \/ ClearCurrent(c) \/ Settle(c) \/ SettleTake(c)
    \/ Complete(c) \/ Token(c) \/ Promote(c) \/ Requeue(c) \/ RequeueRunning(c)
    \/ Unlink(c) \/ Reset(c) \/ YieldRequeue(c) \/ Release(c)
    \/ EnqueueScan(c) \/ EnqueueCheck(c) \/ Link(c) \/ Insert(c) \/ Owe(c) \/ OweFirst(c)
    \/ MarkLoad(c) \/ MarkCas(c)
    \/ TimeoutFire(c) \/ WakePublish(c) \/ WakeTransition(c) \/ WakeClaim(c)
    \/ WakeIfBlocked(c) \/ WakePromote(c)
    \/ Sweep(c) \/ SweepTake(c) \/ SweepCheck(c) \/ SweepRelease(c) \/ SweepDone(c)
    \/ TimeoutsDone(c) \/ LeaveIdle(c)

\* What the running thread, or an interrupt, chooses to do.
Chosen(c) ==
    \/ Yield(c) \/ ReturnBlocked(c) \/ BlockOnEvent(c) \/ BlockOnExit(c)
    \/ \E t \in Threads : WakeFromEvent(c, t) \/ TimeoutDue(c, t) \/ WakeFromExit(c, t)

Next == \E c \in CPUs : Dispatching(c) \/ Chosen(c)

Spec == Init /\ [][Next]_vars

\* Every deferred enqueue is one of those that are reported: mark, then owe.
ReportedNext == Next /\ \A c \in CPUs : cpu'[c].pc # "owe_first"

ReportedSpec == Init /\ [][ReportedNext]_vars

----------------------------------------------------------------------------
(***************************************************************************)
(* Properties.                                                             *)
(***************************************************************************)

\* The thread a CPU is dispatching: it holds the thread's slot claim.
Holds(c, t) == cpu[c].thread = t /\ cpu[c].pc \notin {"picked", "claim", "dropped"}

\* One context on one CPU: from the slot claim to its release, and so while it
\* runs, a thread belongs to one CPU, whatever wakes and enqueues race with it.
DispatchedOnce ==
    \A t \in Threads : \A c, d \in CPUs :
        (Holds(c, t) \/ cpu[c].current = t) /\ (Holds(d, t) \/ cpu[d].current = t) => c = d

\* CPU c is between the two halves of linking or of unlinking t's node.
Touches(c, t) == \/ cpu[c].pc = "picked" /\ cpu[c].thread = t
                 \/ cpu[c].pc = "insert" /\ cpu[c].target = t

\* No two CPUs touch a node's pointers at once (cpu_sched_enqueue_from), although
\* each ready list has a lock of its own: the CPU that won the exchange on on_rq
\* finds the node detached, and no unlink of it is still under way.
NodeExclusive ==
    \A t \in Threads : \A c \in CPUs : Touches(c, t) =>
        /\ ~Linked(t)
        /\ \A d \in CPUs : Touches(d, t) => c = d

\* Some CPU is in the middle of picking, dispatching, waking or enqueuing t.
InHand(t) ==
    \E c \in CPUs : cpu[c].thread = t \/ (cpu[c].target = t /\ cpu[c].pc # "fire")

\* t is runnable, and nothing will ever run it.
Stranded(t) == state[t] = "READY" /\ ~Linked(t) /\ ~enqueue_owed[t] /\ ~InHand(t)

\* No thread is stranded: one that is READY is in a ready list, is owed an
\* enqueue, or is in the hands of a CPU that will do the one or the other.
NoStrand == \A t \in Threads : ~Stranded(t)

\* Where a hand-off is lost, one of two promotions lost it: a mark that comes after
\* its debt, or the promotion of a thread that waited for an exit.  Whatever else
\* makes a thread READY gets it enqueued, across deferrals, dropped picks, steals,
\* settles and sweeps.
HandoffKept == \A t \in Threads : Stranded(t) => loose[t]

\* No wake is lost: a thread that was taken off its wait list does not stay
\* BLOCKED once the waker and the blocking thread's own CPU are done with it.
NoLostWake ==
    \A t \in Threads : state[t] = "BLOCKED" => waiting[t] # "no" \/ InHand(t)

\* A thread sits in the queue of, and runs on, only the CPUs its mask allows.
AffinityRespected ==
    \A c \in CPUs :
        /\ \A i \in 1 .. Len(queue[c]) : c \in Affinity[queue[c][i]]
        /\ cpu[c].current # NOBODY => c \in Affinity[cpu[c].current]

============================================================================
