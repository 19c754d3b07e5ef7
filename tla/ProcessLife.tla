---------------------------- MODULE ProcessLife ----------------------------
(***************************************************************************)
(* The life of a process slot: spawn, dispatch of its threads, exit, kill, *)
(* wait, join and reap, of                                                 *)
(*                                                                         *)
(*     src/src/kernel/process.c and thread.c.                              *)
(*                                                                         *)
(* One slot of the process table is followed through the processes that    *)
(* occupy it in turn; a process has a main thread, and may add others.     *)
(* CPUs dispatch the threads.  The COLLECTOR is a thread of the parent, on *)
(* a CPU of its own: it spawns the process, may kill it, and collects it,  *)
(* by process_wait or by polling process_get_exit_status and reaping.  No  *)
(* process lock covers any of this: every step below is one atomic access, *)
(* or one critical section of the thread table lock, and all of them       *)
(* interleave.  READY, RUNNING and BLOCKED of the process slot are one     *)
(* state LIVE here: every move between them is legal, and none of the      *)
(* tests on the exit path tells them apart.  Which thread is picked, and   *)
(* how a wake reaches a run queue, is SchedDispatch.                       *)
(***************************************************************************)
EXTENDS Integers, FiniteSets

CONSTANTS
    Cpus,       \* CPUs that dispatch the process's threads
    Collector,  \* the parent's thread, on a CPU of its own
    NThreads,   \* thread slots the process may use; 1 is its main thread
    MaxPid,     \* bound: processes spawned into the slot, one after another
    AutoReap,   \* the processes are spawned with auto_reap
    ReapPasses  \* THREAD_REAP_OWNER_PASSES

ASSUME ThreadsAssumption == NThreads \in Nat \ {0}
ASSUME MaxPidAssumption == MaxPid \in Nat
ASSUME AutoReapAssumption == AutoReap \in BOOLEAN
ASSUME PassesAssumption == ReapPasses \in Nat \ {0}
ASSUME CollectorAssumption == Collector \notin Cpus

Threads == 1 .. NThreads
Actors == Cpus \cup {Collector}
Pids == 1 .. MaxPid
Status == {"none", "exit", "kill"}

\* Where a walk of the thread table stands; past the last slot it is over.
Walk == 1 .. NThreads + 1

VARIABLES
    state,          \* process_t.state
    pid,            \* process_t.pid; 0 once the slot is reset
    exit_status,
    exiting,
    auto_reap,
    reap_requested,
    live_threads,   \* live_thread_count
    next_pid,
    tstate,         \* thread_t.state
    owner,          \* thread_t.owner_pid, which also stands for the tid's generation
    dispatch_ref,   \* the slot claim: held by a dispatch or not
    join_waiter,    \* join_waiter_tid is the main thread's
    joining,        \* the thread is in process_thread_join and calls it again
    wait_state,     \* the collector's thread state
    wait_target,    \* the collector's wait_target_pid
    at,             \* where each actor is in the code
    job,            \* what it carries: thread, the identity it picked, the pid, and the
                    \* slot a spawn took or a reap pass is at, with that pass and its refusals
    leftovers,      \* SCHED_DEBUG_OWNER_REAP_LEFTOVER has been counted
    wrote,          \* history: statuses an exit or a kill of this pid recorded
    late            \* history: registrations and requests that came too late

slotVars == <<state, pid, exit_status, exiting, auto_reap, reap_requested, live_threads, next_pid>>
threadVars == <<tstate, owner, dispatch_ref, join_waiter, joining>>
waitVars == <<wait_state, wait_target>>
histVars == <<wrote, late>>
vars == <<slotVars, threadVars, waitVars, at, job, leftovers, histVars>>

NoJob == [th |-> 1, tid |-> 0, pid |-> 0, slot |-> 1, pass |-> 0, refused |-> FALSE]

Jobs == [th : Threads, tid : Pids \cup {0}, pid : Pids \cup {0},
         slot : Walk, pass : 0 .. ReapPasses, refused : BOOLEAN]

\* Where a CPU holds the slot claim of its thread, and has resolved the process.
Resolved ==
    {"resolved", "claimed_run", "validated", "running",
     "spawn_thread", "spawn_built", "spawn_counted", "spawn_reap",
     "join_arm", "join_block", "result_exit", "result_blocked",
     "joiner", "count_out", "last_test"}
Exiting == {"mark_status", "mark_zombie", "mark_threads", "mark_wake"}
Reaping == {"auto_reap", "reap_active", "reap_request", "reap_claim",
            "reap_threads", "reap_reset", "reap_dead"}
Labels == Resolved \cup Exiting \cup Reaping \cup
    {"idle", "picked", "claimed", "release", "retry", "publish",
     "wait_test", "wait_status", "wait_block", "wait_target", "parked"}

\* Every variable keeps its type; live_thread_count does not wrap below zero
\* although an exit, a kill and a spawn that is undone may all count a thread out.
TypeOK ==
    /\ state \in {"UNUSED", "NEW", "LIVE", "ZOMBIE", "REAPING", "DEAD"}
    /\ pid \in Pids \cup {0}
    /\ exit_status \in Status
    /\ exiting \in BOOLEAN
    /\ auto_reap \in BOOLEAN
    /\ reap_requested \in BOOLEAN
    /\ live_threads \in Nat
    /\ next_pid \in 1 .. MaxPid + 1
    /\ tstate \in [Threads -> {"UNUSED", "READY", "RUNNING", "BLOCKED", "ZOMBIE"}]
    /\ owner \in [Threads -> Pids \cup {0}]
    /\ dispatch_ref \in [Threads -> BOOLEAN]
    /\ join_waiter \in [Threads -> BOOLEAN]
    /\ joining \in [Threads -> BOOLEAN]
    /\ wait_state \in {"RUNNING", "BLOCKED", "READY"}
    /\ wait_target \in Pids \cup {0}
    /\ at \in [Actors -> Labels]
    /\ job \in [Actors -> Jobs]
    /\ leftovers \in BOOLEAN
    /\ wrote \in SUBSET Status
    /\ late \in [wait : BOOLEAN, join : BOOLEAN, reap : BOOLEAN]

Init ==
    /\ state = "UNUSED"
    /\ pid = 0
    /\ exit_status = "none"
    /\ exiting = FALSE
    /\ auto_reap = FALSE
    /\ reap_requested = FALSE
    /\ live_threads = 0
    /\ next_pid = 1
    /\ tstate = [th \in Threads |-> "UNUSED"]
    /\ owner = [th \in Threads |-> 0]
    /\ dispatch_ref = [th \in Threads |-> FALSE]
    /\ join_waiter = [th \in Threads |-> FALSE]
    /\ joining = [th \in Threads |-> FALSE]
    /\ wait_state = "RUNNING"
    /\ wait_target = 0
    /\ at = [a \in Actors |-> "idle"]
    /\ job = [a \in Actors |-> NoJob]
    /\ leftovers = FALSE
    /\ wrote = {}
    /\ late = [wait |-> FALSE, join |-> FALSE, reap |-> FALSE]

Goto(a, label) == at' = [at EXCEPT ![a] = label]

\* Back in the scheduler loop, or in the parent: the locals are gone, and the
\* parent still knows its child.
Return(a) ==
    /\ Goto(a, "idle")
    /\ job' = [job EXCEPT ![a] = [NoJob EXCEPT !.pid = IF a = Collector THEN job[a].pid ELSE 0]]

\* Threads of the process in the slot.
Own(th) == tstate[th] # "UNUSED" /\ owner[th] = pid

\* process_find_by_pid
Found(p) == p # 0 /\ pid = p /\ state # "UNUSED"

\* g_thread_table_lock, which a reap pass holds from its first slot to its last.
TableFree == \A a \in Actors : at[a] = "reap_threads" => job[a].slot \in {1, NThreads + 1}

\* Mutation: a thread slot is freed although a dispatch holds it.
ResettableUnclaimed(th) == tstate[th] # "RUNNING"

\* thread_reset_slot wins the slot claim, or refuses.
Resettable(th) == ~dispatch_ref[th] /\ tstate[th] # "RUNNING"

\* thread_reset_slot of a thread slot, when it does not refuse.
ResetSlot(th) ==
    IF Resettable(th)
    THEN /\ tstate' = [tstate EXCEPT ![th] = "UNUSED"]
         /\ owner' = [owner EXCEPT ![th] = 0]
         /\ join_waiter' = [join_waiter EXCEPT ![th] = FALSE]
         /\ joining' = [joining EXCEPT ![th] = FALSE]
    ELSE UNCHANGED <<tstate, owner, join_waiter, joining>>

(***************************************************************************)
(* process_spawn_as: claim the slot, build the process, publish it.        *)
(***************************************************************************)

SpawnClaim ==
    /\ at[Collector] = "idle"
    /\ state \in {"UNUSED", "DEAD"}
    /\ next_pid <= MaxPid
    /\ state' = "NEW"
    /\ pid' = next_pid
    /\ next_pid' = next_pid + 1
    /\ exit_status' = "none"
    /\ exiting' = FALSE
    /\ job' = [job EXCEPT ![Collector].pid = next_pid]
    /\ wrote' = {}
    /\ late' = [wait |-> FALSE, join |-> FALSE, reap |-> FALSE]
    /\ Goto(Collector, "publish")
    /\ UNCHANGED <<auto_reap, reap_requested, live_threads, threadVars, waitVars,
                   leftovers>>

\* The main thread gets its slot, then NEW -> LIVE; a failing compare-and-swap here
\* is a kernel panic.  The process manager sets auto_reap before it unparks a child.
SpawnPublish ==
    /\ at[Collector] = "publish"
    /\ TableFree
    /\ state = "NEW"
    /\ tstate[1] = "UNUSED"
    /\ state' = "LIVE"
    /\ auto_reap' = AutoReap
    /\ live_threads' = 1
    /\ tstate' = [tstate EXCEPT ![1] = "READY"]
    /\ owner' = [owner EXCEPT ![1] = pid]
    /\ Goto(Collector, "idle")
    /\ UNCHANGED <<pid, exit_status, exiting, reap_requested, next_pid, dispatch_ref,
                   join_waiter, joining, waitVars, leftovers, job, histVars>>

\* No slot for the main thread (slot 1 here, any free slot of the table in the code):
\* the spawn fails and leaves the process slot NEW.
SpawnFails ==
    /\ at[Collector] = "publish"
    /\ TableFree
    /\ tstate[1] # "UNUSED"
    /\ job' = [job EXCEPT ![Collector].pid = 0]
    /\ Goto(Collector, "idle")
    /\ UNCHANGED <<slotVars, threadVars, waitVars, leftovers, histVars>>

(***************************************************************************)
(* process_mark_exited, by the dispatch that ran the exiting thread or by  *)
(* the killer.                                                             *)
(***************************************************************************)

AfterMark(a) == IF a = Collector THEN "auto_reap" ELSE "release"

\* Mutation: a kill does not record its status.
RecordedUnlessKilled(a) == exit_status

\* A thread has stored its own status with process_set_exit_status and the
\* dispatch passes it on; a kill brings one.
Recorded(a) == IF a = Collector THEN "kill" ELSE exit_status

MarkStatus(a) ==
    /\ at[a] = "mark_status"
    /\ \/ /\ state \in {"UNUSED", "DEAD"}
          /\ Goto(a, AfterMark(a))
          /\ UNCHANGED <<exit_status, exiting, wrote>>
       \/ /\ state \notin {"UNUSED", "DEAD"}
          /\ exit_status' = Recorded(a)
          /\ exiting' = TRUE
          /\ wrote' = wrote \cup {IF a = Collector THEN "kill" ELSE exit_status}
          /\ Goto(a, "mark_zombie")
    /\ UNCHANGED <<state, pid, auto_reap, reap_requested, live_threads, next_pid,
                   threadVars, waitVars, leftovers, job, late>>

\* process_force_transit to ZOMBIE: from NEW or LIVE, else it is dead already.
MarkZombie(a) ==
    /\ at[a] = "mark_zombie"
    /\ state' = IF state \in {"NEW", "LIVE"} THEN "ZOMBIE" ELSE state
    /\ Goto(a, "mark_threads")
    /\ UNCHANGED <<pid, exit_status, exiting, auto_reap, reap_requested, live_threads, next_pid,
                   threadVars, waitVars, leftovers, job, histVars>>

\* Threads whose tombstone a dispatch claim may beat: thread_mark_owner_exited
\* reads the state and compares-and-swaps it, and the claim takes no lock.
MayEscape == {th \in Threads : /\ tstate[th] = "READY"
                               /\ \E c \in Cpus : at[c] = "resolved" /\ job[c].th = th}

\* thread_mark_owner_exited.
MarkThreads(a) ==
    /\ at[a] = "mark_threads"
    /\ TableFree
    /\ \E escaped \in SUBSET MayEscape :
          tstate' = [th \in Threads |->
                        IF pid # 0 /\ Own(th) /\ th \notin escaped THEN "ZOMBIE" ELSE tstate[th]]
    /\ live_threads' = 0
    /\ Goto(a, "mark_wake")
    /\ UNCHANGED <<state, pid, exit_status, exiting, auto_reap, reap_requested, next_pid,
                   owner, dispatch_ref, join_waiter, joining, waitVars, leftovers, job, histVars>>

\* The collector is parked for the process in the slot.
HasWaiters == pid # 0 /\ wait_state = "BLOCKED" /\ wait_target = pid

\* process_wake_waiters
MarkWake(a) ==
    /\ at[a] = "mark_wake"
    /\ wait_state' = IF HasWaiters THEN "READY" ELSE wait_state
    /\ wait_target' = IF HasWaiters THEN 0 ELSE wait_target
    /\ Goto(a, AfterMark(a))
    /\ UNCHANGED <<slotVars, threadVars, job, leftovers, histVars>>

(***************************************************************************)
(* process_try_auto_reap, process_reap_claim and process_reap.             *)
(***************************************************************************)

TryAutoReap(a) ==
    /\ at[a] = "auto_reap"
    /\ \/ auto_reap /\ ~HasWaiters /\ Goto(a, "reap_active") /\ UNCHANGED job
       \/ ~(auto_reap /\ ~HasWaiters) /\ Return(a)
    /\ UNCHANGED <<slotVars, threadVars, waitVars, leftovers, histVars>>

\* Mutation: the reaper does not look whether a thread is being dispatched.
NoActiveDispatch == FALSE

\* thread_owner_has_active_dispatch, one pass under the thread table lock.
ActiveDispatch ==
    pid # 0 /\ \E th \in Threads : Own(th) /\ (dispatch_ref[th] \/ tstate[th] = "RUNNING")

ReapActive(a) ==
    /\ at[a] = "reap_active"
    /\ TableFree
    /\ Goto(a, IF ActiveDispatch THEN "reap_request" ELSE "reap_claim")
    /\ UNCHANGED <<slotVars, threadVars, waitVars, leftovers, job, histVars>>

\* A dispatch of the slot's process that has yet to look at reap_requested.
WillRetry(c) ==
    \/ at[c] = "claimed" /\ Own(job[c].th)
    \/ job[c].pid = pid /\ at[c] \in Resolved \cup Exiting \cup {"release", "retry"}

\* The reap is left to the dispatch that was seen to be under way.
ReapRequest(a) ==
    /\ at[a] = "reap_request"
    /\ reap_requested' = TRUE
    /\ late' = [late EXCEPT !.reap = @ \/ \A c \in Cpus : ~WillRetry(c)]
    /\ Return(a)
    /\ UNCHANGED <<state, pid, exit_status, exiting, auto_reap, live_threads, next_pid,
                   threadVars, waitVars, leftovers, wrote>>

\* ZOMBIE -> REAPING: one actor wins, and frees the stacks and the context.
ReapClaim(a) ==
    /\ at[a] = "reap_claim"
    /\ \/ state = "ZOMBIE" /\ state' = "REAPING" /\ Goto(a, "reap_threads") /\ UNCHANGED job
       \/ state # "ZOMBIE" /\ Return(a) /\ UNCHANGED state
    /\ UNCHANGED <<pid, exit_status, exiting, auto_reap, reap_requested, live_threads, next_pid,
                   threadVars, waitVars, leftovers, histVars>>

\* thread_reap_owner_pass visits the slots in turn; a dispatch claim, which takes
\* no lock, may come or go between two of them.
ReapSlot(a) ==
    LET th == job[a].slot
    IN  /\ at[a] = "reap_threads"
        /\ th <= NThreads
        /\ IF Own(th) THEN ResetSlot(th) ELSE UNCHANGED <<tstate, owner, join_waiter, joining>>
        /\ job' = [job EXCEPT ![a].slot = th + 1,
                              ![a].refused = @ \/ (Own(th) /\ ~Resettable(th))]
        /\ UNCHANGED <<slotVars, dispatch_ref, waitVars, leftovers, at, histVars>>

\* thread_reap_owner repeats a pass that was refused a slot, so many times.
PassAgain(a) == job[a].refused /\ job[a].pass + 1 < ReapPasses

\* It gives up with the refused slots left behind, and the process reap reports them
\* and goes on.
ReapPass(a) ==
    /\ at[a] = "reap_threads"
    /\ job[a].slot = NThreads + 1
    /\ \/ /\ PassAgain(a)
          /\ job' = [job EXCEPT ![a].slot = 1, ![a].refused = FALSE, ![a].pass = @ + 1]
          /\ UNCHANGED <<at, leftovers>>
       \/ /\ ~PassAgain(a)
          /\ leftovers' = (leftovers \/ job[a].refused)
          /\ Goto(a, "reap_reset")
          /\ UNCHANGED job
    /\ UNCHANGED <<slotVars, threadVars, waitVars, histVars>>

\* process_reset_slot
ReapReset(a) ==
    /\ at[a] = "reap_reset"
    /\ pid' = 0
    /\ exit_status' = "none"
    /\ exiting' = FALSE
    /\ auto_reap' = FALSE
    /\ reap_requested' = FALSE
    /\ live_threads' = 0
    /\ Goto(a, "reap_dead")
    /\ UNCHANGED <<state, next_pid, threadVars, waitVars, leftovers, job, histVars>>

ReapDead(a) ==
    /\ at[a] = "reap_dead"
    /\ state' = "DEAD"
    /\ Return(a)
    /\ UNCHANGED <<pid, exit_status, exiting, auto_reap, reap_requested, live_threads, next_pid,
                   threadVars, waitVars, leftovers, histVars>>

ExitStep(a) == MarkStatus(a) \/ MarkZombie(a) \/ MarkThreads(a) \/ MarkWake(a)

ReapStep(a) ==
    \/ TryAutoReap(a) \/ ReapActive(a) \/ ReapRequest(a) \/ ReapClaim(a)
    \/ ReapSlot(a) \/ ReapPass(a) \/ ReapReset(a) \/ ReapDead(a)

(***************************************************************************)
(* process_schedule_once_impl: one dispatch.                               *)
(***************************************************************************)

\* A pick remembers the identity of the thread it found.
Pick(c, th) ==
    /\ at[c] = "idle"
    /\ tstate[th] = "READY"
    /\ job' = [job EXCEPT ![c] = [NoJob EXCEPT !.th = th, !.tid = owner[th]]]
    /\ Goto(c, "picked")
    /\ UNCHANGED <<slotVars, threadVars, waitVars, leftovers, histVars>>

\* The slot claim: lost to another dispatch or to a reset, the pick is dropped.
ClaimSlot(c) ==
    /\ at[c] = "picked"
    /\ \/ /\ dispatch_ref[job[c].th]
          /\ Return(c)
          /\ UNCHANGED dispatch_ref
       \/ /\ ~dispatch_ref[job[c].th]
          /\ dispatch_ref' = [dispatch_ref EXCEPT ![job[c].th] = TRUE]
          /\ Goto(c, "claimed")
          /\ UNCHANGED job
    /\ UNCHANGED <<slotVars, tstate, owner, join_waiter, joining, waitVars, leftovers,
                   histVars>>

\* process_owner_for_thread; the pid arms the deferred reap.
Resolve(c) ==
    /\ at[c] = "claimed"
    /\ IF Found(owner[job[c].th])
       THEN job' = [job EXCEPT ![c].pid = pid] /\ Goto(c, "resolved")
       ELSE UNCHANGED job /\ Goto(c, "release")
    /\ UNCHANGED <<slotVars, threadVars, waitVars, leftovers, histVars>>

\* cpu_sched_claim_for_dispatch: READY -> RUNNING.
ClaimRun(c) ==
    /\ at[c] = "resolved"
    /\ IF tstate[job[c].th] = "READY"
       THEN tstate' = [tstate EXCEPT ![job[c].th] = "RUNNING"] /\ Goto(c, "claimed_run")
       ELSE UNCHANGED tstate /\ Goto(c, "release")
    /\ UNCHANGED <<slotVars, owner, dispatch_ref, join_waiter, joining, waitVars,
                   leftovers, job, histVars>>

\* A dispatch that may not go on gives the claim on the thread's state back.
Unclaim(c) ==
    /\ tstate' = [tstate EXCEPT ![job[c].th] = IF @ = "RUNNING" THEN "READY" ELSE @]
    /\ Goto(c, "release")

\* The identity is checked again: the slot may have been recycled since the pick.
Validate(c) ==
    LET same == owner[job[c].th] = job[c].tid /\ owner[job[c].th] = pid
    IN  /\ at[c] = "claimed_run"
        /\ \/ same /\ Goto(c, "validated") /\ UNCHANGED tstate
           \/ ~same /\ Unclaim(c)
        /\ UNCHANGED <<slotVars, owner, dispatch_ref, join_waiter, joining, waitVars,
                       leftovers, job, histVars>>

\* process_set_running, of whichever process is in the slot by now: one that is
\* exiting, or not LIVE, is not dispatched.
SetRunning(c) ==
    /\ at[c] = "validated"
    /\ \/ state = "LIVE" /\ ~exiting /\ Goto(c, "running") /\ UNCHANGED tstate
       \/ ~(state = "LIVE" /\ ~exiting) /\ Unclaim(c)
    /\ UNCHANGED <<slotVars, owner, dispatch_ref, join_waiter, joining, waitVars,
                   leftovers, job, histVars>>

(***************************************************************************)
(* What the running thread does, until it gives the CPU back.              *)
(***************************************************************************)

\* It is free to do anything when it is not inside a join.
Runs(c) == at[c] = "running" /\ ~joining[job[c].th]

\* process_set_exit_status and PROCESS_RUN_EXITED
ExitProcess(c) ==
    /\ Runs(c)
    /\ exit_status' = "exit"
    /\ wrote' = wrote \cup {"exit"}
    /\ Goto(c, "result_exit")
    /\ UNCHANGED <<state, pid, exiting, auto_reap, reap_requested, live_threads, next_pid,
                   threadVars, waitVars, leftovers, job, late>>

\* process_thread_spawn_user_internal: the owner is tested, then a slot is taken.
SpawnThread(c) ==
    /\ Runs(c)
    /\ job[c].th = 1
    /\ state = "LIVE"
    /\ ~exiting
    /\ Goto(c, "spawn_thread")
    /\ UNCHANGED <<slotVars, threadVars, waitVars, leftovers, job, histVars>>

FreeSlots == {th \in Threads : tstate[th] = "UNUSED"}

\* thread_spawn_in_owner: the first free slot, BLOCKED until it is built.
TakeThreadSlot(c) ==
    /\ at[c] = "spawn_thread"
    /\ TableFree
    /\ \/ \E th \in FreeSlots :
             /\ \A x \in FreeSlots : th <= x
             /\ tstate' = [tstate EXCEPT ![th] = "BLOCKED"]
             /\ owner' = [owner EXCEPT ![th] = pid]
             /\ job' = [job EXCEPT ![c].slot = th]
             /\ Goto(c, "spawn_built")
       \/ /\ FreeSlots = {}
          /\ Goto(c, "running")
          /\ UNCHANGED <<tstate, owner, job>>
    /\ UNCHANGED <<slotVars, dispatch_ref, join_waiter, joining, waitVars, leftovers,
                   histVars>>

SpawnCount(c) ==
    /\ at[c] = "spawn_built"
    /\ live_threads' = live_threads + 1
    /\ Goto(c, "spawn_counted")
    /\ UNCHANGED <<state, pid, exit_status, exiting, auto_reap, reap_requested, next_pid,
                   threadVars, waitVars, leftovers, job, histVars>>

\* Mutation: a decrement that does not stop at zero.
CountDecUnchecked(n) == n - 1

\* process_count_dec saturates: a kill may have cleared the count already.
CountDec(n) == IF n > 0 THEN n - 1 ELSE 0

\* process_wake_thread makes the thread runnable; when a kill came first and it is
\* not BLOCKED any more, it is counted out again and given back.
SpawnWake(c) ==
    LET th == job[c].slot
    IN  /\ at[c] = "spawn_counted"
        /\ \/ /\ tstate[th] = "BLOCKED"
              /\ tstate' = [tstate EXCEPT ![th] = "READY"]
              /\ job' = [job EXCEPT ![c].slot = 1]
              /\ Goto(c, "running")
              /\ UNCHANGED live_threads
           \/ /\ tstate[th] # "BLOCKED"
              /\ live_threads' = CountDec(live_threads)
              /\ Goto(c, "spawn_reap")
              /\ UNCHANGED <<tstate, job>>
        /\ UNCHANGED <<state, pid, exit_status, exiting, auto_reap, reap_requested, next_pid,
                       owner, dispatch_ref, join_waiter, joining, waitVars, leftovers, histVars>>

\* thread_reap of the thread: there was no stack for it, or no root table, or its
\* wake failed.
SpawnReap(c) ==
    /\ at[c] \in {"spawn_built", "spawn_reap"}
    /\ TableFree
    /\ ResetSlot(job[c].slot)
    /\ job' = [job EXCEPT ![c].slot = 1]
    /\ Goto(c, "running")
    /\ UNCHANGED <<slotVars, dispatch_ref, waitVars, leftovers, histVars>>

(***************************************************************************)
(* process_thread_join of thread 2 by the main thread.                     *)
(***************************************************************************)

\* A first call, or the one a woken joiner makes again.  A zombie is reaped, unless
\* its last dispatch still holds the slot, and the join returns; so it does when
\* there is no such thread.
JoinTest(c) ==
    /\ at[c] = "running"
    /\ job[c].th = 1
    /\ 2 \in Threads
    /\ TableFree
    /\ \/ /\ tstate[2] = "ZOMBIE"
          /\ IF Resettable(2)
             THEN /\ tstate' = [tstate EXCEPT ![2] = "UNUSED"]
                  /\ owner' = [owner EXCEPT ![2] = 0]
                  /\ join_waiter' = [join_waiter EXCEPT ![2] = FALSE]
             ELSE UNCHANGED <<tstate, owner, join_waiter>>
          /\ joining' = [joining EXCEPT ![1] = FALSE]
          /\ Goto(c, "running")
       \/ /\ tstate[2] = "UNUSED"
          /\ joining' = [joining EXCEPT ![1] = FALSE]
          /\ Goto(c, "running")
          /\ UNCHANGED <<tstate, owner, join_waiter>>
       \/ /\ tstate[2] \notin {"UNUSED", "ZOMBIE"}
          /\ Goto(c, "join_arm")
          /\ UNCHANGED <<tstate, owner, join_waiter, joining>>
    /\ UNCHANGED <<slotVars, dispatch_ref, waitVars, leftovers, job, histVars>>

JoinArm(c) ==
    /\ at[c] = "join_arm"
    /\ join_waiter' = [join_waiter EXCEPT ![2] = tstate[2] # "UNUSED"]
    /\ joining' = [joining EXCEPT ![1] = TRUE]
    /\ late' = [late EXCEPT !.join = FALSE]
    /\ Goto(c, "join_block")
    /\ UNCHANGED <<slotVars, tstate, owner, dispatch_ref, waitVars, leftovers, job,
                   wrote>>

\* process_set_blocked: not when the process raced to a terminal state.
JoinBlock(c) ==
    /\ at[c] = "join_block"
    /\ tstate' = IF state = "LIVE" /\ tstate[1] # "ZOMBIE"
                 THEN [tstate EXCEPT ![1] = "BLOCKED"] ELSE tstate
    /\ late' = [late EXCEPT !.join = tstate[2] \in {"ZOMBIE", "UNUSED"}]
    /\ Goto(c, "result_blocked")
    /\ UNCHANGED <<slotVars, owner, dispatch_ref, join_waiter, joining, waitVars,
                   leftovers, job, wrote>>

(***************************************************************************)
(* The result handling of the dispatch.                                    *)
(***************************************************************************)

\* A process that died meanwhile: the result is dropped.
OwnerGone == state = "ZOMBIE" \/ exiting

\* A thread that yields, or exits alone, is back with its next step.
Back(c) == Runs(c) \/ at[c] \in {"result_exit", "result_blocked"}

ResultDropped(c) ==
    /\ Back(c)
    /\ OwnerGone
    /\ Goto(c, "release")
    /\ UNCHANGED <<slotVars, threadVars, waitVars, leftovers, job, histVars>>

\* A yield, and a thread that returned PROCESS_RUN_BLOCKED without blocking.
ResultReady(c) ==
    LET th == job[c].th
    IN  /\ Runs(c) \/ at[c] = "result_blocked"
        /\ ~OwnerGone
        /\ tstate' = IF tstate[th] = "RUNNING" THEN [tstate EXCEPT ![th] = "READY"] ELSE tstate
        /\ Goto(c, "release")
        /\ UNCHANGED <<slotVars, owner, dispatch_ref, join_waiter, joining, waitVars,
                       leftovers, job, histVars>>

ResultExit(c) ==
    /\ at[c] = "result_exit"
    /\ ~OwnerGone
    /\ Goto(c, "mark_status")
    /\ UNCHANGED <<slotVars, threadVars, waitVars, leftovers, job, histVars>>

ResultThreadExit(c) ==
    /\ Runs(c)
    /\ ~OwnerGone
    /\ tstate' = [tstate EXCEPT ![job[c].th] = "ZOMBIE"]
    /\ Goto(c, "joiner")
    /\ UNCHANGED <<slotVars, owner, dispatch_ref, join_waiter, joining, waitVars,
                   leftovers, job, histVars>>

\* Mutation: the exit finds the joiner but does not make it runnable.
JoinerWokenNever(th) == FALSE

\* process_wake_thread_joiner's tests, process_set_ready's included.
JoinerWoken(th) == join_waiter[th] /\ tstate[1] = "BLOCKED" /\ ~OwnerGone

\* process_wake_thread_joiner
WakeJoiner(c) ==
    LET th == job[c].th
    IN  /\ at[c] = "joiner"
        /\ tstate' = IF JoinerWoken(th) THEN [tstate EXCEPT ![1] = "READY"] ELSE tstate
        /\ join_waiter' = [join_waiter EXCEPT ![th] = FALSE]
        /\ Goto(c, "count_out")
        /\ UNCHANGED <<slotVars, owner, dispatch_ref, joining, waitVars, leftovers, job,
                       histVars>>

CountOut(c) ==
    /\ at[c] = "count_out"
    /\ live_threads' = CountDec(live_threads)
    /\ Goto(c, "last_test")
    /\ UNCHANGED <<state, pid, exit_status, exiting, auto_reap, reap_requested, next_pid,
                   threadVars, waitVars, leftovers, job, histVars>>

\* The last thread takes the process with it; with two of them at once, both do.
LastTest(c) ==
    /\ at[c] = "last_test"
    /\ Goto(c, IF live_threads = 0 THEN "mark_status" ELSE "release")
    /\ UNCHANGED <<slotVars, threadVars, waitVars, leftovers, job, histVars>>

\* dispatch_done
Release(c) ==
    /\ at[c] = "release"
    /\ dispatch_ref' = [dispatch_ref EXCEPT ![job[c].th] = FALSE]
    /\ \/ job[c].pid = 0 /\ Return(c)
       \/ job[c].pid # 0 /\ Goto(c, "retry") /\ UNCHANGED job
    /\ UNCHANGED <<slotVars, tstate, owner, join_waiter, joining, waitVars, leftovers,
                   histVars>>

\* Mutation: only auto-reap is tried at the end of a dispatch.
RequestedNever == FALSE

Requested == reap_requested

\* The reap this dispatch caused to be refused is tried again.
Retry(c) ==
    /\ at[c] = "retry"
    /\ \/ /\ ~Found(job[c].pid)
          /\ Return(c)
          /\ UNCHANGED reap_requested
       \/ /\ Found(job[c].pid)
          /\ Goto(c, IF Requested THEN "reap_active" ELSE "auto_reap")
          /\ reap_requested' = IF Requested THEN FALSE ELSE reap_requested
          /\ UNCHANGED job
    /\ UNCHANGED <<state, pid, exit_status, exiting, auto_reap, live_threads, next_pid,
                   threadVars, waitVars, leftovers, histVars>>

DispatchStep(c) ==
    \/ \E th \in Threads : Pick(c, th)
    \/ ClaimSlot(c) \/ Resolve(c) \/ ClaimRun(c) \/ Validate(c) \/ SetRunning(c)
    \/ ExitProcess(c)
    \/ SpawnThread(c) \/ TakeThreadSlot(c) \/ SpawnCount(c) \/ SpawnWake(c) \/ SpawnReap(c)
    \/ JoinTest(c) \/ JoinArm(c) \/ JoinBlock(c)
    \/ ResultDropped(c) \/ ResultReady(c) \/ ResultExit(c) \/ ResultThreadExit(c)
    \/ WakeJoiner(c) \/ CountOut(c) \/ LastTest(c) \/ Release(c) \/ Retry(c)

(***************************************************************************)
(* The collector: process_kill, process_wait, and the process manager's    *)
(* process_get_exit_status followed by process_reap_zombie_pid.            *)
(***************************************************************************)

Target == job[Collector].pid

Kill ==
    /\ at[Collector] = "idle"
    /\ Found(Target)
    /\ state # "ZOMBIE"
    /\ Goto(Collector, "mark_status")
    /\ UNCHANGED <<slotVars, threadVars, waitVars, leftovers, job, histVars>>

\* A wait, and a poll that found the status.
Wait ==
    /\ at[Collector] = "idle"
    /\ Found(Target)
    /\ Goto(Collector, "wait_test")
    /\ UNCHANGED <<slotVars, threadVars, waitVars, leftovers, job, histVars>>

WaitTest ==
    /\ at[Collector] = "wait_test"
    /\ Goto(Collector, IF ~Found(Target) THEN "idle"
                       ELSE IF state = "ZOMBIE" THEN "wait_status" ELSE "wait_block")
    /\ UNCHANGED <<slotVars, threadVars, waitVars, leftovers, job, histVars>>

\* The status is read, then the reap is claimed.
WaitStatus ==
    /\ at[Collector] = "wait_status"
    /\ job' = [job EXCEPT ![Collector].pid = 0]
    /\ Goto(Collector, "reap_active")
    /\ UNCHANGED <<slotVars, threadVars, waitVars, leftovers, histVars>>

\* Registration is two stores: BLOCKED with its reason, then wait_target_pid.
WaitBlock ==
    /\ at[Collector] = "wait_block"
    /\ wait_state' = "BLOCKED"
    /\ Goto(Collector, "wait_target")
    /\ UNCHANGED <<slotVars, threadVars, wait_target, leftovers, job, histVars>>

WaitTarget ==
    /\ at[Collector] = "wait_target"
    /\ wait_target' = Target
    /\ late' = [late EXCEPT !.wait = ~(pid = Target /\ state = "LIVE")]
    /\ Goto(Collector, "parked")
    /\ UNCHANGED <<slotVars, threadVars, wait_state, leftovers, job, wrote>>

\* The woken thread is dispatched and calls process_wait again.
WaitResume ==
    /\ at[Collector] = "parked"
    /\ wait_state = "READY"
    /\ wait_state' = "RUNNING"
    /\ Goto(Collector, "wait_test")
    /\ UNCHANGED <<slotVars, threadVars, wait_target, leftovers, job, histVars>>

CollectorStep ==
    \/ SpawnClaim \/ SpawnPublish \/ SpawnFails \/ Kill
    \/ Wait \/ WaitTest \/ WaitStatus \/ WaitBlock \/ WaitTarget \/ WaitResume

Next ==
    \/ CollectorStep
    \/ \E c \in Cpus : DispatchStep(c)
    \/ \E a \in Actors : ExitStep(a) \/ ReapStep(a)

Spec == Init /\ [][Next]_vars

(***************************************************************************)
(* Properties.                                                             *)
(***************************************************************************)

\* As long as no reap has given up and counted leftovers: a dispatch keeps the
\* process slot it resolved until it is done with it.  No reap recycles the slot
\* under the raw pointer the dispatch carries across the switch and the result
\* handling, and none starts to free the stacks while a thread of the process is
\* executing on one.
DispatchKeepsSlot ==
    ~leftovers =>
        \A c \in Cpus :
            /\ at[c] \in Resolved \cup Exiting => pid = job[c].pid
            /\ at[c] = "running" => state \in {"LIVE", "ZOMBIE"}

\* The status a wait is about to return is one that an exit or a kill of that very
\* process recorded, never the zero a reset leaves or the status of a successor.
CollectedStatusIsReal ==
    at[Collector] = "wait_status" => pid = Target /\ exit_status \in wrote

\* As long as no reap has given up: nothing of an earlier process in the slot
\* reaches the one being built.  Its publication cannot find the slot moved (that
\* would be a kernel panic), and it inherits neither threads nor a pending reap.
SpawnUndisturbed ==
    ~leftovers /\ at[Collector] = "publish" =>
        /\ state = "NEW"
        /\ ~reap_requested
        /\ \A th \in Threads : tstate[th] = "UNUSED"

\* A thread parked on a process, or on a thread, that was registered before its
\* target exited is woken: it is asleep beside a dead target only while the
\* exiting side is still on its way to the wake.
RegisteredWaiterIsWoken ==
    /\ at[Collector] = "parked" /\ wait_state = "BLOCKED" /\ ~late.wait /\ state # "LIVE" =>
          \E a \in Actors : at[a] \in {"mark_threads", "mark_wake"}
    /\ 2 \in Threads /\ joining[1] /\ tstate[1] = "BLOCKED" /\ ~late.join
          /\ tstate[2] = "ZOMBIE" /\ ~OwnerGone =>
          \E c \in Cpus : at[c] = "joiner" /\ job[c].th = 2

\* A reap that was refused because of a dispatch, and asked for while that
\* dispatch was still to look, is carried out: while the request stands, some
\* dispatch of the process has yet to reach the end where it retries.
RefusedReapIsRetried ==
    reap_requested /\ state = "ZOMBIE" /\ ~late.reap => \E c \in Cpus : WillRetry(c)

============================================================================
