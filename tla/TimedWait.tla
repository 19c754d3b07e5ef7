----------------------------- MODULE TimedWait ------------------------------
(***************************************************************************)
(* Events and timed waits of the kernel (src/kernel/sched_event.c) under   *)
(* their simplest client, the futex (src/kernel/futex.c).                  *)
(*                                                                         *)
(* A waiter arms a deadline and parks on an event while it holds the       *)
(* event's lock.  Every CPU runs sched_timeout_check before each dispatch: *)
(* it reads the threads' deadlines without a lock, expires the ones that   *)
(* passed, and keeps g_sched_timeout_next, a lower bound that spares the   *)
(* scan while nothing is due.  A step is one access to a word that another *)
(* CPU uses without a lock, or one critical section of an event's lock.    *)
(*                                                                         *)
(* On a machine with one CPU a thread that holds a spinlock has interrupts *)
(* off and a scan is not preempted by a thread, so neither runs inside the *)
(* other; with several CPUs they interleave freely.                        *)
(*                                                                         *)
(* Of sched_wake_thread this module has the promotion, which both of its   *)
(* branches make; who then links the READY thread, and how it gets a CPU,  *)
(* is the subject of SchedDispatch.                                        *)
(***************************************************************************)
EXTENDS Naturals, Sequences, FiniteSets, KernelList

CONSTANTS NThreads,  \* THREAD_MAX_COUNT: the slots a scan walks, in order
          Cpus,      \* the CPUs that may be scanning
          Futexes,   \* futex words, each with its event
          Timeouts,  \* timeout_ms of the waits, in ticks; 0 waits for ever
          Count,     \* the `count` of futex_wake
          NoOne, NoEvent,
          MaxTick    \* bound: the clock

ASSUME TimedWaitAssumption ==
    /\ NThreads \in Nat \ {0}
    /\ Timeouts \subseteq Nat
    /\ Count \in Nat \ {0}
    /\ MaxTick \in Nat
    /\ NoEvent \notin Futexes
    /\ NoOne \notin (1..NThreads) \cup Cpus
    /\ Cpus \cap (1..NThreads) = {}

Threads == 1..NThreads
Never   == MaxTick + 1   \* (uint64_t)-1

VARIABLES
    smp,        \* more than one CPU was booted
    now,        \* g_timer_ticks
    next,       \* g_sched_timeout_next
    armed,      \* CPUs whose scan has an arm_seq out of date: an arm has
                \* bumped g_sched_timeout_arm_seq since they read it
    tick,       \* thread -> sched_timeout_tick, 0 for none
    tstate,     \* thread -> state
    wait_event, \* thread -> the event it waits on
    pend,       \* thread -> pend_state
    wait_list,  \* futex -> the threads on its event, longest waiting first
    lock,       \* futex -> the holder of its event's lock
    thr,        \* thread -> where it is, and its locals
    scan        \* CPU -> where its sched_timeout_check is, and its locals

event  == <<wait_event, pend, wait_list>>
vars   == <<smp, now, next, armed, tick, tstate, event, lock, thr, scan>>

\* Mutation: the later deadline is never taken into the bound.
MinKept(a, b) == a
Min2(a, b) == IF a < b THEN a ELSE b

-----------------------------------------------------------------------------
(* What runs next to what. *)

Scanning(c) == scan[c].at # "idle"
Locked(t)   == \E f \in Futexes : lock[f] = t

ThreadRuns(t) == smp \/ (/\ \A c \in Cpus : ~Scanning(c)
                         /\ \A u \in Threads \ {t} : ~Locked(u))
ScanRuns(c)   == smp \/ (/\ \A d \in Cpus \ {c} : ~Scanning(d)
                         /\ \A u \in Threads : ~Locked(u))

-----------------------------------------------------------------------------
(* A wait: futex_wait, sched_event_wait, sched_timeout_arm. *)

\* Thread t goes on to `at`; all else of its locals stays.
Goto(t, at) == thr' = [thr EXCEPT ![t].at = at]

\* The futex word is read under the event's lock; a word that has changed ends
\* the call.  A thread waits only for as long as the clock goes.
FutexWait(t, f, ms) ==
    /\ thr[t].at = "user"
    /\ ThreadRuns(t)
    /\ lock[f] = NoOne
    /\ now + ms <= MaxTick
    /\ lock' = [lock EXCEPT ![f] = t]
    /\ thr' = [thr EXCEPT ![t] = [at       |-> IF ms > 0 THEN "arm_tick" ELSE "link",
                                  futex    |-> f,
                                  stale    |-> FALSE,
                                  deadline |-> IF ms > 0 THEN now + ms ELSE 0,
                                  cur      |-> 0,
                                  left     |-> 0,
                                  who      |-> NoOne]]
    /\ UNCHANGED <<smp, now, next, armed, tick, tstate, event, scan>>

ArmTick(t) == /\ thr[t].at = "arm_tick"
              /\ ThreadRuns(t)
              /\ tick' = [tick EXCEPT ![t] = thr[t].deadline]
              /\ Goto(t, "arm_seq")
              /\ UNCHANGED <<smp, now, next, armed, tstate, event, lock, scan>>

ArmSeq(t) == /\ thr[t].at = "arm_seq"
             /\ ThreadRuns(t)
             /\ armed' = {c \in Cpus : Scanning(c)}
             /\ Goto(t, "arm_load")
             /\ UNCHANGED <<smp, now, next, tick, tstate, event, lock, scan>>

\* With the hint read as n: lower it, or leave it.
\* Mutation: the hint is never lowered.
LowerNever(t, n) == thr' = [thr EXCEPT ![t].at = "link", ![t].cur = 0]
LowerFrom(t, n) == IF thr[t].deadline < n
                   THEN thr' = [thr EXCEPT ![t].at = "arm_cas", ![t].cur = n]
                   ELSE thr' = [thr EXCEPT ![t].at = "link", ![t].cur = 0]

ArmLoad(t) == /\ thr[t].at = "arm_load"
              /\ ThreadRuns(t)
              /\ LowerFrom(t, next)
              /\ UNCHANGED <<smp, now, next, armed, tick, tstate, event, lock, scan>>

ArmCas(t) == /\ thr[t].at = "arm_cas"
             /\ ThreadRuns(t)
             /\ \/ /\ next = thr[t].cur
                   /\ next' = thr[t].deadline
                   /\ thr' = [thr EXCEPT ![t].at = "link", ![t].cur = 0]
                \/ /\ next # thr[t].cur
                   /\ LowerFrom(t, next)
                   /\ UNCHANGED next
             /\ UNCHANGED <<smp, now, armed, tick, tstate, event, lock, scan>>

\* The thread joins the event's list, and no other.
Link(t) ==
    /\ thr[t].at = "link"
    /\ ThreadRuns(t)
    /\ wait_list' = [f \in Futexes |-> IF f = thr[t].futex THEN Append(Without(wait_list[f], t), t)
                                       ELSE Without(wait_list[f], t)]
    /\ wait_event' = [wait_event EXCEPT ![t] = thr[t].futex]
    /\ pend' = [pend EXCEPT ![t] = "NONE"]
    /\ Goto(t, "block")
    /\ UNCHANGED <<smp, now, next, armed, tick, tstate, lock, scan>>

\* thread_set_state, the unlock and the yield.
Block(t) == /\ thr[t].at = "block"
            /\ ThreadRuns(t)
            /\ tstate' = [tstate EXCEPT ![t] = "BLOCKED"]
            /\ lock' = [lock EXCEPT ![thr[t].futex] = NoOne]
            /\ Goto(t, "parked")
            /\ UNCHANGED <<smp, now, next, armed, tick, event, scan>>

\* The scheduler runs the thread again.
Resume(t) == /\ thr[t].at = "parked"
             /\ tstate[t] = "READY"
             /\ ThreadRuns(t)
             /\ tstate' = [tstate EXCEPT ![t] = "RUNNING"]
             /\ Goto(t, "resumed")
             /\ UNCHANGED <<smp, now, next, armed, tick, event, lock, scan>>

User == [at |-> "user", futex |-> NoEvent, stale |-> FALSE, deadline |-> 0, cur |-> 0, left |-> 0,
         who |-> NoOne]

\* The rest of sched_event_wait and of futex_wait: the caller is told that it
\* timed out, or to look at the word again.  pend_state has served.
Return(t) == /\ thr[t].at = "resumed"
             /\ ThreadRuns(t)
             /\ tick' = [tick EXCEPT ![t] = 0]
             /\ thr' = [thr EXCEPT ![t] = User]
             /\ pend' = [pend EXCEPT ![t] = "NONE"]
             /\ UNCHANGED <<smp, now, next, armed, tstate, wait_event, wait_list, lock, scan>>

-----------------------------------------------------------------------------
(* A wake: the caller publishes a new word, then futex_wake.  The word's    *)
(* value is left out: what a wait read of it is `stale` once it is written. *)

WaitSteps == {"arm_tick", "arm_seq", "arm_load", "arm_cas", "link", "block", "parked"}

Publish(t, f) == /\ thr[t].at = "user"
                 /\ ThreadRuns(t)
                 /\ thr' = [u \in Threads |->
                              IF u = t THEN [User EXCEPT !.at = "publish", !.futex = f]
                              ELSE IF thr[u].futex = f /\ thr[u].at \in WaitSteps
                              THEN [thr[u] EXCEPT !.stale = TRUE]
                              ELSE thr[u]]
                 /\ UNCHANGED <<smp, now, next, armed, tick, tstate, event, lock, scan>>

\* Mutation: a word nobody seems to wait on is not locked.
FutexWakeUnlocked(t) ==
    /\ thr[t].at = "publish"
    /\ ThreadRuns(t)
    /\ \/ /\ wait_list[thr[t].futex] = << >>
          /\ thr' = [thr EXCEPT ![t] = User]
          /\ UNCHANGED lock
       \/ /\ lock[thr[t].futex] = NoOne
          /\ lock' = [lock EXCEPT ![thr[t].futex] = t]
          /\ thr' = [thr EXCEPT ![t].at = "wake", ![t].left = Count]
    /\ UNCHANGED <<smp, now, next, armed, tick, tstate, event, scan>>

FutexWake(t) == /\ thr[t].at = "publish"
                /\ ThreadRuns(t)
                /\ lock[thr[t].futex] = NoOne
                /\ lock' = [lock EXCEPT ![thr[t].futex] = t]
                /\ thr' = [thr EXCEPT ![t].at = "wake", ![t].left = Count]
                /\ UNCHANGED <<smp, now, next, armed, tick, tstate, event, scan>>

\* Thread u leaves event f with pend_state p.  It is still blocked.
Detach(u, f, p) ==
    /\ wait_list' = [wait_list EXCEPT ![f] = Without(@, u)]
    /\ wait_event' = [wait_event EXCEPT ![u] = NoEvent]
    /\ pend' = [pend EXCEPT ![u] = p]

\* sched_wake_thread: a blocked thread becomes runnable (thread_wake_if_blocked, or
\* sched_mark_ready_if_live where the enqueue is left to the thread's own CPU).
Promote(u) == tstate' = [tstate EXCEPT ![u] = IF @ = "BLOCKED" THEN "READY" ELSE @]

\* sched_event_wake_one, sched_event_detach_wake up to the wake itself.
WakeOne(t) ==
    /\ thr[t].at = "wake"
    /\ ThreadRuns(t)
    /\ LET f == thr[t].futex
       IN /\ thr[t].left > 0
          /\ wait_list[f] # << >>
          /\ LET u == Head(wait_list[f])
             IN /\ Detach(u, f, "OK")
                /\ tick' = [tick EXCEPT ![u] = 0]
                /\ thr' = [thr EXCEPT ![t].at = "promote", ![t].left = @ - 1, ![t].who = u]
    /\ UNCHANGED <<smp, now, next, armed, tstate, lock, scan>>

WakePromote(t) == /\ thr[t].at = "promote"
                  /\ ThreadRuns(t)
                  /\ Promote(thr[t].who)
                  /\ thr' = [thr EXCEPT ![t].at = "wake", ![t].who = NoOne]
                  /\ UNCHANGED <<smp, now, next, armed, tick, event, lock, scan>>

WakeDone(t) == /\ thr[t].at = "wake"
               /\ ThreadRuns(t)
               /\ thr[t].left = 0 \/ wait_list[thr[t].futex] = << >>
               /\ lock' = [lock EXCEPT ![thr[t].futex] = NoOne]
               /\ thr' = [thr EXCEPT ![t] = User]
               /\ UNCHANGED <<smp, now, next, armed, tick, tstate, event, scan>>

-----------------------------------------------------------------------------
(* sched_timeout_check. *)

Idle == [at |-> "idle", now |-> 0, observed |-> 0, next |-> 0, i |-> 0, d |-> 0, ev |-> NoEvent]

\* On to the next slot.
NextSlot(c) == scan' = [scan EXCEPT ![c].at = "tick", ![c].i = @ + 1,
                                    ![c].d = 0, ![c].ev = NoEvent]

\* The fast path changes nothing.
Check(c) == /\ scan[c].at = "idle"
            /\ ScanRuns(c)
            /\ now >= next
            /\ scan' = [scan EXCEPT ![c] = [Idle EXCEPT !.at = "seq", !.now = now,
                                                        !.observed = next, !.next = Never]]
            /\ UNCHANGED <<smp, now, next, armed, tick, tstate, event, lock, thr>>

LoadSeq(c) == /\ scan[c].at = "seq"
              /\ armed' = armed \ {c}
              /\ NextSlot(c)
              /\ UNCHANGED <<smp, now, next, tick, tstate, event, lock, thr>>

LoadTick(c) == /\ scan[c].at = "tick"
               /\ scan[c].i <= NThreads
               /\ LET d == tick[scan[c].i]
                  IN \/ d = 0 /\ NextSlot(c)
                     \/ d # 0 /\ scan' = [scan EXCEPT ![c].at = "state", ![c].d = d]
               /\ UNCHANGED <<smp, now, next, armed, tick, tstate, event, lock, thr>>

\* Mutation: a tick too soon.
DueEarly(d, n) == d <= n + 1
Due(d, n) == d <= n

TestState(c) ==
    /\ scan[c].at = "state"
    /\ LET d == scan[c].d
           blocked == tstate[scan[c].i] = "BLOCKED"
       IN \/ /\ ~blocked
             /\ scan' = [scan EXCEPT ![c].at = "clear"]
          \/ /\ blocked /\ Due(d, scan[c].now)
             /\ scan' = [scan EXCEPT ![c].at = "expire"]
          \/ /\ blocked /\ ~Due(d, scan[c].now)
             /\ scan' = [scan EXCEPT ![c].at = "tick", ![c].i = @ + 1, ![c].d = 0,
                                     ![c].next = Min2(@, d)]
    /\ UNCHANGED <<smp, now, next, armed, tick, tstate, event, lock, thr>>

\* The thread was woken some other way.
Clear(c) == /\ scan[c].at = "clear"
            /\ tick' = [tick EXCEPT ![scan[c].i] = 0]
            /\ NextSlot(c)
            /\ UNCHANGED <<smp, now, next, armed, tstate, event, lock, thr>>

Expire(c) == /\ scan[c].at = "expire"
             /\ tick' = [tick EXCEPT ![scan[c].i] = 0]
             /\ scan' = [scan EXCEPT ![c].at = "fire_load"]
             /\ UNCHANGED <<smp, now, next, armed, tstate, event, lock, thr>>

\* sched_timeout_fire: the event is read, locked, and read again.
FireLoad(c) == /\ scan[c].at = "fire_load"
               /\ LET ev == wait_event[scan[c].i]
                  IN \/ ev = NoEvent /\ NextSlot(c)
                     \/ ev # NoEvent /\ scan' = [scan EXCEPT ![c].at = "fire", ![c].ev = ev]
               /\ UNCHANGED <<smp, now, next, armed, tick, tstate, event, lock, thr>>

\* Whether thread u is still on the event that was locked.
\* Mutation: the event that was read is trusted.
StillOnAssumed(u, f) == TRUE
StillOn(u, f) == wait_event[u] = f

Fire(c) == /\ scan[c].at = "fire"
           /\ LET u == scan[c].i
                  f == scan[c].ev
              IN /\ lock[f] = NoOne
                 /\ \/ /\ StillOn(u, f)
                       /\ Detach(u, f, "TIMEOUT")
                       /\ scan' = [scan EXCEPT ![c].at = "promote"]
                    \/ /\ ~StillOn(u, f)
                       /\ NextSlot(c)
                       /\ UNCHANGED event
           /\ UNCHANGED <<smp, now, next, armed, tick, tstate, lock, thr>>

\* The wake follows the unlock.
FirePromote(c) == /\ scan[c].at = "promote"
                  /\ Promote(scan[c].i)
                  /\ NextSlot(c)
                  /\ UNCHANGED <<smp, now, next, armed, tick, event, lock, thr>>

\* The end of the scan: arm_seq is read again.
ReloadSeq(c) == /\ scan[c].at = "tick"
                /\ scan[c].i > NThreads
                /\ scan' = IF c \in armed THEN [scan EXCEPT ![c] = Idle]
                           ELSE [scan EXCEPT ![c].at = "publish"]
                /\ armed' = armed \ {c}
                /\ UNCHANGED <<smp, now, next, tick, tstate, event, lock, thr>>

\* The recomputed bound, by compare-and-exchange.
PublishNext(c) == /\ scan[c].at = "publish"
                  /\ next' = IF next = scan[c].observed THEN scan[c].next ELSE next
                  /\ scan' = [scan EXCEPT ![c] = Idle]
                  /\ armed' = armed \ {c}
                  /\ UNCHANGED <<smp, now, tick, tstate, event, lock, thr>>

\* The timer interrupt.
Tick == /\ now < MaxTick
        /\ now' = now + 1
        /\ UNCHANGED <<smp, next, armed, tick, tstate, event, lock, thr, scan>>

-----------------------------------------------------------------------------
Init == /\ smp \in BOOLEAN
        /\ now = 0
        /\ next = Never
        /\ armed = {}
        /\ tick = [t \in Threads |-> 0]
        /\ tstate = [t \in Threads |-> "RUNNING"]
        /\ wait_event = [t \in Threads |-> NoEvent]
        /\ pend = [t \in Threads |-> "NONE"]
        /\ wait_list = [f \in Futexes |-> << >>]
        /\ lock = [f \in Futexes |-> NoOne]
        /\ thr = [t \in Threads |-> User]
        /\ scan = [c \in Cpus |-> Idle]

Call(t) == \E f \in Futexes : Publish(t, f) \/ \E ms \in Timeouts : FutexWait(t, f, ms)

\* What a thread does once it has made a call.
Advance(t) == \/ ArmTick(t) \/ ArmSeq(t) \/ ArmLoad(t) \/ ArmCas(t) \/ Link(t) \/ Block(t)
              \/ Resume(t) \/ Return(t)
              \/ FutexWake(t) \/ WakeOne(t) \/ WakePromote(t) \/ WakeDone(t)

Scan(c) == \/ Check(c) \/ LoadSeq(c) \/ LoadTick(c) \/ TestState(c) \/ Clear(c) \/ Expire(c)
           \/ FireLoad(c) \/ Fire(c) \/ FirePromote(c) \/ ReloadSeq(c) \/ PublishNext(c)

Next == \/ \E t \in Threads : Call(t) \/ Advance(t)
        \/ \E c \in Cpus : Scan(c)
        \/ Tick

Spec == Init /\ [][Next]_vars

\* The timer goes on.  A CPU that is shared is given in turn to every thread in
\* the kernel, and to a scan before each dispatch.
FairSpec == /\ Spec
            /\ WF_vars(Tick)
            /\ \A t \in Threads : SF_vars(Advance(t))
            /\ \A c \in Cpus : SF_vars(Scan(c))

-----------------------------------------------------------------------------
ThreadSteps == {"user", "arm_tick", "arm_seq", "arm_load", "arm_cas", "link", "block",
                "parked", "resumed", "publish", "wake", "promote"}
ScanSteps == {"idle", "seq", "tick", "state", "clear", "expire", "fire_load", "fire", "promote",
              "publish"}

\* Every variable keeps its type, and an event's list never outgrows the threads.
TypeOK == /\ smp \in BOOLEAN
          /\ now \in 0..MaxTick /\ next \in 0..Never
          /\ armed \subseteq Cpus
          /\ tick \in [Threads -> 0..MaxTick]
          /\ tstate \in [Threads -> {"RUNNING", "READY", "BLOCKED"}]
          /\ wait_event \in [Threads -> Futexes \cup {NoEvent}]
          /\ pend \in [Threads -> {"NONE", "OK", "TIMEOUT"}]
          /\ wait_list \in [Futexes -> Seq(Threads)]
          /\ \A f \in Futexes : Len(wait_list[f]) <= NThreads
          /\ lock \in [Futexes -> Threads \cup {NoOne}]
          /\ thr \in [Threads -> [at : ThreadSteps, futex : Futexes \cup {NoEvent},
                                  stale : BOOLEAN, deadline : 0..MaxTick, cur : 0..Never,
                                  left : 0..Count, who : Threads \cup {NoOne}]]
          /\ scan \in [Cpus -> [at : ScanSteps, now : 0..MaxTick, observed : 0..Never,
                                next : 0..Never, i : 0..NThreads + 1, d : 0..MaxTick,
                                ev : Futexes \cup {NoEvent}]]

On(f) == {wait_list[f][i] : i \in DOMAIN wait_list[f]}

\* A waker or an expiry has taken thread t off its list and is still to wake it.
InHand(t) == \/ \E u \in Threads : thr[u].at = "promote" /\ thr[u].who = t
             \/ \E c \in Cpus : scan[c].at = "promote" /\ scan[c].i = t

\* A blocked thread is on exactly one event's list, once, and the event it names
\* is that one, or else whoever took it off is still to wake it: whatever a timeout
\* and a wake do at the same time, a waker can find it and no list holds a thread that
\* has left (sched_timeout_fire's re-validation under the event's lock, and its wake
\* after the unlock).
WaitersLinked ==
    \A t \in Threads :
        /\ \A f \in Futexes : /\ t \in On(f) <=> wait_event[t] = f
                              /\ Len(wait_list[f]) = Cardinality(On(f))
        /\ tstate[t] = "BLOCKED" => wait_event[t] # NoEvent \/ InHand(t)

\* Where futex_wake still has the list of its word to walk.
WakeSteps == {"publish", "wake", "promote"}

\* No waiter sleeps on a word that has changed, unless the thread that changed
\* it is still to wake it (futex_wait re-reads the word under the event's lock), or a
\* wake has it in hand.  It speaks of wakes whose count covers the waiters.
NoLostFutexWake ==
    Count >= NThreads =>
        \A t \in Threads :
            (tstate[t] = "BLOCKED" /\ thr[t].stale)
                => \/ InHand(t)
                   \/ \E u \in Threads : thr[u].futex = thr[t].futex /\ thr[u].at \in WakeSteps

NoScan == \A c \in Cpus : ~Scanning(c)

\* The hint sits above no live deadline of a parked thread once no scan is under
\* way, or the fast path would skip that deadline for ever: "the generation
\* counter catches every arm" (sched_timeout_check's publish step).
HintIsLowerBound ==
    NoScan => \A t \in Threads : (tstate[t] = "BLOCKED" /\ tick[t] # 0) => next <= tick[t]

\* On one CPU the deadline a blocked thread armed is neither dropped by a scan nor
\* hidden by the hint, until a waker has the thread in hand.
DeadlineKeptUp ==
    (~smp /\ NoScan) => /\ HintIsLowerBound
                        /\ \A t \in Threads : tstate[t] = "BLOCKED" =>
                              tick[t] = thr[t].deadline \/ InHand(t)

\* On one CPU futex_wait reports a timeout only to a caller that asked for one,
\* and only when its time has passed (sched_event_wait's disarm on resume).
NoEarlyTimeoutUp ==
    ~smp => \A t \in Threads :
               (thr[t].at = "resumed" /\ pend[t] = "TIMEOUT")
                   => thr[t].deadline # 0 /\ now >= thr[t].deadline

\* On one CPU a wait with a timeout comes back, woken or not.
TimedWaitEndsUp ==
    \A t \in Threads : (~smp /\ thr[t].at = "parked" /\ thr[t].deadline # 0)
                           ~> thr[t].at = "user"
=============================================================================
