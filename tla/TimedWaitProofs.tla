-------------------------- MODULE TimedWaitProofs ---------------------------
(***************************************************************************)
(* Theorems of TimedWait, for any number of threads, CPUs and futexes, any *)
(* timeouts and any run of the clock: types, the agreement of lists and    *)
(* waiters, no lost futex wake, and on one CPU the two facts about         *)
(* deadlines.                                                              *)
(***************************************************************************)
EXTENDS TimedWait, ListLemmas

Events == Futexes \cup {NoEvent}

ThreadLocals == [at : ThreadSteps, futex : Events, stale : BOOLEAN, deadline : 0..MaxTick,
                 cur : 0..Never, left : 0..Count, who : Threads \cup {NoOne}]
ScanLocals == [at : ScanSteps, now : 0..MaxTick, observed : 0..Never, next : 0..Never,
               i : 0..NThreads + 1, d : 0..MaxTick, ev : Events]

\* TypeOK but for the length of the lists.
TInv == /\ smp \in BOOLEAN
        /\ now \in 0..MaxTick /\ next \in 0..Never
        /\ armed \subseteq Cpus
        /\ tick \in [Threads -> 0..MaxTick]
        /\ tstate \in [Threads -> {"RUNNING", "READY", "BLOCKED"}]
        /\ wait_event \in [Threads -> Events]
        /\ pend \in [Threads -> {"NONE", "OK", "TIMEOUT"}]
        /\ wait_list \in [Futexes -> Seq(Threads)]
        /\ lock \in [Futexes -> Threads \cup {NoOne}]
        /\ thr \in [Threads -> ThreadLocals]
        /\ scan \in [Cpus -> ScanLocals]

\* Where a thread holds the lock of its futex's event, and where a scan has a
\* slot of the thread table at hand.
LockSteps == {"arm_tick", "arm_seq", "arm_load", "arm_cas", "link", "block", "wake", "promote"}
SlotSteps == {"state", "clear", "expire", "fire_load", "fire", "promote"}

\* Calls and scans in progress name what they work on.
InProgress ==
    /\ \A t \in Threads : /\ thr[t].at # "user" => thr[t].futex \in Futexes
                          /\ thr[t].at = "promote" => thr[t].who \in Threads
    /\ \A c \in Cpus : /\ scan[c].at \in SlotSteps => scan[c].i \in Threads
                       /\ scan[c].at = "tick" => scan[c].i >= 1
                       /\ scan[c].at = "seq" => scan[c].i = 0
                       /\ scan[c].at = "fire" => scan[c].ev \in Futexes

\* The lock of an event belongs to the one thread that is inside.
LockHeld == /\ \A t \in Threads : thr[t].at \in LockSteps => lock[thr[t].futex] = t
            /\ \A f \in Futexes : lock[f] # NoOne =>
                  thr[lock[f]].at \in LockSteps /\ thr[lock[f]].futex = f

\* Lists and waiters agree.
Linked == \A f \in Futexes : /\ NoRepeats(wait_list[f])
                             /\ \A t \in Threads : t \in On(f) <=> wait_event[t] = f

\* The threads and scans that have taken thread t off its list and are still to wake it.
Hand == Threads \cup Cpus
Wakers == [t \in Threads |->
              {w \in Hand : \/ w \in Threads /\ thr[w].at = "promote" /\ thr[w].who = t
                            \/ w \in Cpus /\ scan[w].at = "promote" /\ scan[w].i = t}]

\* A thread about to block, or blocked, is on its futex's list, or off it and in the
\* hand of a waker; no other is on one.
BlockedOnOwn ==
    \A t \in Threads : /\ thr[t].at = "block" => wait_event[t] = thr[t].futex
                       /\ tstate[t] = "BLOCKED" => /\ thr[t].at = "parked"
                                                   /\ wait_event[t] = thr[t].futex \/ Wakers[t] # {}
                       /\ wait_event[t] # NoEvent => \/ thr[t].at = "block"
                                                     \/ tstate[t] = "BLOCKED"

\* One waker at most, thread or scan, has thread t in hand, and t is off every list and
\* still blocked.
Hands == \A t \in Threads : Wakers[t] # {} => /\ tstate[t] = "BLOCKED" /\ wait_event[t] = NoEvent
                                              /\ \E w \in Hand : Wakers[t] = {w}

LInv == InProgress /\ LockHeld /\ Linked /\ BlockedOnOwn /\ Hands

\* The futex: a thread whose word changes while it holds the lock has the writer
\* still waiting for that lock; a wake has enough left for all on the list.
StaleIsSeen ==
    \A t \in Threads :
        /\ thr[t].at \in WakeSteps => ~thr[t].stale
        /\ thr[t].at \in LockSteps /\ thr[t].stale =>
              \E u \in Threads : thr[u].at = "publish" /\ thr[u].futex = thr[t].futex
        /\ tstate[t] = "BLOCKED" /\ thr[t].stale =>
              \/ Wakers[t] # {}
              \/ \E u \in Threads : thr[u].at \in WakeSteps /\ thr[u].futex = thr[t].futex
WakeCovers == \A u \in Threads :
                 thr[u].at \in {"wake", "promote"} => thr[u].left >= Len(wait_list[thr[u].futex])

FInv == Count >= NThreads => StaleIsSeen /\ WakeCovers

\* One CPU: nothing runs beside a scan, and one thread at most inside a lock.
Alone == /\ armed = {}
         /\ \A c \in Cpus : Scanning(c) => /\ \A d \in Cpus : Scanning(d) => d = c
                                           /\ \A t \in Threads : ~Locked(t)
                                           /\ scan[c].now <= now /\ scan[c].observed = next
         /\ \A t, u \in Threads : Locked(t) /\ Locked(u) => t = u

\* The deadline of a wait, from the arm to the park.
ArmedOf(t) ==
    /\ thr[t].at \in {"arm_seq", "arm_load", "arm_cas", "link", "block"} => tick[t] = thr[t].deadline
    /\ thr[t].at \in {"arm_tick", "arm_seq", "arm_load", "arm_cas"} => thr[t].deadline # 0
    /\ thr[t].at = "arm_cas" => thr[t].deadline < thr[t].cur
    /\ thr[t].at \in {"link", "block"} /\ thr[t].deadline # 0 => next <= thr[t].deadline
    /\ thr[t].at \in {"user", "publish", "wake", "promote"} => tick[t] = 0 /\ pend[t] = "NONE"
    /\ thr[t].at = "arm_tick" => tick[t] = 0
    /\ pend[t] = "TIMEOUT" => /\ thr[t].at \in {"parked", "resumed"}
                              /\ thr[t].deadline # 0 /\ now >= thr[t].deadline
ArmedTicks == \A t \in Threads : ArmedOf(t)

Expiring(t) == \E c \in Cpus : scan[c].at \in {"fire_load", "fire"} /\ scan[c].i = t

\* Parked threads and the bound of the scan under way.
ParkedTicks ==
    \A t \in Threads : tstate[t] = "BLOCKED" =>
        /\ tick[t] = thr[t].deadline \/ Expiring(t) \/ Wakers[t] # {}
        /\ tick[t] # 0 => /\ NoScan => next <= tick[t]
                          /\ \A c \in Cpus :
                                /\ scan[c].at \in SlotSteps \cup {"tick"} /\ t < scan[c].i
                                      => scan[c].next <= tick[t]
                                /\ scan[c].at = "publish" => scan[c].next <= tick[t]

\* What a scan has read is still so.
ScanReads ==
    \A c \in Cpus :
        /\ scan[c].at = "state" => scan[c].d = tick[scan[c].i] /\ scan[c].d # 0
        /\ scan[c].at = "clear" => tstate[scan[c].i] # "BLOCKED"
        /\ scan[c].at \in {"expire", "fire_load", "fire"} =>
              /\ tstate[scan[c].i] = "BLOCKED"
              /\ scan[c].d = thr[scan[c].i].deadline /\ scan[c].d # 0 /\ scan[c].d <= scan[c].now
        /\ scan[c].at = "fire" => scan[c].ev = wait_event[scan[c].i]

UInv == ~smp => Alone /\ ArmedTicks /\ ParkedTicks /\ ScanReads

IInv == TInv /\ LInv /\ FInv /\ UInv

-----------------------------------------------------------------------------
(* Types. *)

\* What the records of a thread and of a scan are.
LEMMA Locals ==
    /\ User \in ThreadLocals /\ Idle \in ScanLocals
    /\ Never \in Nat /\ MaxTick \in Nat /\ NThreads \in Nat /\ Count \in Nat
    /\ 0..MaxTick \subseteq 0..Never /\ Never \in 0..Never
    /\ 0 \in 0..Never /\ 0 \in 0..MaxTick /\ Count \in 0..Count
    /\ NoEvent \notin Futexes /\ NoOne \notin Threads
  BY TimedWaitAssumption
  DEF User, Idle, ThreadLocals, ScanLocals, Never, Events, ThreadSteps, ScanSteps, Threads

\* A new call: types.
LEMMA CallType ==
    ASSUME TInv, InProgress, NEW t \in Threads, Call(t)
    PROVE  TInv' /\ InProgress'
  <1>1. ASSUME NEW f \in Futexes, Publish(t, f)
        PROVE  TInv' /\ InProgress'
    <2>1. thr' \in [Threads -> ThreadLocals]
      <3>1. \A u \in Threads : thr[u] \in ThreadLocals
        BY DEF TInv
      <3>2. [User EXCEPT !.at = "publish", !.futex = f] \in ThreadLocals
        BY Locals DEF ThreadLocals, User, ThreadSteps, Events
      <3>3. \A u \in Threads : [thr[u] EXCEPT !.stale = TRUE] \in ThreadLocals
        BY <3>1 DEF ThreadLocals
      <3> QED
        BY <1>1, <3>1, <3>2, <3>3 DEF Publish
    <2>2. TInv'
      BY <1>1, <2>1 DEF Publish, TInv, event
    <2>3. \A u \in Threads : thr'[u].at # "user" => thr'[u].futex \in Futexes
      BY <1>1, <2>1 DEF Publish, InProgress, User, TInv, ThreadLocals
    <2> QED
      BY <1>1, <2>2, <2>3 DEF Publish, InProgress
  <1>2. ASSUME NEW f \in Futexes, NEW ms \in Timeouts, FutexWait(t, f, ms)
        PROVE  TInv' /\ InProgress'
    <2>1. ms \in Nat /\ now \in Nat /\ now + ms \in 0..MaxTick
      BY <1>2, TimedWaitAssumption DEF FutexWait, TInv
    <2>2. thr' \in [Threads -> ThreadLocals]
      BY <1>2, <2>1, Locals DEF FutexWait, TInv, ThreadLocals, ThreadSteps, Events
    <2>3. TInv'
      BY <1>2, <2>2 DEF FutexWait, TInv, event
    <2> QED
      BY <1>2, <2>3 DEF FutexWait, InProgress, TInv
  <1> QED
    BY <1>1, <1>2 DEF Call

\* Thread t alone moves, to `at`.
Moves(t, at) == /\ thr' \in [Threads -> ThreadLocals]
                /\ \A u \in Threads \ {t} : thr'[u] = thr[u]
                /\ thr'[t].at = at

\* It stays in its call.
SameCall(t) == /\ thr'[t].futex = thr[t].futex
               /\ thr'[t].deadline = thr[t].deadline
               /\ thr'[t].stale = thr[t].stale

\* What each form of step does to the thread's record.
LEMMA ThreadMoves ==
    ASSUME TInv, NEW t \in Threads
    PROVE  /\ \A a \in ThreadSteps : Goto(t, a) => Moves(t, a) /\ SameCall(t)
           /\ \A n \in 0..Never :
                 LowerFrom(t, n) =>
                    /\ SameCall(t)
                    /\ \/ thr[t].deadline < n /\ Moves(t, "arm_cas") /\ thr'[t].cur = n
                       \/ ~(thr[t].deadline < n) /\ Moves(t, "link")
           /\ thr' = [thr EXCEPT ![t].at = "link", ![t].cur = 0] => Moves(t, "link") /\ SameCall(t)
           /\ thr' = [thr EXCEPT ![t] = User] => Moves(t, "user")
           /\ thr' = [thr EXCEPT ![t].at = "wake", ![t].left = Count] =>
                 Moves(t, "wake") /\ SameCall(t) /\ thr'[t].left = Count
  <1> USE Locals
  <1>0. thr \in [Threads -> ThreadLocals] /\ thr[t] \in ThreadLocals
    BY DEF TInv
  <1>1. ASSUME NEW a \in ThreadSteps, Goto(t, a)
        PROVE  Moves(t, a) /\ SameCall(t)
    <2>1. [thr[t] EXCEPT !.at = a] \in ThreadLocals
      BY <1>0 DEF ThreadLocals
    <2> QED
      BY <1>0, <1>1, <2>1 DEF Goto, Moves, SameCall, ThreadLocals
  <1>2. ASSUME NEW n \in 0..Never, thr' = [thr EXCEPT ![t].at = "arm_cas", ![t].cur = n]
        PROVE  Moves(t, "arm_cas") /\ SameCall(t) /\ thr'[t].cur = n
    BY <1>0, <1>2 DEF Moves, SameCall, ThreadLocals, ThreadSteps
  <1>3. ASSUME thr' = [thr EXCEPT ![t].at = "link", ![t].cur = 0]
        PROVE  Moves(t, "link") /\ SameCall(t)
    BY <1>0, <1>3 DEF Moves, SameCall, ThreadLocals, ThreadSteps
  <1>4. ASSUME thr' = [thr EXCEPT ![t] = User]
        PROVE  Moves(t, "user")
    BY <1>0, <1>4 DEF Moves, User
  <1>5. ASSUME thr' = [thr EXCEPT ![t].at = "wake", ![t].left = Count]
        PROVE  Moves(t, "wake") /\ SameCall(t) /\ thr'[t].left = Count
    BY <1>0, <1>5 DEF Moves, SameCall, ThreadLocals, ThreadSteps
  <1> QED
    BY <1>1, <1>2, <1>3, <1>4, <1>5 DEF LowerFrom

\* The same of the two steps of a wake.
LEMMA TakeMoves ==
    ASSUME TInv, NEW t \in Threads, NEW u \in Threads, thr[t].left > 0
    PROVE  thr' = [thr EXCEPT ![t].at = "promote", ![t].left = @ - 1, ![t].who = u] =>
              /\ Moves(t, "promote") /\ SameCall(t)
              /\ thr'[t].left = thr[t].left - 1 /\ thr'[t].who = u
  <1>0. thr \in [Threads -> ThreadLocals] /\ thr[t] \in ThreadLocals
    BY DEF TInv
  <1> DEFINE n == thr[t].left - 1
             r == [thr[t] EXCEPT !.at = "promote", !.left = n, !.who = u]
  <1>1. n \in 0..Count
    BY <1>0, Locals DEF ThreadLocals
  <1> HIDE DEF n
  <1>2. r \in ThreadLocals /\ r.at = "promote" /\ r.left = n /\ r.who = u
        /\ r.futex = thr[t].futex /\ r.deadline = thr[t].deadline /\ r.stale = thr[t].stale
    BY <1>0, <1>1 DEF ThreadLocals, ThreadSteps
  <1>3. ASSUME thr' = [thr EXCEPT ![t].at = "promote", ![t].left = @ - 1, ![t].who = u]
        PROVE  thr' = [thr EXCEPT ![t] = r]
    BY <1>0, <1>3 DEF n, ThreadLocals
  <1> HIDE DEF r
  <1>4. ASSUME thr' = [thr EXCEPT ![t] = r]
        PROVE  /\ Moves(t, "promote") /\ SameCall(t)
               /\ thr'[t].left = n /\ thr'[t].who = u
    BY <1>0, <1>2, <1>4 DEF Moves, SameCall
  <1> QED
    BY <1>3, <1>4 DEF n

LEMMA WokenMoves ==
    ASSUME TInv, NEW t \in Threads, thr' = [thr EXCEPT ![t].at = "wake", ![t].who = NoOne]
    PROVE  Moves(t, "wake") /\ SameCall(t) /\ thr'[t].left = thr[t].left
  <1>0. thr \in [Threads -> ThreadLocals] /\ thr[t] \in ThreadLocals
    BY DEF TInv
  <1> QED
    BY <1>0, Locals DEF Moves, SameCall, ThreadLocals, ThreadSteps

\* Leaving an event: types.
LEMMA DetachType ==
    ASSUME TInv, NEW u \in Threads, NEW f \in Futexes, NEW p \in {"NONE", "OK", "TIMEOUT"},
           Detach(u, f, p)
    PROVE  /\ wait_event' \in [Threads -> Events]
           /\ pend' \in [Threads -> {"NONE", "OK", "TIMEOUT"}]
           /\ wait_list' \in [Futexes -> Seq(Threads)]
  <1>1. Without(wait_list[f], u) \in Seq(Threads)
    BY WithoutProperties DEF TInv
  <1> QED
    BY <1>1 DEF TInv, Detach, Events

\* A promotion: types, and whom it changes.
LEMMA PromoteEffect ==
    ASSUME TInv, NEW u \in Threads, Promote(u)
    PROVE  /\ tstate' \in [Threads -> {"RUNNING", "READY", "BLOCKED"}]
           /\ tstate'[u] # "BLOCKED"
           /\ \A v \in Threads \ {u} : tstate'[v] = tstate[v]
  BY DEF TInv, Promote

\* The step of a thread leaves the rest of InProgress alone.
LEMMA MovesInProgress ==
    ASSUME InProgress, scan' = scan, NEW t \in Threads, NEW a, Moves(t, a),
           a = "user" \/ thr'[t].futex \in Futexes,
           a # "promote" \/ thr'[t].who \in Threads
    PROVE  InProgress'
  BY DEF InProgress, Moves

\* A call goes on: types.
LEMMA AdvanceType ==
    ASSUME TInv, InProgress, NEW t \in Threads, Advance(t)
    PROVE  TInv' /\ InProgress'
  <1> USE Locals
  <1>a. \A a \in ThreadSteps : Moves(t, a) => thr' \in [Threads -> ThreadLocals]
    BY DEF Moves
  <1>b. thr[t].at # "user" => thr[t].futex \in Futexes
    BY DEF InProgress
  <1>1. ASSUME ArmTick(t) PROVE TInv' /\ InProgress'
    <2>1. Moves(t, "arm_seq") /\ SameCall(t)
      BY <1>1, ThreadMoves DEF ArmTick, ThreadSteps
    <2>2. tick' \in [Threads -> 0..MaxTick]
      BY <1>1 DEF ArmTick, TInv, ThreadLocals
    <2>3. TInv'
      BY <1>1, <2>1, <2>2 DEF ArmTick, TInv, event, Moves
    <2> QED
      BY <1>1, <1>b, <2>1, <2>3, MovesInProgress DEF ArmTick, SameCall
  <1>2. ASSUME ArmSeq(t) PROVE TInv' /\ InProgress'
    <2>1. Moves(t, "arm_load") /\ SameCall(t)
      BY <1>2, ThreadMoves DEF ArmSeq, ThreadSteps
    <2>2. TInv'
      BY <1>2, <2>1 DEF ArmSeq, TInv, event, Moves
    <2> QED
      BY <1>2, <1>b, <2>1, <2>2, MovesInProgress DEF ArmSeq, SameCall
  <1>3. ASSUME ArmLoad(t) PROVE TInv' /\ InProgress'
    <2>1. SameCall(t) /\ (Moves(t, "arm_cas") \/ Moves(t, "link"))
      BY <1>3, ThreadMoves DEF ArmLoad, TInv
    <2>2. TInv'
      BY <1>3, <2>1 DEF ArmLoad, TInv, event, Moves
    <2> QED
      BY <1>3, <1>b, <2>1, <2>2, MovesInProgress DEF ArmLoad, SameCall
  <1>4. ASSUME ArmCas(t) PROVE TInv' /\ InProgress'
    <2>1. SameCall(t) /\ (Moves(t, "arm_cas") \/ Moves(t, "link"))
      BY <1>4, ThreadMoves DEF ArmCas, TInv
    <2>2. next' \in 0..Never
      BY <1>4 DEF ArmCas, TInv, ThreadLocals
    <2>3. TInv'
      BY <1>4, <2>1, <2>2 DEF ArmCas, TInv, event, Moves
    <2> QED
      BY <1>4, <1>b, <2>1, <2>3, MovesInProgress DEF ArmCas, SameCall
  <1>5. ASSUME Link(t) PROVE TInv' /\ InProgress'
    <2>1. Moves(t, "block") /\ SameCall(t)
      BY <1>5, ThreadMoves DEF Link, ThreadSteps
    <2>2. ASSUME NEW f \in Futexes
          PROVE  /\ Without(wait_list[f], t) \in Seq(Threads)
                 /\ Append(Without(wait_list[f], t), t) \in Seq(Threads)
      BY WithoutProperties, AppendProperties DEF TInv
    <2>3. wait_list' \in [Futexes -> Seq(Threads)]
      BY <1>5, <2>2 DEF Link
    <2>4. wait_event' \in [Threads -> Events] /\ pend' \in [Threads -> {"NONE", "OK", "TIMEOUT"}]
      BY <1>5, <1>b DEF Link, TInv, Events
    <2>5. TInv'
      BY <1>5, <2>1, <2>3, <2>4 DEF Link, TInv, Moves
    <2> QED
      BY <1>5, <1>b, <2>1, <2>5, MovesInProgress DEF Link, SameCall
  <1>6. ASSUME Block(t) PROVE TInv' /\ InProgress'
    <2>1. Moves(t, "parked") /\ SameCall(t)
      BY <1>6, ThreadMoves DEF Block, ThreadSteps
    <2>2. TInv'
      BY <1>6, <2>1 DEF Block, TInv, event, Moves
    <2> QED
      BY <1>6, <1>b, <2>1, <2>2, MovesInProgress DEF Block, SameCall
  <1>7. ASSUME Resume(t) PROVE TInv' /\ InProgress'
    <2>1. Moves(t, "resumed") /\ SameCall(t)
      BY <1>7, ThreadMoves DEF Resume, ThreadSteps
    <2>2. TInv'
      BY <1>7, <2>1 DEF Resume, TInv, event, Moves
    <2> QED
      BY <1>7, <1>b, <2>1, <2>2, MovesInProgress DEF Resume, SameCall
  <1>8. ASSUME Return(t) PROVE TInv' /\ InProgress'
    <2>1. Moves(t, "user")
      BY <1>8, ThreadMoves DEF Return
    <2>2. TInv'
      BY <1>8, <2>1 DEF Return, TInv, Moves
    <2> QED
      BY <1>8, <2>1, <2>2, MovesInProgress DEF Return
  <1>9. ASSUME FutexWake(t) PROVE TInv' /\ InProgress'
    <2>1. Moves(t, "wake") /\ SameCall(t)
      BY <1>9, ThreadMoves DEF FutexWake
    <2>2. TInv'
      BY <1>9, <2>1 DEF FutexWake, TInv, event, Moves
    <2> QED
      BY <1>9, <1>b, <2>1, <2>2, MovesInProgress DEF FutexWake, SameCall
  <1>10. ASSUME WakeOne(t) PROVE TInv' /\ InProgress'
    <2> DEFINE f == thr[t].futex
               u == Head(wait_list[f])
    <2>2. f \in Futexes /\ u \in Threads
      <3>1. f \in Futexes /\ wait_list[f] \in Seq(Threads) /\ wait_list[f] # << >>
        BY <1>10, <1>b DEF WakeOne, TInv
      <3> QED
        BY <3>1, TailElems
    <2>3. /\ Detach(u, f, "OK") /\ tick' = [tick EXCEPT ![u] = 0] /\ thr[t].left > 0
          /\ thr' = [thr EXCEPT ![t].at = "promote", ![t].left = @ - 1, ![t].who = u]
      BY <1>10 DEF WakeOne
    <2> HIDE DEF f, u
    <2>1. Moves(t, "promote") /\ SameCall(t) /\ thr'[t].who = u
      BY <2>2, <2>3, TakeMoves
    <2>a. /\ wait_event' \in [Threads -> Events]
          /\ pend' \in [Threads -> {"NONE", "OK", "TIMEOUT"}]
          /\ wait_list' \in [Futexes -> Seq(Threads)]
      BY <2>2, <2>3, DetachType
    <2>b. tick' \in [Threads -> 0..MaxTick]
      BY <2>3 DEF TInv
    <2>c. UNCHANGED <<smp, now, next, armed, tstate, lock, scan>>
      BY <1>10 DEF WakeOne
    <2>4. TInv'
      BY <2>1, <2>a, <2>b, <2>c DEF TInv, Moves
    <2> QED
      BY <1>10, <1>b, <2>1, <2>2, <2>4, MovesInProgress DEF WakeOne, SameCall
  <1>12. ASSUME WakePromote(t) PROVE TInv' /\ InProgress'
    <2>1. Moves(t, "wake") /\ SameCall(t)
      BY <1>12, WokenMoves DEF WakePromote
    <2>2. thr[t].who \in Threads /\ Promote(thr[t].who)
      BY <1>12 DEF WakePromote, InProgress
    <2>3. tstate' \in [Threads -> {"RUNNING", "READY", "BLOCKED"}]
      BY <2>2, PromoteEffect
    <2>4. TInv'
      BY <1>12, <2>1, <2>3 DEF WakePromote, TInv, event, Moves
    <2> QED
      BY <1>12, <1>b, <2>1, <2>4, MovesInProgress DEF WakePromote, SameCall
  <1>11. ASSUME WakeDone(t) PROVE TInv' /\ InProgress'
    <2>1. Moves(t, "user")
      BY <1>11, ThreadMoves DEF WakeDone
    <2>2. TInv'
      BY <1>11, <2>1 DEF WakeDone, TInv, event, Moves
    <2> QED
      BY <1>11, <2>1, <2>2, MovesInProgress DEF WakeDone
  <1> QED
    BY <1>1, <1>2, <1>3, <1>4, <1>5, <1>6, <1>7, <1>8, <1>9, <1>10, <1>11, <1>12 DEF Advance

\* CPU c alone moves, to `at`; the slot it works on, and what its scan started with.
ScanMoves(c, at) == /\ scan' \in [Cpus -> ScanLocals]
                    /\ \A d \in Cpus \ {c} : scan'[d] = scan[d]
                    /\ scan'[c].at = at
SameSlot(c) == scan'[c].i = scan[c].i
SameStart(c) == scan'[c].now = scan[c].now /\ scan'[c].observed = scan[c].observed
SameScan(c) == SameStart(c) /\ scan'[c].next = scan[c].next
SameRead(c) == SameSlot(c) /\ SameScan(c) /\ scan'[c].d = scan[c].d

\* What each step of a scan does to the scan's record.
LEMMA ScanStepMoves ==
    ASSUME TInv, InProgress, NEW c \in Cpus
    PROVE  /\ NextSlot(c) /\ scan[c].i <= NThreads =>
                 ScanMoves(c, "tick") /\ SameScan(c) /\ scan'[c].i = scan[c].i + 1
           /\ Check(c) => /\ ScanMoves(c, "seq") /\ scan'[c].now = now
                          /\ scan'[c].observed = next /\ scan'[c].i = 0
           /\ LoadTick(c) => \/ /\ tick[scan[c].i] = 0 /\ NextSlot(c)
                             \/ /\ tick[scan[c].i] # 0 /\ ScanMoves(c, "state")
                                /\ SameSlot(c) /\ SameScan(c) /\ scan'[c].d = tick[scan[c].i]
           /\ TestState(c) =>
                 \/ /\ tstate[scan[c].i] # "BLOCKED" /\ ScanMoves(c, "clear") /\ SameRead(c)
                 \/ /\ tstate[scan[c].i] = "BLOCKED" /\ scan[c].d <= scan[c].now
                    /\ ScanMoves(c, "expire") /\ SameRead(c)
                 \/ /\ tstate[scan[c].i] = "BLOCKED" /\ ~(scan[c].d <= scan[c].now)
                    /\ ScanMoves(c, "tick") /\ SameStart(c) /\ scan'[c].i = scan[c].i + 1
                    /\ scan'[c].next <= scan[c].next /\ scan'[c].next <= scan[c].d
           /\ Expire(c) => ScanMoves(c, "fire_load") /\ SameRead(c)
           /\ FireLoad(c) =>
                 \/ wait_event[scan[c].i] = NoEvent /\ NextSlot(c)
                 \/ /\ wait_event[scan[c].i] \in Futexes /\ ScanMoves(c, "fire")
                    /\ SameRead(c) /\ scan'[c].ev = wait_event[scan[c].i]
           /\ scan' = [scan EXCEPT ![c].at = "promote"] => ScanMoves(c, "promote") /\ SameRead(c)
           /\ ReloadSeq(c) => \/ c \in armed /\ ScanMoves(c, "idle")
                              \/ c \notin armed /\ ScanMoves(c, "publish") /\ SameScan(c)
           /\ PublishNext(c) => ScanMoves(c, "idle")
  <1> USE Locals
  <1>0. scan \in [Cpus -> ScanLocals] /\ scan[c] \in ScanLocals
    BY DEF TInv
  <1>t. scan[c].at \in SlotSteps => scan[c].i \in Threads
    BY DEF InProgress
  <1>1. ASSUME NextSlot(c), scan[c].i <= NThreads
        PROVE  ScanMoves(c, "tick") /\ SameScan(c) /\ scan'[c].i = scan[c].i + 1
    <2>1. scan[c].i + 1 \in 0..NThreads + 1
      BY <1>0, <1>1 DEF ScanLocals
    <2> QED
      BY <1>0, <1>1, <2>1 DEF NextSlot, ScanMoves, SameScan, SameStart, ScanLocals, ScanSteps, Events
  <1>2. ASSUME Check(c)
        PROVE  /\ ScanMoves(c, "seq") /\ scan'[c].now = now
               /\ scan'[c].observed = next /\ scan'[c].i = 0
    <2>1. [Idle EXCEPT !.at = "seq", !.now = now, !.observed = next, !.next = Never] \in ScanLocals
      BY DEF Idle, ScanLocals, ScanSteps, TInv, Events
    <2> QED
      BY <1>0, <1>2, <2>1 DEF Check, ScanMoves, Idle
  <1>3. ASSUME LoadTick(c)
        PROVE  \/ /\ tick[scan[c].i] = 0 /\ NextSlot(c)
               \/ /\ tick[scan[c].i] # 0 /\ ScanMoves(c, "state")
                  /\ SameSlot(c) /\ SameScan(c) /\ scan'[c].d = tick[scan[c].i]
    <2>1. scan[c].i \in Threads
      BY <1>0, <1>3 DEF LoadTick, InProgress, ScanLocals, Threads
    <2>2. tick[scan[c].i] \in 0..MaxTick
      BY <2>1 DEF TInv
    <2> QED
      BY <1>0, <1>3, <2>2
      DEF LoadTick, ScanMoves, SameSlot, SameScan, SameStart, ScanLocals, ScanSteps
  <1>4. ASSUME NEW a \in ScanSteps, scan' = [scan EXCEPT ![c].at = a]
        PROVE  ScanMoves(c, a) /\ SameRead(c)
    BY <1>0, <1>4 DEF ScanMoves, SameRead, SameSlot, SameScan, SameStart, ScanLocals
  <1>5. ASSUME TestState(c)
        PROVE  \/ /\ tstate[scan[c].i] # "BLOCKED" /\ ScanMoves(c, "clear") /\ SameRead(c)
               \/ /\ tstate[scan[c].i] = "BLOCKED" /\ scan[c].d <= scan[c].now
                  /\ ScanMoves(c, "expire") /\ SameRead(c)
               \/ /\ tstate[scan[c].i] = "BLOCKED" /\ ~(scan[c].d <= scan[c].now)
                  /\ ScanMoves(c, "tick") /\ SameStart(c) /\ scan'[c].i = scan[c].i + 1
                  /\ scan'[c].next <= scan[c].next /\ scan'[c].next <= scan[c].d
    <2> DEFINE d == scan[c].d
               b == tstate[scan[c].i] = "BLOCKED"
               n == Min2(scan[c].next, d)
    <2>1. CASE ~b /\ scan' = [scan EXCEPT ![c].at = "clear"]
      BY <1>4, <2>1 DEF ScanSteps
    <2>2. CASE b /\ d <= scan[c].now /\ scan' = [scan EXCEPT ![c].at = "expire"]
      BY <1>4, <2>2 DEF ScanSteps
    <2>3. CASE b /\ ~(d <= scan[c].now)
               /\ scan' = [scan EXCEPT ![c].at = "tick", ![c].i = @ + 1, ![c].d = 0,
                                       ![c].next = Min2(@, d)]
      <3>1. n \in 0..Never /\ n <= scan[c].next /\ n <= d
        BY <1>0 DEF Min2, ScanLocals
      <3>2. scan[c].i + 1 \in 0..NThreads + 1
        BY <1>5, <1>t DEF TestState, SlotSteps, Threads
      <3>3. scan' = [scan EXCEPT ![c].at = "tick", ![c].i = @ + 1, ![c].d = 0, ![c].next = n]
        BY <2>3
      <3> HIDE DEF n, d
      <3>4. ScanMoves(c, "tick") /\ SameStart(c) /\ scan'[c].i = scan[c].i + 1 /\ scan'[c].next = n
        BY <1>0, <3>1, <3>2, <3>3 DEF ScanMoves, SameStart, ScanLocals, ScanSteps
      <3> QED
        BY <2>3, <3>1, <3>4 DEF d
    <2> QED
      BY <1>5, <2>1, <2>2, <2>3 DEF TestState, Due
  <1>6. ASSUME FireLoad(c)
        PROVE  \/ wait_event[scan[c].i] = NoEvent /\ NextSlot(c)
               \/ /\ wait_event[scan[c].i] \in Futexes /\ ScanMoves(c, "fire")
                  /\ SameRead(c) /\ scan'[c].ev = wait_event[scan[c].i]
    <2>1. wait_event[scan[c].i] \in Events
      BY <1>6, <1>t DEF FireLoad, SlotSteps, TInv
    <2>2. ASSUME NEW e \in Events, scan' = [scan EXCEPT ![c].at = "fire", ![c].ev = e]
          PROVE  ScanMoves(c, "fire") /\ SameRead(c) /\ scan'[c].ev = e
      BY <1>0, <2>2 DEF ScanMoves, SameRead, SameSlot, SameScan, SameStart, ScanLocals, ScanSteps
    <2> QED
      BY <1>6, <2>1, <2>2 DEF FireLoad, Events
  <1>7. ASSUME ReloadSeq(c)
        PROVE  \/ c \in armed /\ ScanMoves(c, "idle")
               \/ c \notin armed /\ ScanMoves(c, "publish") /\ SameScan(c)
    <2>1. CASE c \in armed
      BY <1>0, <1>7, <2>1 DEF ReloadSeq, ScanMoves, Idle
    <2>2. CASE c \notin armed
      BY <1>4, <1>7, <2>2 DEF ReloadSeq, ScanSteps, SameRead
    <2> QED
      BY <2>1, <2>2
  <1>8. ASSUME PublishNext(c) PROVE ScanMoves(c, "idle")
    BY <1>0, <1>8 DEF PublishNext, ScanMoves, Idle
  <1>9. Expire(c) => ScanMoves(c, "fire_load") /\ SameRead(c)
    BY <1>4 DEF Expire, ScanSteps
  <1>10. scan' = [scan EXCEPT ![c].at = "promote"] => ScanMoves(c, "promote") /\ SameRead(c)
    BY <1>4 DEF ScanSteps
  <1> QED
    BY <1>1, <1>2, <1>3, <1>5, <1>6, <1>7, <1>8, <1>9, <1>10

\* A step of a scan and InProgress.
LEMMA ScanInProgress ==
    ASSUME InProgress, thr' = thr, NEW c \in Cpus, NEW a \in ScanSteps, ScanMoves(c, a),
           a \in SlotSteps => scan'[c].i \in Threads,
           a = "tick" => scan'[c].i >= 1,
           a = "seq" => scan'[c].i = 0,
           a = "fire" => scan'[c].ev \in Futexes
    PROVE  InProgress'
  BY DEF InProgress, ScanMoves

\* A scan goes on: types.
LEMMA ScanType ==
    ASSUME TInv, InProgress, NEW c \in Cpus, Scan(c)
    PROVE  TInv' /\ InProgress'
  <1> USE Locals DEF ScanSteps
  <1>0. /\ scan[c].i \in Nat
        /\ scan[c].at \in SlotSteps => scan[c].i \in Threads /\ scan[c].i <= NThreads
        /\ scan[c].at = "tick" => scan[c].i >= 1
    BY DEF TInv, InProgress, ScanLocals, Threads
  <1>n. ASSUME NextSlot(c), scan[c].i <= NThreads, thr' = thr
        PROVE  ScanMoves(c, "tick") /\ InProgress'
    <2>1. ScanMoves(c, "tick") /\ scan'[c].i >= 1
      BY <1>0, <1>n, ScanStepMoves
    <2> QED
      BY <1>n, <2>1, ScanInProgress DEF SlotSteps
  <1>1. ASSUME Check(c) PROVE TInv' /\ InProgress'
    <2>1. ScanMoves(c, "seq") /\ scan'[c].i = 0 /\ thr' = thr
      BY <1>1, ScanStepMoves DEF Check
    <2>2. TInv'
      BY <1>1, <2>1 DEF Check, TInv, event, ScanMoves
    <2> QED
      BY <2>1, <2>2, ScanInProgress DEF SlotSteps
  <1>2. ASSUME LoadSeq(c) PROVE TInv' /\ InProgress'
    <2>1. scan[c].i <= NThreads /\ NextSlot(c) /\ thr' = thr
      BY <1>2 DEF LoadSeq, InProgress
    <2> QED
      BY <1>2, <1>n, <2>1 DEF LoadSeq, TInv, event, ScanMoves
  <1>3. ASSUME LoadTick(c) PROVE TInv' /\ InProgress'
    <2>1. scan[c].i \in Threads /\ scan[c].i <= NThreads /\ thr' = thr
      BY <1>0, <1>3 DEF LoadTick, Threads
    <2>2. \/ NextSlot(c)
          \/ ScanMoves(c, "state") /\ scan'[c].i = scan[c].i
      BY <1>3, ScanStepMoves DEF SameSlot
    <2>3. InProgress' /\ scan' \in [Cpus -> ScanLocals]
      BY <1>n, <2>1, <2>2, ScanInProgress DEF ScanMoves
    <2> QED
      BY <1>3, <2>3 DEF LoadTick, TInv, event
  <1>4. ASSUME TestState(c) PROVE TInv' /\ InProgress'
    <2>1. scan[c].i \in Threads /\ thr' = thr
      BY <1>0, <1>4 DEF TestState, SlotSteps
    <2>2. \/ ScanMoves(c, "clear") /\ scan'[c].i = scan[c].i
          \/ ScanMoves(c, "expire") /\ scan'[c].i = scan[c].i
          \/ ScanMoves(c, "tick") /\ scan'[c].i = scan[c].i + 1
      BY <1>4, ScanStepMoves DEF SameRead, SameSlot
    <2>3. scan[c].i + 1 >= 1
      BY <1>0
    <2>4. InProgress' /\ scan' \in [Cpus -> ScanLocals]
      BY <2>1, <2>2, <2>3, ScanInProgress DEF ScanMoves, SlotSteps
    <2> QED
      BY <1>4, <2>4 DEF TestState, TInv, event
  <1>5. ASSUME Clear(c) PROVE TInv' /\ InProgress'
    <2>1. scan[c].i \in Threads /\ scan[c].i <= NThreads /\ thr' = thr /\ NextSlot(c)
      BY <1>0, <1>5 DEF Clear, SlotSteps
    <2> QED
      BY <1>5, <1>n, <2>1 DEF Clear, TInv, event, ScanMoves
  <1>6. ASSUME Expire(c) PROVE TInv' /\ InProgress'
    <2>1. ScanMoves(c, "fire_load") /\ scan'[c].i \in Threads /\ thr' = thr
      BY <1>0, <1>6, ScanStepMoves DEF Expire, SlotSteps, SameRead, SameSlot
    <2>2. TInv'
      BY <1>6, <2>1 DEF Expire, TInv, event, ScanMoves
    <2> QED
      BY <2>1, <2>2, ScanInProgress
  <1>7. ASSUME FireLoad(c) PROVE TInv' /\ InProgress'
    <2>1. scan[c].i \in Threads /\ scan[c].i <= NThreads /\ thr' = thr
      BY <1>0, <1>7 DEF FireLoad, SlotSteps
    <2>2. \/ NextSlot(c)
          \/ ScanMoves(c, "fire") /\ scan'[c].i = scan[c].i /\ scan'[c].ev \in Futexes
      BY <1>7, ScanStepMoves DEF SameRead, SameSlot
    <2>3. InProgress' /\ scan' \in [Cpus -> ScanLocals]
      BY <1>n, <2>1, <2>2, ScanInProgress DEF ScanMoves
    <2> QED
      BY <1>7, <2>3 DEF FireLoad, TInv, event
  <1>8. ASSUME Fire(c) PROVE TInv' /\ InProgress'
    <2>1. /\ scan[c].i \in Threads /\ scan[c].i <= NThreads /\ thr' = thr
          /\ scan[c].ev \in Futexes
      BY <1>0, <1>8 DEF Fire, SlotSteps, InProgress
    <2>3. \/ NextSlot(c)
          \/ ScanMoves(c, "promote") /\ scan'[c].i = scan[c].i
      BY <1>8, ScanStepMoves DEF Fire, SameRead, SameSlot
    <2>4. InProgress' /\ scan' \in [Cpus -> ScanLocals]
      BY <1>n, <2>1, <2>3, ScanInProgress DEF ScanMoves
    <2>2. /\ wait_event' \in [Threads -> Events]
          /\ pend' \in [Threads -> {"NONE", "OK", "TIMEOUT"}]
          /\ wait_list' \in [Futexes -> Seq(Threads)]
      <3>1. CASE Detach(scan[c].i, scan[c].ev, "TIMEOUT")
        BY <2>1, <3>1, DetachType
      <3>2. CASE UNCHANGED event
        BY <3>2 DEF event, TInv
      <3> QED
        BY <1>8, <3>1, <3>2 DEF Fire
    <2> QED
      BY <1>8, <2>1, <2>2, <2>4 DEF Fire, TInv
  <1>11. ASSUME FirePromote(c) PROVE TInv' /\ InProgress'
    <2>1. /\ scan[c].i \in Threads /\ scan[c].i <= NThreads /\ thr' = thr /\ NextSlot(c)
          /\ Promote(scan[c].i)
      BY <1>0, <1>11 DEF FirePromote, SlotSteps
    <2>2. tstate' \in [Threads -> {"RUNNING", "READY", "BLOCKED"}]
      BY <2>1, PromoteEffect
    <2> QED
      BY <1>11, <1>n, <2>1, <2>2 DEF FirePromote, TInv, event, ScanMoves
  <1>9. ASSUME ReloadSeq(c) PROVE TInv' /\ InProgress'
    <2>1. thr' = thr /\ (ScanMoves(c, "idle") \/ ScanMoves(c, "publish"))
      BY <1>9, ScanStepMoves DEF ReloadSeq
    <2>2. TInv'
      BY <1>9, <2>1 DEF ReloadSeq, TInv, event, ScanMoves
    <2> QED
      BY <2>1, <2>2, ScanInProgress DEF SlotSteps
  <1>10. ASSUME PublishNext(c) PROVE TInv' /\ InProgress'
    <2>1. thr' = thr /\ ScanMoves(c, "idle")
      BY <1>10, ScanStepMoves DEF PublishNext
    <2>2. TInv'
      BY <1>10, <2>1 DEF PublishNext, TInv, event, ScanMoves, ScanLocals
    <2> QED
      BY <2>1, <2>2, ScanInProgress DEF SlotSteps
  <1> QED
    BY <1>1, <1>2, <1>3, <1>4, <1>5, <1>6, <1>7, <1>8, <1>9, <1>10, <1>11 DEF Scan

-----------------------------------------------------------------------------
(* Locks and lists. *)

\* Leaving an event keeps every list in order.
LEMMA DetachLinked ==
    ASSUME TInv, Linked, NEW u \in Threads, NEW f \in Futexes, NEW p, wait_event[u] = f,
           Detach(u, f, p)
    PROVE  /\ Linked'
           /\ \A v \in Threads \ {u} : wait_event'[v] = wait_event[v] /\ pend'[v] = pend[v]
           /\ wait_event'[u] = NoEvent /\ pend'[u] = p
           /\ \A g \in Futexes \ {f} : wait_list'[g] = wait_list[g]
           /\ Len(wait_list[f]) \in Nat /\ Len(wait_list'[f]) = Len(wait_list[f]) - 1
  <1> DEFINE w == wait_list[f]
             r == Without(w, u)
  <1>1. w \in Seq(Threads) /\ NoRepeats(w) /\ \A g \in Futexes : On(g) = Elems(wait_list[g])
    BY DEF TInv, Linked, On, Elems
  <1>2. u \in Elems(w)
    BY <1>1 DEF Linked
  <1>3. NoRepeats(r) /\ Elems(r) = Elems(w) \ {u} /\ Len(w) \in Nat /\ Len(r) = Len(w) - 1
        /\ r \in Seq(Threads)
    BY <1>1, <1>2, WithoutProperties
  <1> HIDE DEF w, r
  <1>4. wait_list' = [wait_list EXCEPT ![f] = r]
    BY DEF Detach, w, r
  <1>5. wait_list'[f] = r /\ \A g \in Futexes \ {f} : wait_list'[g] = wait_list[g]
    BY <1>4 DEF TInv
  <1>6. /\ \A v \in Threads \ {u} : wait_event'[v] = wait_event[v] /\ pend'[v] = pend[v]
        /\ wait_event'[u] = NoEvent /\ pend'[u] = p
    BY DEF Detach, TInv
  <1>7. ASSUME NEW g \in Futexes PROVE On(g)' = Elems(wait_list'[g])
    <2>1. wait_list'[g] \in Seq(Threads)
      BY <1>3, <1>5 DEF TInv
    <2> QED
      BY <2>1 DEF On, Elems
  <1>8. Linked'
    <2> SUFFICES ASSUME NEW g \in Futexes
                 PROVE  /\ NoRepeats(wait_list'[g])
                        /\ \A t \in Threads : t \in On(g)' <=> wait_event'[t] = g
      BY DEF Linked
    <2>1. CASE g = f
      <3>1. On(g)' = On(f) \ {u}
        BY <1>1, <1>3, <1>5, <1>7, <2>1 DEF w
      <3> QED
        BY <1>3, <1>5, <1>6, <2>1, <3>1, Locals DEF Linked
    <2>2. CASE g # f
      <3>1. On(g)' = On(g)
        BY <1>1, <1>5, <1>7, <2>2
      <3> QED
        BY <1>5, <1>6, <2>2, <3>1, Locals DEF Linked
    <2> QED
      BY <2>1, <2>2
  <1> QED
    BY <1>3, <1>5, <1>6, <1>8 DEF w

\* The other threads stay where they are.
OthersStay(t) == \A u \in Threads \ {t} : /\ thr'[u].at = thr[u].at /\ thr'[u].futex = thr[u].futex
                                           /\ thr'[u].who = thr[u].who

\* A step that neither takes nor releases a lock.
LEMMA LockKept ==
    ASSUME TInv, LockHeld, NEW t \in Threads, OthersStay(t), lock' = lock,
           thr'[t].at \in LockSteps <=> thr[t].at \in LockSteps,
           thr[t].at \in LockSteps => thr'[t].futex = thr[t].futex
    PROVE  LockHeld'
  <1>1. \A u \in Threads : /\ thr'[u].at \in LockSteps <=> thr[u].at \in LockSteps
                           /\ thr[u].at \in LockSteps => thr'[u].futex = thr[u].futex
    BY DEF OthersStay
  <1>2. \A f \in Futexes : lock[f] # NoOne => lock[f] \in Threads
    BY DEF TInv
  <1> QED
    BY <1>1, <1>2 DEF LockHeld

\* A step that takes a free lock.
LEMMA LockTaken ==
    ASSUME TInv, InProgress, LockHeld, NEW t \in Threads, NEW f \in Futexes, OthersStay(t),
           lock[f] = NoOne, lock' = [lock EXCEPT ![f] = t], thr'[t].at \in LockSteps,
           thr'[t].futex = f, thr[t].at \notin LockSteps
    PROVE  LockHeld'
  <1>1. \A g \in Futexes : lock'[g] = IF g = f THEN t ELSE lock[g]
    BY DEF TInv
  <1>2. \A g \in Futexes : lock[g] # t
    BY Locals DEF LockHeld
  <1>3. ASSUME NEW u \in Threads, thr'[u].at \in LockSteps PROVE lock'[thr'[u].futex] = u
    <2>1. CASE u = t
      BY <1>1, <2>1
    <2>2. CASE u # t
      <3>1. thr'[u].futex = thr[u].futex /\ thr[u].at \in LockSteps
        BY <1>3, <2>2 DEF OthersStay
      <3>2. lock[thr[u].futex] = u /\ thr[u].futex \in Futexes
        BY <3>1 DEF LockHeld, InProgress, LockSteps
      <3> QED
        BY <1>1, <3>1, <3>2, Locals
    <2> QED
      BY <2>1, <2>2
  <1>4. ASSUME NEW g \in Futexes, lock'[g] # NoOne
        PROVE  thr'[lock'[g]].at \in LockSteps /\ thr'[lock'[g]].futex = g
    <2>1. CASE g = f
      BY <1>1, <2>1
    <2>2. CASE g # f
      <3>1. lock'[g] = lock[g] /\ lock[g] \in Threads /\ lock[g] # t
        BY <1>1, <1>2, <1>4, <2>2 DEF TInv
      <3>2. thr[lock[g]].at \in LockSteps /\ thr[lock[g]].futex = g
        BY <1>4, <3>1 DEF LockHeld
      <3> QED
        BY <3>1, <3>2 DEF OthersStay
    <2> QED
      BY <2>1, <2>2
  <1> QED
    BY <1>3, <1>4 DEF LockHeld

\* A step that gives a lock back.
LEMMA LockReleased ==
    ASSUME TInv, InProgress, LockHeld, NEW t \in Threads, OthersStay(t), thr[t].at \in LockSteps,
           lock' = [lock EXCEPT ![thr[t].futex] = NoOne], thr'[t].at \notin LockSteps
    PROVE  LockHeld'
  <1>1. thr[t].futex \in Futexes /\ lock[thr[t].futex] = t
    BY DEF InProgress, LockHeld, LockSteps
  <1>2. \A f \in Futexes : lock'[f] = IF f = thr[t].futex THEN NoOne ELSE lock[f]
    BY <1>1 DEF TInv
  <1>3. ASSUME NEW u \in Threads, thr'[u].at \in LockSteps PROVE lock'[thr'[u].futex] = u
    <2>1. u # t /\ thr'[u].futex = thr[u].futex /\ thr[u].at \in LockSteps
      BY <1>3 DEF OthersStay
    <2>2. lock[thr[u].futex] = u /\ thr[u].futex \in Futexes
      BY <2>1 DEF LockHeld, InProgress, LockSteps
    <2> QED
      BY <1>1, <1>2, <2>1, <2>2
  <1>4. ASSUME NEW f \in Futexes, lock'[f] # NoOne
        PROVE  thr'[lock'[f]].at \in LockSteps /\ thr'[lock'[f]].futex = f
    <2>1. f # thr[t].futex /\ lock'[f] = lock[f] /\ lock[f] \in Threads
      BY <1>2, <1>4 DEF TInv
    <2>2. thr[lock[f]].at \in LockSteps /\ thr[lock[f]].futex = f
      BY <1>4, <2>1 DEF LockHeld
    <2> QED
      BY <2>1, <2>2 DEF OthersStay
  <1> QED
    BY <1>3, <1>4 DEF LockHeld

\* A thread is in hand when it has a waker.
LEMMA InHandIs == \A v \in Threads : InHand(v) <=> Wakers[v] # {}
  BY DEF InHand, Wakers, Hand

\* A thread that neither takes a waiter off a list nor wakes one.
LEMMA ThreadSameHands ==
    ASSUME NEW t \in Threads, OthersStay(t), scan' = scan,
           thr[t].at # "promote", thr'[t].at # "promote"
    PROVE  Wakers' = Wakers
  BY DEF Wakers, OthersStay

\* A thread that takes u off a list, and one that wakes it.
LEMMA ThreadTakes ==
    ASSUME NEW t \in Threads, NEW u \in Threads, OthersStay(t), scan' = scan,
           thr[t].at # "promote", thr'[t].at = "promote", thr'[t].who = u
    PROVE  Wakers' = [Wakers EXCEPT ![u] = @ \cup {t}] /\ t \in Hand
  <1>1. t \notin Cpus
    BY TimedWaitAssumption DEF Threads
  <1>2. ASSUME NEW v \in Threads
        PROVE  Wakers'[v] = IF v = u THEN Wakers[v] \cup {t} ELSE Wakers[v]
    BY <1>1 DEF Wakers, OthersStay, Hand
  <1>3. Wakers = [v \in Threads |-> Wakers[v]] /\ Wakers' = [v \in Threads |-> Wakers'[v]]
    BY DEF Wakers
  <1>4. t \in Hand
    BY DEF Hand
  <1> QED
    BY <1>2, <1>3, <1>4

LEMMA ThreadGives ==
    ASSUME NEW t \in Threads, NEW u \in Threads, OthersStay(t), scan' = scan,
           thr[t].at = "promote", thr[t].who = u, thr'[t].at # "promote"
    PROVE  Wakers' = [Wakers EXCEPT ![u] = @ \ {t}] /\ t \in Wakers[u]
  <1>1. t \notin Cpus
    BY TimedWaitAssumption DEF Threads
  <1>2. ASSUME NEW v \in Threads
        PROVE  Wakers'[v] = IF v = u THEN Wakers[v] \ {t} ELSE Wakers[v]
    BY <1>1 DEF Wakers, OthersStay, Hand
  <1>3. Wakers = [v \in Threads |-> Wakers[v]] /\ Wakers' = [v \in Threads |-> Wakers'[v]]
    BY DEF Wakers
  <1>4. t \in Wakers[u]
    BY DEF Wakers, Hand
  <1> QED
    BY <1>2, <1>3, <1>4

\* The same of a scan.
LEMMA ScanSameHands ==
    ASSUME NEW c \in Cpus, NEW a, ScanMoves(c, a), thr' = thr,
           scan[c].at # "promote", a # "promote"
    PROVE  Wakers' = Wakers
  BY DEF Wakers, ScanMoves

LEMMA ScanTakes ==
    ASSUME NEW c \in Cpus, NEW u \in Threads, ScanMoves(c, "promote"), SameSlot(c), thr' = thr,
           scan[c].at # "promote", scan[c].i = u
    PROVE  Wakers' = [Wakers EXCEPT ![u] = @ \cup {c}] /\ c \in Hand
  <1>1. c \notin Threads
    BY TimedWaitAssumption DEF Threads
  <1>2. ASSUME NEW v \in Threads
        PROVE  Wakers'[v] = IF v = u THEN Wakers[v] \cup {c} ELSE Wakers[v]
    BY <1>1 DEF Wakers, ScanMoves, SameSlot, Hand
  <1>3. Wakers = [v \in Threads |-> Wakers[v]] /\ Wakers' = [v \in Threads |-> Wakers'[v]]
    BY DEF Wakers
  <1>4. c \in Hand
    BY DEF Hand
  <1> QED
    BY <1>2, <1>3, <1>4

LEMMA ScanGives ==
    ASSUME NEW c \in Cpus, NEW u \in Threads, ScanMoves(c, "tick"), thr' = thr,
           scan[c].at = "promote", scan[c].i = u
    PROVE  Wakers' = [Wakers EXCEPT ![u] = @ \ {c}] /\ c \in Wakers[u]
  <1>1. c \notin Threads
    BY TimedWaitAssumption DEF Threads
  <1>2. ASSUME NEW v \in Threads
        PROVE  Wakers'[v] = IF v = u THEN Wakers[v] \ {c} ELSE Wakers[v]
    BY <1>1 DEF Wakers, ScanMoves, Hand
  <1>3. Wakers = [v \in Threads |-> Wakers[v]] /\ Wakers' = [v \in Threads |-> Wakers'[v]]
    BY DEF Wakers
  <1>4. c \in Wakers[u]
    BY DEF Wakers, Hand
  <1> QED
    BY <1>2, <1>3, <1>4

\* A step that leaves the threads in hand off the lists and blocked.
LEMMA HandsQuiet ==
    ASSUME Hands, Wakers' = Wakers,
           \A v \in Threads : (tstate[v] = "BLOCKED" /\ wait_event[v] = NoEvent)
                                 => tstate'[v] = "BLOCKED" /\ wait_event'[v] = NoEvent
    PROVE  Hands'
  BY DEF Hands

\* Hand w takes the blocked thread u off its list.
LEMMA HandTaken ==
    ASSUME Hands, NEW w \in Hand, NEW u \in Threads, wait_event[u] # NoEvent,
           tstate[u] = "BLOCKED", tstate' = tstate, wait_event'[u] = NoEvent,
           \A v \in Threads \ {u} : wait_event'[v] = wait_event[v],
           Wakers' = [Wakers EXCEPT ![u] = @ \cup {w}]
    PROVE  /\ Hands' /\ Wakers'[u] # {}
           /\ \A v \in Threads : Wakers[v] # {} => Wakers'[v] # {}
  <1>1. Wakers[u] = {}
    BY DEF Hands
  <1>2. Wakers'[u] = {w} /\ \A v \in Threads \ {u} : Wakers'[v] = Wakers[v]
    BY <1>1 DEF Wakers
  <1> QED
    BY <1>1, <1>2 DEF Hands

\* Hand w lets the thread u it held go.
LEMMA HandGiven ==
    ASSUME Hands, NEW w, NEW u \in Threads, w \in Wakers[u], wait_event' = wait_event,
           \A v \in Threads \ {u} : tstate'[v] = tstate[v],
           Wakers' = [Wakers EXCEPT ![u] = @ \ {w}]
    PROVE  /\ Hands' /\ wait_event[u] = NoEvent
           /\ \A v \in Threads \ {u} : Wakers'[v] = Wakers[v]
  <1>1. wait_event[u] = NoEvent /\ Wakers[u] = {w}
    BY DEF Hands
  <1>2. Wakers'[u] = {} /\ \A v \in Threads \ {u} : Wakers'[v] = Wakers[v]
    BY <1>1 DEF Wakers
  <1> QED
    BY <1>1, <1>2 DEF Hands

\* A step of a running thread that touches no event.
LEMMA EventsKept ==
    ASSUME BlockedOnOwn, Linked, Hands, UNCHANGED <<wait_event, wait_list, tstate, scan>>,
           NEW t \in Threads, OthersStay(t), thr[t].at \notin {"parked", "block", "promote"},
           thr'[t].at \notin {"block", "promote"}
    PROVE  Linked' /\ BlockedOnOwn' /\ Hands'
  <1>1. \A f \in Futexes : On(f)' = On(f)
    BY DEF On
  <1>2. Wakers' = Wakers
    BY ThreadSameHands
  <1>3. Hands'
    BY <1>2, HandsQuiet
  <1> QED
    BY <1>1, <1>2, <1>3 DEF BlockedOnOwn, OthersStay, Linked

\* The two ways a step leaves the others in place.
LEMMA MovesStay ==
    ASSUME NEW t \in Threads, NEW a, Moves(t, a)
    PROVE  OthersStay(t) /\ thr'[t].at = a
  BY DEF OthersStay, Moves

\* A new call: locks and lists.
LEMMA CallLinked ==
    ASSUME TInv, LInv, NEW t \in Threads, Call(t)
    PROVE  LInv'
  <1>1. InProgress'
    BY CallType DEF LInv
  <1>2. ASSUME NEW f \in Futexes, Publish(t, f)
        PROVE  LockHeld' /\ Linked' /\ BlockedOnOwn' /\ Hands'
    <2>1. thr[t].at = "user" /\ thr'[t].at = "publish" /\ OthersStay(t)
      BY <1>2 DEF Publish, User, OthersStay, TInv, ThreadLocals
    <2> QED
      BY <1>2, <2>1, LockKept, EventsKept DEF LInv, LockSteps, Publish, event
  <1>3. ASSUME NEW f \in Futexes, NEW ms \in Timeouts, FutexWait(t, f, ms)
        PROVE  LockHeld' /\ Linked' /\ BlockedOnOwn' /\ Hands'
    <2>1. /\ thr[t].at = "user" /\ thr'[t].at \in {"arm_tick", "link"} /\ thr'[t].futex = f
          /\ OthersStay(t)
      BY <1>3 DEF FutexWait, OthersStay, TInv
    <2>2. LockHeld'
      BY <1>3, <2>1, LockTaken DEF LInv, LockSteps, FutexWait
    <2> QED
      BY <1>3, <2>1, <2>2, EventsKept DEF LInv, FutexWait, event
  <1> QED
    BY <1>1, <1>2, <1>3 DEF Call, LInv

\* Joining a list: the thread is on its event's and on no other.
LEMMA LinkLinked ==
    ASSUME TInv, LInv, NEW t \in Threads, Link(t)
    PROVE  /\ Linked'
           /\ wait_event'[t] = thr[t].futex
           /\ \A u \in Threads \ {t} : wait_event'[u] = wait_event[u]
  <1> DEFINE e == thr[t].futex
             r(f) == Without(wait_list[f], t)
  <1>1. e \in Futexes
    BY DEF LInv, InProgress, Link
  <1>2. wait_event'[t] = e /\ \A u \in Threads \ {t} : wait_event'[u] = wait_event[u]
    BY DEF Link, TInv
  <1>3. \A f \in Futexes : wait_list'[f] = IF f = e THEN Append(r(f), t) ELSE r(f)
    BY DEF Link
  <1>4. ASSUME NEW f \in Futexes
        PROVE  /\ r(f) \in Seq(Threads) /\ NoRepeats(r(f)) /\ Elems(r(f)) = On(f) \ {t}
               /\ Append(r(f), t) \in Seq(Threads) /\ NoRepeats(Append(r(f), t))
               /\ Elems(Append(r(f), t)) = On(f) \cup {t}
    <2>1. wait_list[f] \in Seq(Threads) /\ NoRepeats(wait_list[f]) /\ On(f) = Elems(wait_list[f])
      BY DEF TInv, LInv, Linked, On, Elems
    <2>2. r(f) \in Seq(Threads) /\ NoRepeats(r(f)) /\ Elems(r(f)) = On(f) \ {t}
      BY <2>1, WithoutProperties
    <2> HIDE DEF r
    <2> QED
      BY <2>2, AppendedElems
  <1> HIDE DEF e, r
  <1>5. ASSUME NEW f \in Futexes
        PROVE  /\ NoRepeats(wait_list'[f])
               /\ \A u \in Threads : u \in On(f)' <=> wait_event'[u] = f
    <2>1. wait_list'[f] \in Seq(Threads)
      BY <1>3, <1>4
    <2>2. On(f)' = Elems(wait_list'[f])
      BY <2>1 DEF On, Elems
    <2>3. \A u \in Threads : u \in On(f) <=> wait_event[u] = f
      BY DEF LInv, Linked
    <2>4. CASE f = e
      BY <1>2, <1>3, <1>4, <2>2, <2>3, <2>4
    <2>5. CASE f # e
      BY <1>2, <1>3, <1>4, <2>2, <2>3, <2>5
    <2> QED
      BY <2>4, <2>5
  <1> QED
    BY <1>2, <1>5 DEF Linked, e

\* A thread that is about to block has the lock of the event it waits on.
LEMMA AboutToBlock ==
    ASSUME LInv, NEW u \in Threads, thr[u].at = "block"
    PROVE  wait_event[u] \in Futexes /\ lock[wait_event[u]] = u
  BY DEF LInv, BlockedOnOwn, LockHeld, InProgress, LockSteps

\* A call goes on: locks and lists.
LEMMA AdvanceLinked ==
    ASSUME TInv, LInv, NEW t \in Threads, Advance(t)
    PROVE  LInv'
  <1>0. InProgress' /\ InProgress /\ LockHeld /\ Linked /\ BlockedOnOwn /\ Hands
    BY AdvanceType DEF LInv
  <1> USE Locals
  <1>1. CASE ArmTick(t) \/ ArmSeq(t) \/ ArmLoad(t) \/ ArmCas(t)
    <2>1. /\ SameCall(t) /\ OthersStay(t) /\ thr'[t].at \in {"arm_seq", "arm_load", "arm_cas", "link"}
          /\ thr[t].at \in {"arm_tick", "arm_seq", "arm_load", "arm_cas"}
      <3>1. \/ Moves(t, "arm_seq") \/ Moves(t, "arm_load") \/ Moves(t, "arm_cas") \/ Moves(t, "link")
        BY <1>1, ThreadMoves DEF ArmTick, ArmSeq, ArmLoad, ArmCas, ThreadSteps, TInv
      <3>2. SameCall(t)
        BY <1>1, ThreadMoves DEF ArmTick, ArmSeq, ArmLoad, ArmCas, ThreadSteps, TInv
      <3>3. thr[t].at \in {"arm_tick", "arm_seq", "arm_load", "arm_cas"}
        BY <1>1 DEF ArmTick, ArmSeq, ArmLoad, ArmCas
      <3> QED
        BY <3>1, <3>2, <3>3, MovesStay
    <2>2. lock' = lock /\ UNCHANGED <<wait_event, wait_list, tstate, scan>>
      BY <1>1 DEF ArmTick, ArmSeq, ArmLoad, ArmCas, event
    <2>3. LockHeld'
      BY <1>0, <2>1, <2>2, LockKept DEF LockSteps, SameCall
    <2>4. Linked' /\ BlockedOnOwn' /\ Hands'
      BY <1>0, <2>1, <2>2, EventsKept
    <2> QED
      BY <1>0, <2>3, <2>4 DEF LInv
  <1>2. CASE Link(t)
    <2>1. SameCall(t) /\ OthersStay(t) /\ thr'[t].at = "block" /\ thr[t].at = "link"
      BY <1>2, ThreadMoves, MovesStay DEF Link, ThreadSteps
    <2>2. LockHeld'
      BY <1>0, <1>2, <2>1, LockKept DEF LockSteps, SameCall, Link
    <2>3. /\ Linked' /\ tstate' = tstate /\ wait_event'[t] = thr[t].futex
          /\ \A u \in Threads \ {t} : wait_event'[u] = wait_event[u]
      BY <1>2, LinkLinked DEF Link
    <2>5. Wakers' = Wakers
      BY <1>2, <2>1, ThreadSameHands DEF Link
    <2>4. BlockedOnOwn'
      BY <1>0, <2>1, <2>3, <2>5 DEF BlockedOnOwn, OthersStay, SameCall
    <2>6. tstate[t] # "BLOCKED"
      BY <1>0, <2>1 DEF BlockedOnOwn
    <2>7. Hands'
      BY <1>0, <2>3, <2>5, <2>6, HandsQuiet
    <2> QED
      BY <1>0, <2>2, <2>3, <2>4, <2>7 DEF LInv
  <1>3. CASE Block(t)
    <2>1. SameCall(t) /\ OthersStay(t) /\ thr'[t].at = "parked" /\ thr[t].at = "block"
      BY <1>3, ThreadMoves, MovesStay DEF Block, ThreadSteps
    <2>2. LockHeld'
      BY <1>0, <1>3, <2>1, LockReleased DEF LockSteps, Block
    <2>3. wait_list' = wait_list /\ wait_event' = wait_event
      BY <1>3 DEF Block, event
    <2>4. Linked'
      BY <1>0, <2>3 DEF Linked, On
    <2>5. tstate'[t] = "BLOCKED" /\ \A u \in Threads \ {t} : tstate'[u] = tstate[u]
      BY <1>3 DEF Block, TInv
    <2>7. Wakers' = Wakers
      BY <1>3, <2>1, ThreadSameHands DEF Block
    <2>6. BlockedOnOwn'
      BY <1>0, <2>1, <2>3, <2>5, <2>7 DEF BlockedOnOwn, OthersStay, SameCall
    <2>8. Hands'
      BY <1>0, <2>3, <2>5, <2>7, HandsQuiet
    <2> QED
      BY <1>0, <2>2, <2>4, <2>6, <2>8 DEF LInv
  <1>4. CASE Resume(t)
    <2>1. SameCall(t) /\ OthersStay(t) /\ thr'[t].at = "resumed" /\ thr[t].at = "parked"
      BY <1>4, ThreadMoves, MovesStay DEF Resume, ThreadSteps
    <2>2. LockHeld'
      BY <1>0, <1>4, <2>1, LockKept DEF LockSteps, Resume
    <2>3. wait_list' = wait_list /\ wait_event' = wait_event
      BY <1>4 DEF Resume, event
    <2>4. Linked'
      BY <1>0, <2>3 DEF Linked, On
    <2>5. /\ tstate'[t] = "RUNNING" /\ tstate[t] = "READY"
          /\ \A u \in Threads \ {t} : tstate'[u] = tstate[u]
      BY <1>4 DEF Resume, TInv
    <2>7. Wakers' = Wakers
      BY <1>4, <2>1, ThreadSameHands DEF Resume
    <2>6. BlockedOnOwn'
      BY <1>0, <2>1, <2>3, <2>5, <2>7 DEF BlockedOnOwn, OthersStay, SameCall
    <2>8. Hands'
      BY <1>0, <2>3, <2>5, <2>7, HandsQuiet
    <2> QED
      BY <1>0, <2>2, <2>4, <2>6, <2>8 DEF LInv
  <1>5. CASE Return(t)
    <2>1. OthersStay(t) /\ thr'[t].at = "user" /\ thr[t].at = "resumed"
      BY <1>5, ThreadMoves, MovesStay DEF Return
    <2>2. LockHeld'
      BY <1>0, <1>5, <2>1, LockKept DEF LockSteps, Return
    <2>3. Linked' /\ BlockedOnOwn' /\ Hands'
      BY <1>0, <1>5, <2>1, EventsKept DEF Return
    <2> QED
      BY <1>0, <2>2, <2>3 DEF LInv
  <1>6. CASE FutexWake(t)
    <2>1. SameCall(t) /\ OthersStay(t) /\ thr'[t].at = "wake" /\ thr[t].at = "publish"
      BY <1>6, ThreadMoves, MovesStay DEF FutexWake
    <2>2. LockHeld'
      <3>1. thr[t].futex \in Futexes
        BY <1>0, <2>1 DEF InProgress
      <3> QED
        BY <1>0, <1>6, <2>1, <3>1, LockTaken DEF LockSteps, FutexWake, SameCall
    <2>3. Linked' /\ BlockedOnOwn' /\ Hands'
      BY <1>0, <1>6, <2>1, EventsKept DEF FutexWake, event
    <2> QED
      BY <1>0, <2>2, <2>3 DEF LInv
  <1>7. CASE WakeOne(t)
    <2> DEFINE f == thr[t].futex
               u == Head(wait_list[f])
    <2>3. /\ f \in Futexes /\ lock[f] = t /\ wait_list[f] \in Seq(Threads) /\ wait_list[f] # << >>
          /\ thr[t].at = "wake"
      BY <1>0, <1>7 DEF InProgress, LockHeld, LockSteps, TInv, WakeOne
    <2>4. u \in Threads /\ u \in On(f)
      BY <2>3, TailElems DEF On, Elems
    <2>5. /\ Detach(u, f, "OK") /\ thr[t].left > 0
          /\ thr' = [thr EXCEPT ![t].at = "promote", ![t].left = @ - 1, ![t].who = u]
      BY <1>7 DEF WakeOne
    <2>f. tstate' = tstate /\ lock' = lock /\ scan' = scan
      BY <1>7 DEF WakeOne
    <2>g. Detach(u, f, "OK")
      BY <2>5
    <2> HIDE DEF u
    <2>1. Moves(t, "promote") /\ SameCall(t) /\ thr'[t].who = u
      BY <2>4, <2>5, TakeMoves
    <2>a. OthersStay(t) /\ thr'[t].at = "promote"
      BY <2>1, MovesStay
    <2>2. LockHeld'
      BY <1>0, <2>1, <2>3, <2>f, <2>a, LockKept DEF LockSteps, SameCall
    <2> HIDE DEF f
    <2>6. wait_event[u] = f
      BY <1>0, <2>3, <2>4 DEF Linked
    <2>7. /\ Linked' /\ wait_event'[u] = NoEvent
          /\ \A v \in Threads \ {u} : wait_event'[v] = wait_event[v]
      BY <1>0, <2>3, <2>4, <2>g, <2>6, DetachLinked
    <2>8. thr[u].at # "block"
      BY <2>3, <2>4, <2>6, AboutToBlock
    <2>9. tstate[u] = "BLOCKED" /\ wait_event[u] # NoEvent
      BY <1>0, <2>3, <2>4, <2>6, <2>8 DEF BlockedOnOwn
    <2>b. Wakers' = [Wakers EXCEPT ![u] = @ \cup {t}] /\ t \in Hand
      BY <2>1, <2>3, <2>4, <2>f, <2>a, ThreadTakes
    <2>d. /\ Hands' /\ Wakers'[u] # {}
          /\ \A v \in Threads : Wakers[v] # {} => Wakers'[v] # {}
      BY <1>0, <2>4, <2>f, <2>7, <2>9, <2>b, HandTaken
    <2>e. BlockedOnOwn'
      BY <1>0, <2>1, <2>3, <2>4, <2>f, <2>7, <2>8, <2>a, <2>d DEF BlockedOnOwn, OthersStay, SameCall
    <2> QED
      BY <1>0, <2>2, <2>7, <2>d, <2>e DEF LInv
  <1>9. CASE WakePromote(t)
    <2> DEFINE u == thr[t].who
    <2>1. /\ thr[t].at = "promote" /\ u \in Threads /\ Promote(u)
          /\ UNCHANGED <<wait_event, wait_list, lock, scan>>
      BY <1>0, <1>9 DEF WakePromote, InProgress, event
    <2>2. Moves(t, "wake") /\ SameCall(t)
      BY <1>9, WokenMoves DEF WakePromote
    <2>a. OthersStay(t) /\ thr'[t].at = "wake"
      BY <2>2, MovesStay
    <2>3. LockHeld'
      BY <1>0, <2>1, <2>2, <2>a, LockKept DEF LockSteps, SameCall
    <2>4. Linked'
      BY <1>0, <2>1 DEF Linked, On
    <2>5. tstate'[u] # "BLOCKED" /\ \A v \in Threads \ {u} : tstate'[v] = tstate[v]
      BY <2>1, PromoteEffect
    <2>b. Wakers' = [Wakers EXCEPT ![u] = @ \ {t}] /\ t \in Wakers[u]
      BY <2>1, <2>a, ThreadGives
    <2> HIDE DEF u
    <2>d. /\ Hands' /\ wait_event[u] = NoEvent
          /\ \A v \in Threads \ {u} : Wakers'[v] = Wakers[v]
      BY <1>0, <2>1, <2>5, <2>b, HandGiven
    <2>e. BlockedOnOwn'
      BY <1>0, <2>1, <2>2, <2>5, <2>a, <2>d DEF BlockedOnOwn, OthersStay, SameCall
    <2> QED
      BY <1>0, <2>3, <2>4, <2>d, <2>e DEF LInv
  <1>8. CASE WakeDone(t)
    <2>1. OthersStay(t) /\ thr'[t].at = "user" /\ thr[t].at = "wake"
      BY <1>8, ThreadMoves, MovesStay DEF WakeDone
    <2>2. LockHeld'
      BY <1>0, <1>8, <2>1, LockReleased DEF LockSteps, WakeDone
    <2>3. Linked' /\ BlockedOnOwn' /\ Hands'
      BY <1>0, <1>8, <2>1, EventsKept DEF WakeDone, event
    <2> QED
      BY <1>0, <2>2, <2>3 DEF LInv
  <1> QED
    BY <1>1, <1>2, <1>3, <1>4, <1>5, <1>6, <1>7, <1>8, <1>9 DEF Advance

\* A step of a scan other than Fire and FirePromote touches neither threads nor events.
LEMMA ScanQuiet ==
    ASSUME NEW c \in Cpus, Scan(c)
    PROVE  /\ thr' = thr /\ lock' = lock /\ smp' = smp /\ now' = now
           /\ \/ Fire(c) \/ FirePromote(c)
              \/ /\ UNCHANGED <<wait_event, wait_list, pend, tstate>>
                 /\ scan[c].at # "promote" /\ (TInv /\ InProgress => Wakers' = Wakers)
  <1>1. \/ Fire(c) \/ FirePromote(c)
        \/ Check(c) \/ LoadSeq(c) \/ LoadTick(c) \/ TestState(c) \/ Clear(c) \/ Expire(c)
        \/ FireLoad(c) \/ ReloadSeq(c) \/ PublishNext(c)
    BY DEF Scan
  <1>2. thr' = thr /\ lock' = lock /\ smp' = smp /\ now' = now
    BY <1>1 DEF Check, LoadSeq, LoadTick, TestState, Clear, Expire, FireLoad, Fire, FirePromote,
                ReloadSeq, PublishNext
  <1>3. \/ Fire(c) \/ FirePromote(c)
        \/ UNCHANGED <<wait_event, wait_list, pend, tstate>> /\ scan[c].at # "promote"
    BY <1>1 DEF Check, LoadSeq, LoadTick, TestState, Clear, Expire, FireLoad, ReloadSeq,
                PublishNext, event
  <1>4. ASSUME ~Fire(c), ~FirePromote(c), TInv, InProgress PROVE Wakers' = Wakers
    <2>1. scan[c].at # "promote"
      BY <1>3, <1>4
    <2>2. \E a \in ScanSteps \ {"promote"} : ScanMoves(c, a)
      <3> USE Locals DEF ScanSteps
      <3>1. NextSlot(c) /\ scan[c].i <= NThreads => ScanMoves(c, "tick")
        BY <1>4, ScanStepMoves
      <3>2. Check(c) \/ Expire(c) \/ ReloadSeq(c) \/ PublishNext(c) \/ TestState(c)
              => \E a \in ScanSteps \ {"promote"} : ScanMoves(c, a)
        BY <1>4, ScanStepMoves
      <3>3. LoadSeq(c) => NextSlot(c) /\ scan[c].i <= NThreads
        BY <1>4 DEF LoadSeq, InProgress
      <3>4. Clear(c) => NextSlot(c) /\ scan[c].i <= NThreads
        BY <1>4 DEF Clear, InProgress, SlotSteps, Threads
      <3>5. LoadTick(c) => (NextSlot(c) /\ scan[c].i <= NThreads) \/ ScanMoves(c, "state")
        BY <1>4, ScanStepMoves DEF LoadTick
      <3>6. FireLoad(c) => (NextSlot(c) /\ scan[c].i <= NThreads) \/ ScanMoves(c, "fire")
        <4>1. FireLoad(c) => scan[c].i <= NThreads
          BY <1>4 DEF FireLoad, InProgress, SlotSteps, Threads
        <4> QED
          BY <1>4, <4>1, ScanStepMoves
      <3> QED
        BY <1>1, <1>4, <3>1, <3>2, <3>3, <3>4, <3>5, <3>6
    <2> QED
      BY <1>2, <2>1, <2>2, ScanSameHands
  <1> QED
    BY <1>2, <1>3, <1>4

\* What Fire does: the thread leaves the event it is on and is in hand, or nothing happens.
LEMMA FireEffect ==
    ASSUME TInv, LInv, NEW c \in Cpus, Fire(c)
    PROVE  LET u == scan[c].i
               f == scan[c].ev
           IN /\ u \in Threads /\ f \in Futexes /\ lock[f] = NoOne /\ tstate' = tstate
              /\ \/ /\ wait_event[u] = f /\ Linked' /\ Detach(u, f, "TIMEOUT")
                    /\ ScanMoves(c, "promote") /\ SameRead(c)
                    /\ \A v \in Threads \ {u} : wait_event'[v] = wait_event[v] /\ pend'[v] = pend[v]
                    /\ wait_event'[u] = NoEvent /\ pend'[u] = "TIMEOUT"
                    /\ tstate[u] = "BLOCKED" /\ thr[u].at # "block"
                    /\ Hands' /\ Wakers'[u] # {} /\ \A v \in Threads : Wakers[v] # {} => Wakers'[v] # {}
                    /\ \A g \in Futexes \ {f} : wait_list'[g] = wait_list[g]
                    /\ Len(wait_list[f]) \in Nat /\ Len(wait_list'[f]) = Len(wait_list[f]) - 1
                 \/ /\ wait_event[u] # f /\ UNCHANGED <<wait_event, wait_list, pend>>
                    /\ NextSlot(c) /\ ScanMoves(c, "tick") /\ Wakers' = Wakers
  <1> DEFINE u == scan[c].i
             f == scan[c].ev
  <1>1. /\ u \in Threads /\ f \in Futexes /\ lock[f] = NoOne /\ tstate' = tstate /\ thr' = thr
        /\ scan[c].at = "fire" /\ u <= NThreads
    BY DEF LInv, InProgress, Fire, SlotSteps, Threads
  <1>2. \/ /\ wait_event[u] = f /\ Detach(u, f, "TIMEOUT")
           /\ scan' = [scan EXCEPT ![c].at = "promote"]
        \/ wait_event[u] # f /\ UNCHANGED <<wait_event, wait_list, pend>> /\ NextSlot(c)
    BY DEF Fire, StillOn, event
  <1>i. InProgress /\ Linked /\ BlockedOnOwn /\ Hands
    BY DEF LInv
  <1>5. ASSUME wait_event[u] # f, UNCHANGED <<wait_event, wait_list, pend>>, NextSlot(c)
        PROVE  ScanMoves(c, "tick") /\ Wakers' = Wakers
    <2>1. ScanMoves(c, "tick")
      BY <1>1, <1>5, <1>i, ScanStepMoves
    <2> QED
      BY <1>1, <2>1, ScanSameHands
  <1>3. ASSUME wait_event[u] = f, Detach(u, f, "TIMEOUT"), scan' = [scan EXCEPT ![c].at = "promote"]
        PROVE  /\ Linked' /\ ScanMoves(c, "promote") /\ SameRead(c)
               /\ \A v \in Threads \ {u} : wait_event'[v] = wait_event[v] /\ pend'[v] = pend[v]
               /\ wait_event'[u] = NoEvent /\ pend'[u] = "TIMEOUT"
               /\ tstate[u] = "BLOCKED" /\ thr[u].at # "block"
               /\ Hands' /\ Wakers'[u] # {} /\ \A v \in Threads : Wakers[v] # {} => Wakers'[v] # {}
               /\ \A g \in Futexes \ {f} : wait_list'[g] = wait_list[g]
               /\ Len(wait_list[f]) \in Nat /\ Len(wait_list'[f]) = Len(wait_list[f]) - 1
    <2>0. ScanMoves(c, "promote") /\ SameRead(c)
      BY <1>3, <1>i, ScanStepMoves
    <2>b. Wakers' = [Wakers EXCEPT ![u] = @ \cup {c}] /\ c \in Hand
      BY <1>1, <2>0, ScanTakes DEF SameRead
    <2> HIDE DEF u, f
    <2>1. thr[u].at # "block"
      BY <1>1, <1>3, AboutToBlock, Locals
    <2>2. tstate[u] = "BLOCKED" /\ wait_event[u] # NoEvent
      BY <1>1, <1>3, <1>i, <2>1, Locals DEF BlockedOnOwn
    <2>3. /\ Linked' /\ wait_event'[u] = NoEvent /\ pend'[u] = "TIMEOUT"
          /\ \A v \in Threads \ {u} : wait_event'[v] = wait_event[v] /\ pend'[v] = pend[v]
          /\ \A g \in Futexes \ {f} : wait_list'[g] = wait_list[g]
          /\ Len(wait_list[f]) \in Nat /\ Len(wait_list'[f]) = Len(wait_list[f]) - 1
      BY <1>1, <1>3, <1>i, DetachLinked
    <2>4. Hands' /\ Wakers'[u] # {} /\ \A v \in Threads : Wakers[v] # {} => Wakers'[v] # {}
      BY <1>1, <1>i, <2>2, <2>3, <2>b, HandTaken
    <2> QED
      BY <2>0, <2>1, <2>2, <2>3, <2>4
  <1> HIDE DEF u, f
  <1> QED
    BY <1>1, <1>2, <1>3, <1>5 DEF u, f

\* What FirePromote does: the thread in hand is let go.
LEMMA FirePromoteEffect ==
    ASSUME TInv, LInv, NEW c \in Cpus, FirePromote(c)
    PROVE  LET u == scan[c].i
           IN /\ u \in Threads /\ UNCHANGED <<wait_event, wait_list, pend>>
              /\ NextSlot(c) /\ ScanMoves(c, "tick") /\ SameScan(c) /\ scan'[c].i = u + 1
              /\ tstate'[u] # "BLOCKED" /\ \A v \in Threads \ {u} : tstate'[v] = tstate[v]
              /\ Hands' /\ wait_event[u] = NoEvent
              /\ \A v \in Threads \ {u} : Wakers'[v] = Wakers[v]
  <1> DEFINE u == scan[c].i
  <1>1. /\ scan[c].at = "promote" /\ u \in Threads /\ Promote(u) /\ NextSlot(c) /\ u <= NThreads
        /\ UNCHANGED <<wait_event, wait_list, pend>> /\ thr' = thr /\ Hands /\ InProgress
    BY DEF FirePromote, LInv, InProgress, SlotSteps, Threads, event
  <1>2. ScanMoves(c, "tick") /\ SameScan(c) /\ scan'[c].i = u + 1
    BY <1>1, ScanStepMoves
  <1>3. tstate'[u] # "BLOCKED" /\ \A v \in Threads \ {u} : tstate'[v] = tstate[v]
    BY <1>1, PromoteEffect
  <1>b. Wakers' = [Wakers EXCEPT ![u] = @ \ {c}] /\ c \in Wakers[u]
    BY <1>1, <1>2, ScanGives
  <1> HIDE DEF u
  <1>d. Hands' /\ wait_event[u] = NoEvent /\ \A v \in Threads \ {u} : Wakers'[v] = Wakers[v]
    BY <1>1, <1>3, <1>b, HandGiven
  <1> QED
    BY <1>1, <1>2, <1>3, <1>d DEF u

\* A scan goes on: locks and lists.
LEMMA ScanLinked ==
    ASSUME TInv, LInv, NEW c \in Cpus, Scan(c)
    PROVE  LInv'
  <1>0. InProgress' /\ InProgress /\ LockHeld /\ Linked /\ BlockedOnOwn /\ Hands
    BY ScanType DEF LInv
  <1>1. LockHeld' /\ thr' = thr
    BY <1>0, ScanQuiet DEF LockHeld
  <1>2. ASSUME UNCHANGED <<wait_event, wait_list, tstate>>, Wakers' = Wakers
        PROVE  Linked' /\ BlockedOnOwn' /\ Hands'
    <2>1. Linked' /\ BlockedOnOwn'
      BY <1>0, <1>1, <1>2 DEF Linked, On, BlockedOnOwn
    <2>2. Hands'
      BY <1>0, <1>2, HandsQuiet
    <2> QED
      BY <2>1, <2>2
  <1>3. ASSUME Fire(c)
        PROVE  Linked' /\ BlockedOnOwn' /\ Hands'
    <2> DEFINE u == scan[c].i
    <2>1. CASE /\ u \in Threads /\ Linked' /\ Hands' /\ tstate' = tstate
               /\ \A v \in Threads \ {u} : wait_event'[v] = wait_event[v]
               /\ wait_event'[u] = NoEvent /\ thr[u].at # "block"
               /\ Wakers'[u] # {} /\ \A v \in Threads : Wakers[v] # {} => Wakers'[v] # {}
      <3> HIDE DEF u
      <3>1. BlockedOnOwn'
        BY <1>0, <1>1, <2>1 DEF BlockedOnOwn
      <3> QED
        BY <2>1, <3>1
    <2>2. CASE UNCHANGED <<wait_event, wait_list, tstate>> /\ Wakers' = Wakers
      BY <1>2, <2>2
    <2> QED
      BY <1>3, <2>1, <2>2, FireEffect
  <1>4. ASSUME FirePromote(c)
        PROVE  Linked' /\ BlockedOnOwn' /\ Hands'
    <2> DEFINE u == scan[c].i
    <2>1. /\ u \in Threads /\ UNCHANGED <<wait_event, wait_list>> /\ wait_event[u] = NoEvent
          /\ tstate'[u] # "BLOCKED" /\ \A v \in Threads \ {u} : tstate'[v] = tstate[v]
          /\ Hands' /\ \A v \in Threads \ {u} : Wakers'[v] = Wakers[v]
      BY <1>4, FirePromoteEffect
    <2> HIDE DEF u
    <2>2. Linked'
      BY <1>0, <2>1 DEF Linked, On
    <2>3. BlockedOnOwn'
      BY <1>0, <1>1, <2>1 DEF BlockedOnOwn
    <2> QED
      BY <2>1, <2>2, <2>3
  <1> QED
    BY <1>0, <1>1, <1>2, <1>3, <1>4, ScanQuiet DEF LInv

-----------------------------------------------------------------------------
(* The futex's promise. *)

\* An event's list is as long as the set of its waiters, and holds no more than all threads.
LEMMA ListBound ==
    ASSUME TInv, Linked, NEW f \in Futexes
    PROVE  /\ On(f) = Elems(wait_list[f]) /\ On(f) \subseteq Threads
           /\ Len(wait_list[f]) \in Nat /\ Len(wait_list[f]) = Cardinality(On(f))
           /\ Len(wait_list[f]) <= NThreads
  <1>1. wait_list[f] \in Seq(Threads) /\ NoRepeats(wait_list[f])
    BY DEF TInv, Linked
  <1>2. On(f) = Elems(wait_list[f]) /\ On(f) \subseteq Threads
    BY <1>1 DEF On, Elems
  <1>3. Len(wait_list[f]) \in Nat /\ Len(wait_list[f]) = Cardinality(On(f))
    BY <1>1, <1>2, LengthIsCardinality
  <1>4. IsFiniteSet(Threads) /\ Cardinality(Threads) = NThreads
    <2>1. 1 \in Int /\ NThreads \in Int /\ NThreads >= 1
      BY TimedWaitAssumption
    <2> QED
      BY <2>1, FS_Interval DEF Threads
  <1>5. Cardinality(On(f)) <= Cardinality(Threads)
    BY <1>2, <1>4, FS_Subset
  <1> QED
    BY <1>2, <1>3, <1>4, <1>5

\* A step that changes no word, no list, and wakes or blocks nobody.
LEMMA PromiseKept ==
    ASSUME StaleIsSeen, WakeCovers, NEW t \in Threads, NEW a, Moves(t, a), wait_list' = wait_list,
           scan' = scan, \A u \in Threads : tstate'[u] = "BLOCKED" => tstate[u] = "BLOCKED",
           thr[t].at \notin WakeSteps,
           a \notin WakeSteps,
           \/ ~thr'[t].stale
           \/ SameCall(t) /\ (a \in LockSteps => thr[t].at \in LockSteps)
    PROVE  StaleIsSeen' /\ WakeCovers'
  <1>0. Wakers' = Wakers
    <2>1. OthersStay(t) /\ thr'[t].at = a
      BY MovesStay
    <2> QED
      BY <2>1, ThreadSameHands DEF WakeSteps
  <1> USE DEF Moves
  <1>1. \A u \in Threads : u # t => thr'[u] = thr[u]
    OBVIOUS
  <1>2. \A u \in Threads : thr[u].at \in WakeSteps => u # t /\ thr'[u] = thr[u]
    BY <1>1
  <1>3. \A u \in Threads : thr'[u].at \in WakeSteps => u # t /\ thr'[u] = thr[u]
    BY <1>1
  <1>4. WakeCovers'
    BY <1>3 DEF WakeCovers, WakeSteps
  <1>5. ASSUME NEW v \in Threads
        PROVE  /\ thr'[v].at \in WakeSteps => ~thr'[v].stale
               /\ thr'[v].at \in LockSteps /\ thr'[v].stale =>
                    \E u \in Threads : thr'[u].at = "publish" /\ thr'[u].futex = thr'[v].futex
               /\ tstate'[v] = "BLOCKED" /\ thr'[v].stale =>
                    \/ Wakers'[v] # {}
                    \/ \E u \in Threads : thr'[u].at \in WakeSteps /\ thr'[u].futex = thr'[v].futex
    <2>1. CASE v = t
      BY <1>0, <1>2, <2>1 DEF StaleIsSeen, SameCall, WakeSteps
    <2>2. CASE v # t
      BY <1>0, <1>1, <1>2, <2>2 DEF StaleIsSeen, WakeSteps
    <2> QED
      BY <2>1, <2>2
  <1> QED
    BY <1>4, <1>5 DEF StaleIsSeen

\* A new call: the promise.
LEMMA CallPromise ==
    ASSUME TInv, LInv, FInv, NEW t \in Threads, Call(t)
    PROVE  FInv'
  <1> SUFFICES ASSUME Count >= NThreads, StaleIsSeen, WakeCovers
               PROVE  StaleIsSeen' /\ WakeCovers'
    BY DEF FInv
  <1>u. thr[t].at = "user" => tstate[t] # "BLOCKED"
    BY DEF LInv, BlockedOnOwn
  <1>1. ASSUME NEW f \in Futexes, Publish(t, f)
        PROVE  StaleIsSeen' /\ WakeCovers'
    <2>1. /\ thr'[t].at = "publish" /\ thr'[t].futex = f /\ thr'[t].stale = FALSE
          /\ thr[t].at = "user" /\ wait_list' = wait_list /\ tstate' = tstate
      BY <1>1 DEF Publish, User, event
    <2>w. Wakers' = Wakers
      <3>1. OthersStay(t) /\ scan' = scan
        BY <1>1 DEF Publish, OthersStay, TInv, ThreadLocals
      <3> QED
        BY <2>1, <3>1, ThreadSameHands
    <2>2. ASSUME NEW u \in Threads, u # t
          PROVE  /\ thr'[u].at = thr[u].at /\ thr'[u].futex = thr[u].futex
                 /\ thr'[u].left = thr[u].left
                 /\ thr'[u].stale # thr[u].stale => thr[u].futex = f
                 /\ thr[u].at \in WakeSteps => thr'[u].stale = thr[u].stale
      BY <1>1, <2>2 DEF Publish, TInv, ThreadLocals, WaitSteps, WakeSteps
    <2>3. WakeCovers'
      BY <2>1, <2>2 DEF WakeCovers
    <2>4. ASSUME NEW v \in Threads
          PROVE  /\ thr'[v].at \in WakeSteps => ~thr'[v].stale
                 /\ thr'[v].at \in LockSteps /\ thr'[v].stale =>
                      \E u \in Threads : thr'[u].at = "publish" /\ thr'[u].futex = thr'[v].futex
                 /\ tstate'[v] = "BLOCKED" /\ thr'[v].stale =>
                      \/ Wakers'[v] # {}
                      \/ \E u \in Threads : thr'[u].at \in WakeSteps /\ thr'[u].futex = thr'[v].futex
      <3>1. CASE v = t
        BY <2>1, <3>1, <1>u DEF LockSteps
      <3>2. CASE v # t /\ thr'[v].stale = thr[v].stale
        BY <2>1, <2>2, <2>w, <3>2 DEF StaleIsSeen, WakeSteps
      <3>3. CASE v # t /\ thr'[v].stale # thr[v].stale
        BY <2>1, <2>2, <3>3 DEF StaleIsSeen, WakeSteps
      <3> QED
        BY <3>1, <3>2, <3>3
    <2> QED
      BY <2>3, <2>4 DEF StaleIsSeen
  <1>2. ASSUME NEW f \in Futexes, NEW ms \in Timeouts, FutexWait(t, f, ms)
        PROVE  StaleIsSeen' /\ WakeCovers'
    <2>1. thr' \in [Threads -> ThreadLocals]
      BY CallType DEF LInv, TInv
    <2>2. \/ Moves(t, "arm_tick") /\ ~thr'[t].stale
          \/ Moves(t, "link") /\ ~thr'[t].stale
      BY <1>2, <2>1 DEF FutexWait, Moves, TInv
    <2>3. wait_list' = wait_list /\ tstate' = tstate /\ scan' = scan /\ thr[t].at = "user"
      BY <1>2 DEF FutexWait, event
    <2> QED
      BY <2>2, <2>3, PromiseKept DEF WakeSteps
  <1> QED
    BY <1>1, <1>2 DEF Call

\* A call goes on: the promise.
LEMMA AdvancePromise ==
    ASSUME TInv, LInv, FInv, NEW t \in Threads, Advance(t)
    PROVE  FInv'
  <1> SUFFICES ASSUME Count >= NThreads, StaleIsSeen, WakeCovers
               PROVE  StaleIsSeen' /\ WakeCovers'
    BY DEF FInv
  <1>0. InProgress /\ LockHeld /\ Linked /\ BlockedOnOwn
    BY DEF LInv
  <1>s. scan' = scan
    BY DEF Advance, ArmTick, ArmSeq, ArmLoad, ArmCas, Link, Block, Resume, Return, FutexWake,
           WakeOne, WakePromote, WakeDone
  <1>1. CASE ArmTick(t) \/ ArmSeq(t) \/ ArmLoad(t) \/ ArmCas(t)
    <2>1. \/ Moves(t, "arm_seq") \/ Moves(t, "arm_load") \/ Moves(t, "arm_cas") \/ Moves(t, "link")
      BY <1>1, ThreadMoves DEF ArmTick, ArmSeq, ArmLoad, ArmCas, ThreadSteps, TInv
    <2>2. SameCall(t)
      BY <1>1, ThreadMoves DEF ArmTick, ArmSeq, ArmLoad, ArmCas, ThreadSteps, TInv
    <2>3. /\ thr[t].at \in {"arm_tick", "arm_seq", "arm_load", "arm_cas"}
          /\ wait_list' = wait_list /\ tstate' = tstate
      BY <1>1 DEF ArmTick, ArmSeq, ArmLoad, ArmCas, event
    <2> QED
      BY <1>s, <2>1, <2>2, <2>3, PromiseKept DEF LockSteps, WakeSteps
  <1>2. CASE Link(t)
    <2>1. Moves(t, "block") /\ SameCall(t) /\ thr[t].at = "link" /\ tstate' = tstate
      BY <1>2, ThreadMoves DEF Link, ThreadSteps
    <2>2. StaleIsSeen'
      <3>1. \A u \in Threads : u # t => thr'[u] = thr[u]
        BY <2>1 DEF Moves
      <3>2. \A u \in Threads : thr[u].at \in WakeSteps => u # t
        BY <2>1 DEF WakeSteps
      <3>4. Wakers' = Wakers
        BY <1>s, <2>1, MovesStay, ThreadSameHands
      <3>3. /\ thr'[t].at = "block" /\ thr'[t].stale = thr[t].stale /\ thr'[t].futex = thr[t].futex
            /\ tstate[t] # "BLOCKED"
        BY <1>0, <2>1 DEF Moves, SameCall, BlockedOnOwn
      <3> QED
        BY <2>1, <3>1, <3>2, <3>3, <3>4 DEF StaleIsSeen, LockSteps, WakeSteps
    <2>3. ASSUME NEW u \in Threads, thr'[u].at \in {"wake", "promote"}
          PROVE  thr'[u].left >= Len(wait_list'[thr'[u].futex])
      <3>1. u # t /\ thr'[u] = thr[u] /\ thr[u].at \in {"wake", "promote"}
        BY <2>1, <2>3 DEF Moves
      <3> DEFINE f == thr[u].futex
      <3>2. f \in Futexes /\ lock[f] = u /\ lock[thr[t].futex] = t /\ f # thr[t].futex
        BY <1>0, <2>1, <3>1 DEF InProgress, LockHeld, LockSteps
      <3>3. wait_list'[f] = Without(wait_list[f], t) /\ wait_list[f] \in Seq(Threads)
        BY <1>2, <3>2 DEF Link, TInv
      <3>4. /\ Len(wait_list'[f]) \in Nat /\ Len(wait_list[f]) \in Nat
            /\ Len(wait_list'[f]) <= Len(wait_list[f])
        BY <3>3, WithoutProperties
      <3>5. thr[u].left >= Len(wait_list[f]) /\ thr[u].left \in Nat
        BY <3>1 DEF WakeCovers, TInv, ThreadLocals
      <3> QED
        BY <3>1, <3>4, <3>5
    <2> QED
      BY <2>2, <2>3 DEF WakeCovers
  <1>3. CASE Block(t)
    <2>1. /\ Moves(t, "parked") /\ SameCall(t) /\ thr[t].at = "block" /\ wait_list' = wait_list
      BY <1>3, ThreadMoves DEF Block, ThreadSteps, event
    <2>2. \A u \in Threads : u # t => thr'[u] = thr[u] /\ tstate'[u] = tstate[u]
      BY <1>3, <2>1 DEF Moves, Block, TInv
    <2>3. \A u \in Threads : thr[u].at \in WakeSteps => u # t
      BY <2>1 DEF WakeSteps
    <2>w. Wakers' = Wakers
      BY <1>s, <2>1, MovesStay, ThreadSameHands
    <2>4. thr'[t].at = "parked" /\ thr'[t].stale = thr[t].stale /\ thr'[t].futex = thr[t].futex
      BY <2>1 DEF Moves, SameCall
    <2>5. StaleIsSeen'
      BY <2>1, <2>2, <2>3, <2>4, <2>w DEF StaleIsSeen, LockSteps, WakeSteps
    <2>6. WakeCovers'
      BY <2>1, <2>2, <2>4 DEF WakeCovers
    <2> QED
      BY <2>5, <2>6
  <1>4. CASE Resume(t)
    <2>1. Moves(t, "resumed") /\ SameCall(t) /\ thr[t].at = "parked" /\ wait_list' = wait_list
      BY <1>4, ThreadMoves DEF Resume, ThreadSteps, event
    <2>2. \A u \in Threads : tstate'[u] = "BLOCKED" => tstate[u] = "BLOCKED"
      BY <1>4 DEF Resume, TInv
    <2> QED
      BY <1>s, <2>1, <2>2, PromiseKept DEF LockSteps, WakeSteps
  <1>5. CASE Return(t)
    <2>1. Moves(t, "user") /\ thr'[t].stale = FALSE /\ thr[t].at = "resumed"
      BY <1>5, ThreadMoves DEF Return, User, TInv
    <2>2. wait_list' = wait_list /\ tstate' = tstate
      BY <1>5 DEF Return
    <2> QED
      BY <1>s, <2>1, <2>2, PromiseKept DEF WakeSteps
  <1>6. CASE FutexWake(t)
    <2>1. /\ Moves(t, "wake") /\ SameCall(t) /\ thr'[t].left = Count /\ thr[t].at = "publish"
          /\ wait_list' = wait_list /\ tstate' = tstate /\ lock[thr[t].futex] = NoOne
      BY <1>6, ThreadMoves DEF FutexWake, event
    <2>2. \A u \in Threads : u # t => thr'[u] = thr[u]
      BY <2>1 DEF Moves
    <2>3. thr'[t].at = "wake" /\ thr'[t].stale = thr[t].stale /\ thr'[t].futex = thr[t].futex
      BY <2>1 DEF Moves, SameCall
    <2>4. \A v \in Threads : thr[v].at \in LockSteps => thr[v].futex # thr[t].futex
      BY <1>0, <2>1, Locals DEF LockHeld
    <2>w. Wakers' = Wakers
      BY <1>s, <2>1, MovesStay, ThreadSameHands
    <2>5. StaleIsSeen'
      BY <2>1, <2>2, <2>3, <2>4, <2>w DEF StaleIsSeen, LockSteps, WakeSteps
    <2>6. thr[t].futex \in Futexes
      BY <1>0, <2>1 DEF InProgress
    <2>7. Count >= Len(wait_list[thr[t].futex])
      BY <1>0, <2>6, ListBound, TimedWaitAssumption
    <2>8. WakeCovers'
      BY <2>1, <2>2, <2>3, <2>7 DEF WakeCovers
    <2> QED
      BY <2>5, <2>8
  <1>7. CASE WakeOne(t)
    <2> DEFINE f == thr[t].futex
               u == Head(wait_list[f])
    <2>2. /\ f \in Futexes /\ lock[f] = t /\ wait_list[f] \in Seq(Threads) /\ wait_list[f] # << >>
          /\ thr[t].at = "wake" /\ tstate' = tstate
      BY <1>0, <1>7 DEF InProgress, LockHeld, LockSteps, TInv, WakeOne
    <2>3. u \in Threads /\ wait_event[u] = f
      <3>1. u \in Threads /\ u \in On(f)
        BY <2>2, TailElems DEF On, Elems
      <3> QED
        BY <1>0, <2>2, <3>1 DEF Linked
    <2>d. /\ Detach(u, f, "OK") /\ thr[t].left > 0
          /\ thr' = [thr EXCEPT ![t].at = "promote", ![t].left = @ - 1, ![t].who = u]
      BY <1>7 DEF WakeOne
    <2> HIDE DEF u
    <2>1. /\ Moves(t, "promote") /\ SameCall(t) /\ thr'[t].left = thr[t].left - 1
          /\ thr'[t].who = u
      BY <2>3, <2>d, TakeMoves
    <2> HIDE DEF f
    <2>e. Detach(u, f, "OK")
      BY <2>d
    <2>4. /\ \A g \in Futexes \ {f} : wait_list'[g] = wait_list[g]
          /\ Len(wait_list[f]) \in Nat /\ Len(wait_list'[f]) = Len(wait_list[f]) - 1
      BY <1>0, <2>2, <2>3, <2>e, DetachLinked
    <2>w. \A v \in Threads : Wakers[v] # {} => Wakers'[v] # {}
      <3>1. OthersStay(t) /\ thr'[t].at = "promote"
        BY <2>1, MovesStay
      <3>2. Wakers' = [Wakers EXCEPT ![u] = @ \cup {t}]
        BY <1>s, <2>1, <2>2, <2>3, <3>1, ThreadTakes
      <3> QED
        BY <3>2 DEF Wakers
    <2> USE DEF WakeSteps
    <2>5. /\ \A v \in Threads : /\ thr'[v].at \in WakeSteps <=> thr[v].at \in WakeSteps
                                /\ thr'[v].at \in LockSteps <=> thr[v].at \in LockSteps
                                /\ thr'[v].at = "publish" <=> thr[v].at = "publish"
                                /\ thr'[v].futex = thr[v].futex /\ thr'[v].stale = thr[v].stale
      BY <2>1, <2>2 DEF Moves, SameCall, LockSteps
    <2>6. StaleIsSeen'
      BY <2>2, <2>5, <2>w DEF StaleIsSeen
    <2>7. ASSUME NEW v \in Threads, thr'[v].at \in {"wake", "promote"}
          PROVE  thr'[v].left >= Len(wait_list'[thr'[v].futex])
      <3>1. /\ thr[v].left >= Len(wait_list[thr[v].futex]) /\ thr[v].left \in Nat
            /\ thr[v].at \in {"wake", "promote"}
        <4>1. thr[v].at \in {"wake", "promote"}
          BY <2>1, <2>2, <2>7 DEF Moves
        <4> QED
          BY <4>1 DEF WakeCovers, TInv, ThreadLocals
      <3>2. CASE v = t
        BY <2>1, <2>4, <2>5, <3>1, <3>2 DEF f
      <3>3. CASE v # t
        <4>1. thr[v].futex \in Futexes /\ thr[v].futex # f
          BY <1>0, <2>2, <3>1, <3>3 DEF InProgress, LockHeld, LockSteps
        <4> QED
          BY <2>1, <2>4, <3>1, <3>3, <4>1 DEF Moves
      <3> QED
        BY <3>2, <3>3
    <2> QED
      BY <2>6, <2>7 DEF WakeCovers
  <1>9. CASE WakePromote(t)
    <2> DEFINE u == thr[t].who
    <2>1. /\ thr[t].at = "promote" /\ u \in Threads /\ Promote(u) /\ wait_list' = wait_list
      BY <1>0, <1>9 DEF WakePromote, InProgress, event
    <2>2. Moves(t, "wake") /\ SameCall(t) /\ thr'[t].left = thr[t].left
      BY <1>9, WokenMoves DEF WakePromote
    <2>3. tstate'[u] # "BLOCKED" /\ \A v \in Threads \ {u} : tstate'[v] = tstate[v]
      BY <2>1, PromoteEffect
    <2>4. \A v \in Threads \ {u} : Wakers'[v] = Wakers[v]
      <3>1. OthersStay(t) /\ thr'[t].at = "wake"
        BY <2>2, MovesStay
      <3>2. Wakers' = [Wakers EXCEPT ![u] = @ \ {t}]
        BY <1>s, <2>1, <3>1, ThreadGives
      <3> HIDE DEF u
      <3> QED
        BY <3>2 DEF Wakers
    <2> HIDE DEF u
    <2>5. /\ \A v \in Threads : /\ thr'[v].at \in WakeSteps <=> thr[v].at \in WakeSteps
                                /\ thr'[v].at \in LockSteps <=> thr[v].at \in LockSteps
                                /\ thr'[v].at = "publish" <=> thr[v].at = "publish"
                                /\ thr'[v].at \in {"wake", "promote"}
                                      <=> thr[v].at \in {"wake", "promote"}
                                /\ thr'[v].futex = thr[v].futex /\ thr'[v].stale = thr[v].stale
                                /\ thr'[v].left = thr[v].left
      BY <2>1, <2>2 DEF Moves, SameCall, LockSteps, WakeSteps
    <2>6. StaleIsSeen'
      BY <2>1, <2>3, <2>4, <2>5 DEF StaleIsSeen
    <2>7. WakeCovers'
      BY <2>1, <2>5 DEF WakeCovers
    <2> QED
      BY <2>6, <2>7
  <1>8. CASE WakeDone(t)
    <2> DEFINE f == thr[t].futex
    <2>1. Moves(t, "user") /\ thr'[t].stale = FALSE /\ thr[t].at = "wake" /\ f \in Futexes
      BY <1>0, <1>8, ThreadMoves DEF WakeDone, User, TInv, InProgress
    <2>2. wait_list' = wait_list /\ tstate' = tstate
      BY <1>8 DEF WakeDone, event
    <2>3. ASSUME NEW v \in Threads, tstate[v] = "BLOCKED", Wakers[v] = {} PROVE thr[v].futex # f
      <3>1. wait_event[v] = thr[v].futex
        BY <1>0, <2>3 DEF BlockedOnOwn
      <3>2. Len(wait_list[f]) = 0
        <4>1. thr[t].left = 0 \/ wait_list[f] = << >>
          BY <1>8 DEF WakeDone
        <4>2. thr[t].left >= Len(wait_list[f]) /\ Len(wait_list[f]) \in Nat
          BY <1>0, <2>1, ListBound DEF WakeCovers
        <4> QED
          BY <4>1, <4>2
      <3>3. v \notin On(f)
        BY <1>0, <2>1, <3>2, ListBound DEF Elems
      <3> QED
        BY <1>0, <2>1, <3>1, <3>3 DEF Linked
    <2>w. Wakers' = Wakers
      BY <1>s, <2>1, MovesStay, ThreadSameHands
    <2>4. \A u \in Threads : u # t => thr'[u] = thr[u]
      BY <2>1 DEF Moves
    <2>5. thr'[t].at = "user"
      BY <2>1 DEF Moves
    <2>6. WakeCovers'
      BY <2>2, <2>4, <2>5 DEF WakeCovers
    <2>7. StaleIsSeen'
      BY <2>1, <2>2, <2>3, <2>4, <2>5, <2>w DEF StaleIsSeen, LockSteps, WakeSteps
    <2> QED
      BY <2>6, <2>7
  <1> QED
    BY <1>1, <1>2, <1>3, <1>4, <1>5, <1>6, <1>7, <1>8, <1>9 DEF Advance

\* A scan goes on: the promise.
LEMMA ScanPromise ==
    ASSUME TInv, LInv, FInv, NEW c \in Cpus, Scan(c)
    PROVE  FInv'
  <1> SUFFICES ASSUME Count >= NThreads, StaleIsSeen, WakeCovers
               PROVE  StaleIsSeen' /\ WakeCovers'
    BY DEF FInv
  <1>1. thr' = thr
    BY ScanQuiet
  <1>2. ASSUME Fire(c) PROVE StaleIsSeen' /\ WakeCovers'
    <2> DEFINE u == scan[c].i
               f == scan[c].ev
    <2>1. /\ tstate' = tstate /\ \A v \in Threads : Wakers[v] # {} => Wakers'[v] # {}
          /\ f \in Futexes /\ lock[f] = NoOne
          /\ \A g \in Futexes \ {f} : wait_list'[g] = wait_list[g]
      BY <1>2, FireEffect
    <2> HIDE DEF f
    <2>2. StaleIsSeen'
      BY <1>1, <2>1 DEF StaleIsSeen
    <2>3. \A v \in Threads : thr[v].at \in {"wake", "promote"} => thr[v].futex \in Futexes \ {f}
      BY <2>1, Locals DEF LInv, InProgress, LockHeld, LockSteps
    <2>4. WakeCovers'
      BY <1>1, <2>1, <2>3 DEF WakeCovers
    <2> QED
      BY <2>2, <2>4
  <1>3. ASSUME UNCHANGED <<wait_event, wait_list, pend, tstate>>, Wakers' = Wakers
        PROVE  StaleIsSeen' /\ WakeCovers'
    BY <1>1, <1>3 DEF StaleIsSeen, WakeCovers
  <1>4. ASSUME FirePromote(c) PROVE StaleIsSeen' /\ WakeCovers'
    <2> DEFINE u == scan[c].i
    <2>1. /\ u \in Threads /\ tstate'[u] # "BLOCKED" /\ wait_list' = wait_list
          /\ \A v \in Threads \ {u} : tstate'[v] = tstate[v] /\ Wakers'[v] = Wakers[v]
      BY <1>4, FirePromoteEffect
    <2> HIDE DEF u
    <2> QED
      BY <1>1, <2>1 DEF StaleIsSeen, WakeCovers
  <1> QED
    BY <1>2, <1>3, <1>4, ScanQuiet DEF LInv

-----------------------------------------------------------------------------
(* Deadlines, on one CPU. *)

\* ParkedTicks while no scan is under way.
QuietTicks == \A t \in Threads : tstate[t] = "BLOCKED" =>
                 /\ tick[t] = thr[t].deadline \/ Wakers[t] # {}
                 /\ tick[t] # 0 => next <= tick[t]

\* How a thread's step leaves the locks.
OwnLock(t) == \A f \in Futexes : lock'[f] \in {lock[f], t, NoOne}

\* A thread runs only while no scan does and no other thread is inside a lock;
\* after its step that is still so.
LEMMA RunsAlone ==
    ASSUME TInv, LInv, UInv, ~smp, smp' = smp, NEW t \in Threads, ThreadRuns(t), scan' = scan,
           armed' = armed \/ armed' = {c \in Cpus : Scanning(c)}, OwnLock(t)
    PROVE  /\ Alone' /\ ScanReads' /\ NoScan /\ QuietTicks
           /\ \A u \in Threads : thr[u].at \in LockSteps => u = t
           /\ ArmedTicks' /\ QuietTicks' => UInv'
  <1>1. NoScan /\ \A u \in Threads \ {t} : ~Locked(u)
    BY DEF ThreadRuns, NoScan
  <1>2. \A c \in Cpus : scan[c].at = "idle" /\ scan'[c].at = "idle"
    BY <1>1 DEF NoScan, Scanning
  <1>3. armed' = {} /\ Alone /\ ArmedTicks /\ ParkedTicks /\ ScanReads
    BY <1>2 DEF UInv, Alone, Scanning
  <1>4. \A u \in Threads : Locked(u)' => u = t
    BY <1>1, Locals DEF OwnLock, Locked, TInv
  <1>5. Alone'
    BY <1>2, <1>3, <1>4 DEF Alone, Scanning
  <1>6. ScanReads'
    BY <1>2 DEF ScanReads
  <1>7. QuietTicks
    BY <1>1, <1>2, <1>3 DEF QuietTicks, ParkedTicks, Expiring
  <1>8. \A u \in Threads : thr[u].at \in LockSteps => u = t
    BY <1>1 DEF LInv, LockHeld, InProgress, LockSteps, Locked
  <1>9. ASSUME QuietTicks' PROVE ParkedTicks'
    BY <1>2, <1>9 DEF QuietTicks, ParkedTicks, SlotSteps
  <1> QED
    BY <1>1, <1>3, <1>5, <1>6, <1>7, <1>8, <1>9 DEF UInv

\* Thread u's record, deadline and pend_state are left alone.
Untouched(u) == /\ thr'[u].at = thr[u].at /\ thr'[u].deadline = thr[u].deadline
                /\ tick'[u] = tick[u] /\ pend'[u] = pend[u]

\* What holds of a thread that is not inside a lock goes on holding while it is left alone.
LEMMA OthersArmed ==
    ASSUME ArmedTicks, now' = now, NEW t \in Threads,
           \A u \in Threads : thr[u].at \in LockSteps => u = t,
           \A u \in Threads \ {t} : Untouched(u)
    PROVE  \A u \in Threads \ {t} : ArmedOf(u)'
  BY DEF ArmedTicks, ArmedOf, Untouched, LockSteps

\* A thread's step in which nobody else is touched and the bound does not rise.
LEMMA OwnStep ==
    ASSUME TInv, LInv, UInv, TInv', ~smp, smp' = smp, now' = now, NEW t \in Threads, ThreadRuns(t),
           scan' = scan, armed' = armed \/ armed' = {c \in Cpus : Scanning(c)}, OwnLock(t),
           \A u \in Threads \ {t} : Untouched(u) /\ tstate'[u] = tstate[u], Wakers' = Wakers,
           next' <= next, ArmedOf(t) /\ QuietTicks => ArmedOf(t)',
           ArmedOf(t) /\ QuietTicks /\ tstate'[t] = "BLOCKED" =>
               tick'[t] = thr'[t].deadline /\ (tick'[t] # 0 => next' <= tick'[t])
    PROVE  UInv'
  <1>1. /\ QuietTicks /\ \A u \in Threads : thr[u].at \in LockSteps => u = t
        /\ ArmedTicks' /\ QuietTicks' => UInv'
    BY RunsAlone
  <1>2. ArmedTicks
    BY DEF UInv
  <1>3. ArmedTicks'
    BY <1>1, <1>2, OthersArmed DEF ArmedTicks
  <1>4. ASSUME NEW u \in Threads, u # t, tstate'[u] = "BLOCKED"
        PROVE  /\ tick'[u] = thr'[u].deadline \/ Wakers'[u] # {}
               /\ tick'[u] # 0 => next' <= tick'[u]
    <2>1. tick'[u] = tick[u] /\ thr'[u].deadline = thr[u].deadline /\ tstate[u] = "BLOCKED"
      BY <1>4 DEF Untouched
    <2>2. tick[u] \in Nat /\ next \in Nat /\ next' \in Nat
      BY Locals DEF TInv
    <2> QED
      BY <1>1, <2>1, <2>2 DEF QuietTicks
  <1>5. QuietTicks'
    BY <1>1, <1>2, <1>4 DEF QuietTicks, ArmedTicks
  <1> QED
    BY <1>1, <1>3, <1>5

\* A step that moves t alone leaves the others untouched.
LEMMA MovesUntouched ==
    ASSUME NEW t \in Threads, NEW a, Moves(t, a), UNCHANGED <<tick, pend>>
    PROVE  \A u \in Threads \ {t} : Untouched(u)
  BY DEF Moves, Untouched

\* A new call: deadlines.
LEMMA CallDeadlines ==
    ASSUME TInv, LInv, UInv, NEW t \in Threads, Call(t)
    PROVE  UInv'
  <1>0. smp' = smp /\ TInv'
    BY CallType DEF Call, Publish, FutexWait, LInv
  <1> SUFFICES ASSUME ~smp PROVE UInv'
    BY <1>0 DEF UInv
  <1>n. next \in Nat /\ now \in Nat
    BY Locals DEF TInv
  <1>b. thr[t].at = "user" => tstate[t] # "BLOCKED"
    BY DEF LInv, BlockedOnOwn
  <1>1. ASSUME NEW f \in Futexes, Publish(t, f) PROVE UInv'
    <2>1. /\ thr[t].at = "user" /\ thr'[t].at = "publish" /\ ThreadRuns(t)
          /\ UNCHANGED <<smp, now, next, armed, tick, tstate, pend, lock, scan>>
      BY <1>1 DEF Publish, User, event
    <2>2. \A u \in Threads \ {t} : Untouched(u)
      BY <1>1 DEF Publish, Untouched, TInv, ThreadLocals, event
    <2>w. Wakers' = Wakers
      <3>1. OthersStay(t)
        BY <1>1 DEF Publish, OthersStay, TInv, ThreadLocals
      <3> QED
        BY <2>1, <3>1, ThreadSameHands
    <2>3. ArmedOf(t) => ArmedOf(t)'
      BY <2>1 DEF ArmedOf
    <2>4. OwnLock(t) /\ next' <= next /\ tstate'[t] # "BLOCKED"
      BY <1>b, <1>n, <2>1 DEF OwnLock
    <2> QED
      BY <1>0, <2>1, <2>2, <2>3, <2>4, <2>w, OwnStep
  <1>2. ASSUME NEW f \in Futexes, NEW ms \in Timeouts, FutexWait(t, f, ms) PROVE UInv'
    <2>1. /\ thr[t].at = "user" /\ ThreadRuns(t) /\ lock' = [lock EXCEPT ![f] = t]
          /\ UNCHANGED <<smp, now, next, armed, tick, tstate, pend, scan>>
      BY <1>2 DEF FutexWait, event
    <2>2. \A u \in Threads \ {t} : Untouched(u)
      BY <1>2 DEF FutexWait, Untouched, TInv, event
    <2>3. \/ thr'[t].at = "arm_tick" /\ thr'[t].deadline # 0
          \/ thr'[t].at = "link" /\ thr'[t].deadline = 0
      <3>1. ms \in Nat
        BY TimedWaitAssumption
      <3> QED
        BY <1>2, <1>n, <3>1 DEF FutexWait, TInv
    <2>w. Wakers' = Wakers
      <3>1. OthersStay(t)
        BY <1>2 DEF FutexWait, OthersStay, TInv
      <3> QED
        BY <2>1, <2>3, <3>1, ThreadSameHands
    <2>4. ArmedOf(t) => ArmedOf(t)'
      BY <2>1, <2>3 DEF ArmedOf
    <2>5. OwnLock(t) /\ next' <= next /\ tstate'[t] # "BLOCKED"
      BY <1>b, <1>n, <2>1 DEF OwnLock, TInv
    <2> QED
      BY <1>0, <2>1, <2>2, <2>4, <2>5, <2>w, OwnStep
  <1> QED
    BY <1>1, <1>2 DEF Call

\* A call goes on: deadlines.
LEMMA AdvanceDeadlines ==
    ASSUME TInv, LInv, UInv, NEW t \in Threads, Advance(t)
    PROVE  UInv'
  <1>0. smp' = smp /\ now' = now /\ scan' = scan /\ TInv' /\ ThreadRuns(t)
    <2>1. TInv'
      BY AdvanceType DEF LInv
    <2> QED
      BY <2>1 DEF Advance, ArmTick, ArmSeq, ArmLoad, ArmCas, Link, Block, Resume, Return,
                  FutexWake, WakeOne, WakePromote, WakeDone
  <1> SUFFICES ASSUME ~smp PROVE UInv'
    BY <1>0 DEF UInv
  <1>n. next \in Nat /\ now \in Nat /\ thr[t].deadline \in Nat /\ next <= next
    BY Locals DEF TInv, ThreadLocals
  <1>b. thr[t].at # "parked" => tstate[t] # "BLOCKED"
    BY DEF LInv, BlockedOnOwn
  <1>f. thr[t].at # "user" => thr[t].futex \in Futexes
    BY DEF LInv, InProgress
  <1>l. lock' = lock => OwnLock(t)
    BY DEF OwnLock
  <1>w. ASSUME NEW a, Moves(t, a), thr[t].at # "promote", a # "promote" PROVE Wakers' = Wakers
    BY <1>0, <1>w, MovesStay, ThreadSameHands
  <1>1. CASE ArmTick(t)
    <2>1. Moves(t, "arm_seq") /\ SameCall(t) /\ thr[t].at = "arm_tick"
      BY <1>1, ThreadMoves DEF ArmTick, ThreadSteps
    <2>2. /\ tick'[t] = thr[t].deadline /\ \A u \in Threads \ {t} : tick'[u] = tick[u]
          /\ UNCHANGED <<next, armed, tstate, pend, lock>>
      BY <1>1 DEF ArmTick, TInv, event
    <2>3. \A u \in Threads \ {t} : Untouched(u)
      BY <2>1, <2>2 DEF Untouched, Moves
    <2>4. ArmedOf(t) => ArmedOf(t)'
      BY <1>0, <2>1, <2>2 DEF ArmedOf, Moves, SameCall
    <2>w. Wakers' = Wakers
      BY <1>w, <2>1
    <2> QED
      BY <1>0, <1>n, <1>b, <1>l, <2>1, <2>2, <2>3, <2>4, <2>w, OwnStep
  <1>2. CASE ArmSeq(t)
    <2>1. Moves(t, "arm_load") /\ SameCall(t) /\ thr[t].at = "arm_seq"
      BY <1>2, ThreadMoves DEF ArmSeq, ThreadSteps
    <2>2. UNCHANGED <<next, tick, tstate, pend, lock>> /\ armed' = {c \in Cpus : Scanning(c)}
      BY <1>2 DEF ArmSeq, event
    <2>3. ArmedOf(t) => ArmedOf(t)'
      BY <1>0, <2>1, <2>2 DEF ArmedOf, Moves, SameCall
    <2>w. Wakers' = Wakers
      BY <1>w, <2>1
    <2> QED
      BY <1>0, <1>n, <1>b, <1>l, <2>1, <2>2, <2>3, <2>w, MovesUntouched, OwnStep
  <1>3. CASE ArmLoad(t)
    <2>1. /\ SameCall(t) /\ thr[t].at = "arm_load"
          /\ \/ thr[t].deadline < next /\ Moves(t, "arm_cas") /\ thr'[t].cur = next
             \/ ~(thr[t].deadline < next) /\ Moves(t, "link")
      BY <1>3, ThreadMoves DEF ArmLoad, TInv
    <2>2. UNCHANGED <<next, tick, tstate, pend, lock, armed>>
      BY <1>3 DEF ArmLoad, event
    <2>3. ArmedOf(t) => ArmedOf(t)'
      <3>1. CASE thr[t].deadline < next /\ Moves(t, "arm_cas") /\ thr'[t].cur = next
        BY <1>0, <2>1, <2>2, <3>1 DEF ArmedOf, Moves, SameCall
      <3>2. CASE ~(thr[t].deadline < next) /\ Moves(t, "link")
        BY <1>0, <1>n, <2>1, <2>2, <3>2 DEF ArmedOf, Moves, SameCall
      <3> QED
        BY <2>1, <3>1, <3>2
    <2>4. \A u \in Threads \ {t} : Untouched(u)
      BY <2>1, <2>2, MovesUntouched
    <2>w. Wakers' = Wakers
      BY <1>w, <2>1
    <2> QED
      BY <1>0, <1>n, <1>b, <1>l, <2>1, <2>2, <2>3, <2>4, <2>w, OwnStep
  <1>4. CASE ArmCas(t)
    <2>1. /\ SameCall(t) /\ thr[t].at = "arm_cas"
          /\ UNCHANGED <<tick, tstate, pend, lock, armed>>
          /\ \/ next = thr[t].cur /\ next' = thr[t].deadline /\ Moves(t, "link")
             \/ next' = next /\ thr[t].deadline < next /\ Moves(t, "arm_cas") /\ thr'[t].cur = next
             \/ next' = next /\ ~(thr[t].deadline < next) /\ Moves(t, "link")
      BY <1>4, ThreadMoves DEF ArmCas, TInv, event
    <2>2. ArmedOf(t)
      BY DEF UInv, ArmedTicks
    <2>3. next' <= next /\ ArmedOf(t)'
      <3>1. CASE next = thr[t].cur /\ next' = thr[t].deadline /\ Moves(t, "link")
        BY <1>0, <1>n, <2>1, <2>2, <3>1 DEF ArmedOf, Moves, SameCall
      <3>2. CASE next' = next /\ thr[t].deadline < next /\ Moves(t, "arm_cas") /\ thr'[t].cur = next
        BY <1>0, <1>n, <2>1, <2>2, <3>2 DEF ArmedOf, Moves, SameCall
      <3>3. CASE next' = next /\ ~(thr[t].deadline < next) /\ Moves(t, "link")
        BY <1>0, <1>n, <2>1, <2>2, <3>3 DEF ArmedOf, Moves, SameCall
      <3> QED
        BY <2>1, <3>1, <3>2, <3>3
    <2>4. \A u \in Threads \ {t} : Untouched(u)
      BY <2>1, MovesUntouched
    <2>w. Wakers' = Wakers
      BY <1>w, <2>1
    <2> QED
      BY <1>0, <1>b, <1>l, <2>1, <2>3, <2>4, <2>w, OwnStep
  <1>5. CASE Link(t)
    <2>1. Moves(t, "block") /\ SameCall(t) /\ thr[t].at = "link"
      BY <1>5, ThreadMoves DEF Link, ThreadSteps
    <2>2. /\ pend'[t] = "NONE" /\ \A u \in Threads \ {t} : pend'[u] = pend[u]
          /\ UNCHANGED <<next, armed, tick, tstate, lock>>
      BY <1>5 DEF Link, TInv
    <2>3. \A u \in Threads \ {t} : Untouched(u)
      BY <2>1, <2>2 DEF Untouched, Moves
    <2>4. ArmedOf(t) => ArmedOf(t)'
      BY <1>0, <2>1, <2>2 DEF ArmedOf, Moves, SameCall
    <2>w. Wakers' = Wakers
      BY <1>w, <2>1
    <2> QED
      BY <1>0, <1>n, <1>b, <1>l, <2>1, <2>2, <2>3, <2>4, <2>w, OwnStep
  <1>6. CASE Block(t)
    <2>1. Moves(t, "parked") /\ SameCall(t) /\ thr[t].at = "block"
      BY <1>6, ThreadMoves DEF Block, ThreadSteps
    <2>2. /\ \A u \in Threads \ {t} : tstate'[u] = tstate[u]
          /\ UNCHANGED <<next, armed, tick, pend>> /\ OwnLock(t)
      BY <1>6 DEF Block, TInv, event, OwnLock
    <2>3. ArmedOf(t) => ArmedOf(t)'
      BY <1>0, <2>1, <2>2 DEF ArmedOf, Moves, SameCall
    <2>4. ArmedOf(t) => /\ tick'[t] = thr'[t].deadline
                        /\ tick'[t] # 0 => next' <= tick'[t]
      BY <2>1, <2>2 DEF ArmedOf, SameCall
    <2>w. Wakers' = Wakers
      BY <1>w, <2>1
    <2> QED
      BY <1>0, <1>n, <2>1, <2>2, <2>3, <2>4, <2>w, MovesUntouched, OwnStep
  <1>7. CASE Resume(t)
    <2>1. Moves(t, "resumed") /\ SameCall(t) /\ thr[t].at = "parked"
      BY <1>7, ThreadMoves DEF Resume, ThreadSteps
    <2>2. /\ \A u \in Threads \ {t} : tstate'[u] = tstate[u]
          /\ tstate'[t] # "BLOCKED"
          /\ UNCHANGED <<next, armed, tick, pend, lock>>
      BY <1>7 DEF Resume, TInv, event
    <2>3. ArmedOf(t) => ArmedOf(t)'
      BY <1>0, <2>1, <2>2 DEF ArmedOf, Moves, SameCall
    <2>w. Wakers' = Wakers
      BY <1>w, <2>1
    <2> QED
      BY <1>0, <1>n, <1>l, <2>1, <2>2, <2>3, <2>w, MovesUntouched, OwnStep
  <1>8. CASE Return(t)
    <2>1. Moves(t, "user") /\ thr[t].at = "resumed"
      BY <1>8, ThreadMoves DEF Return
    <2>2. /\ pend'[t] = "NONE" /\ tick'[t] = 0
          /\ \A u \in Threads \ {t} : pend'[u] = pend[u] /\ tick'[u] = tick[u]
          /\ UNCHANGED <<next, armed, tstate, lock>>
      BY <1>8 DEF Return, TInv
    <2>3. \A u \in Threads \ {t} : Untouched(u)
      BY <2>1, <2>2 DEF Untouched, Moves
    <2>4. ArmedOf(t) => ArmedOf(t)'
      BY <1>0, <2>1, <2>2 DEF ArmedOf, Moves
    <2>w. Wakers' = Wakers
      BY <1>w, <2>1
    <2> QED
      BY <1>0, <1>n, <1>b, <1>l, <2>1, <2>2, <2>3, <2>4, <2>w, OwnStep
  <1>9. CASE FutexWake(t)
    <2>1. Moves(t, "wake") /\ SameCall(t) /\ thr[t].at = "publish"
      BY <1>9, ThreadMoves DEF FutexWake
    <2>2. UNCHANGED <<next, tick, tstate, pend, armed>> /\ OwnLock(t)
      BY <1>9 DEF FutexWake, event, OwnLock, TInv
    <2>3. ArmedOf(t) => ArmedOf(t)'
      BY <1>0, <2>1, <2>2 DEF ArmedOf, Moves, SameCall
    <2>w. Wakers' = Wakers
      BY <1>w, <2>1
    <2> QED
      BY <1>0, <1>n, <1>b, <2>1, <2>2, <2>3, <2>w, MovesUntouched, OwnStep
  <1>10. CASE WakeDone(t)
    <2>1. Moves(t, "user") /\ thr[t].at = "wake"
      BY <1>10, ThreadMoves DEF WakeDone
    <2>2. UNCHANGED <<next, tick, tstate, pend, armed>> /\ OwnLock(t)
      BY <1>10 DEF WakeDone, event, OwnLock, TInv
    <2>3. ArmedOf(t) => ArmedOf(t)'
      BY <1>0, <2>1, <2>2 DEF ArmedOf, Moves
    <2>w. Wakers' = Wakers
      BY <1>w, <2>1
    <2> QED
      BY <1>0, <1>n, <1>b, <2>1, <2>2, <2>3, <2>w, MovesUntouched, OwnStep
  <1>11. CASE WakeOne(t)
    <2> DEFINE f == thr[t].futex
               u == Head(wait_list[f])
    <2>2. /\ f \in Futexes /\ wait_list[f] \in Seq(Threads) /\ wait_list[f] # << >>
          /\ UNCHANGED <<next, armed, tstate, lock>> /\ thr[t].at = "wake"
      BY <1>11, <1>f DEF TInv, WakeOne
    <2>3. u \in Threads /\ u \in On(f)
      BY <2>2, TailElems DEF On, Elems
    <2>4. wait_event[u] = f /\ Detach(u, f, "OK") /\ tick' = [tick EXCEPT ![u] = 0]
      BY <1>11, <2>2, <2>3 DEF WakeOne, LInv, Linked
    <2>m. /\ thr[t].left > 0
          /\ thr' = [thr EXCEPT ![t].at = "promote", ![t].left = @ - 1, ![t].who = u]
      BY <1>11 DEF WakeOne
    <2> HIDE DEF f, u
    <2>1. Moves(t, "promote") /\ SameCall(t) /\ thr'[t].who = u
      BY <2>3, <2>m, TakeMoves
    <2>5. /\ \A v \in Threads \ {u} : pend'[v] = pend[v] /\ tick'[v] = tick[v]
          /\ pend'[u] = "OK" /\ tick'[u] = 0
      BY <2>2, <2>3, <2>4, DetachLinked DEF LInv, TInv
    <2>6. /\ \A v \in Threads : thr'[v].deadline = thr[v].deadline
          /\ \A v \in Threads \ {t} : thr'[v].at = thr[v].at
          /\ thr'[t].at = "promote"
      BY <2>1 DEF Moves, SameCall
    <2>7. /\ QuietTicks /\ \A v \in Threads : thr[v].at \in LockSteps => v = t
          /\ ArmedTicks' /\ QuietTicks' => UInv'
      BY <1>0, <1>l, <2>2, RunsAlone
    <2>8. tstate[u] = "BLOCKED" /\ thr[u].at = "parked" /\ u # t
      <3>1. thr[u].at # "block"
        BY <2>2, <2>3, <2>7 DEF LockSteps
      <3> QED
        BY <2>2, <2>3, <2>4, <3>1, Locals DEF LInv, BlockedOnOwn
    <2>9. ArmedTicks'
      <3>1. ArmedTicks
        BY DEF UInv
      <3>2. ASSUME NEW v \in Threads, v = u PROVE ArmedOf(v)'
        BY <2>3, <2>5, <2>6, <2>8, <3>2 DEF ArmedOf
      <3>3. ASSUME NEW v \in Threads, v # u, v # t PROVE ArmedOf(v)'
        <4>1. thr[v].at # "arm_cas"
          BY <2>2, <2>7 DEF LockSteps
        <4> QED
          BY <1>0, <2>2, <2>5, <2>6, <3>1, <3>3, <4>1 DEF ArmedTicks, ArmedOf
      <3>4. ArmedOf(t)'
        BY <1>0, <2>2, <2>5, <2>6, <2>8, <3>1 DEF ArmedTicks, ArmedOf
      <3> QED
        BY <3>2, <3>3, <3>4 DEF ArmedTicks
    <2>w. Wakers'[u] # {} /\ \A v \in Threads : Wakers[v] # {} => Wakers'[v] # {}
      <3>1. OthersStay(t) /\ thr'[t].at = "promote"
        BY <2>1, MovesStay
      <3>2. Wakers' = [Wakers EXCEPT ![u] = @ \cup {t}]
        BY <1>0, <2>1, <2>2, <2>3, <3>1, ThreadTakes
      <3> QED
        BY <2>3, <3>2 DEF Wakers
    <2>10. QuietTicks'
      BY <2>2, <2>5, <2>6, <2>7, <2>w DEF QuietTicks
    <2> QED
      BY <2>7, <2>9, <2>10
  <1>12. CASE WakePromote(t)
    <2> DEFINE u == thr[t].who
    <2>1. /\ thr[t].at = "promote" /\ u \in Threads /\ Promote(u)
          /\ UNCHANGED <<next, armed, tick, pend, lock>>
      BY <1>12 DEF WakePromote, LInv, InProgress, event
    <2>2. Moves(t, "wake") /\ SameCall(t)
      BY <1>12, WokenMoves DEF WakePromote
    <2>3. tstate'[u] # "BLOCKED" /\ \A v \in Threads \ {u} : tstate'[v] = tstate[v]
      BY <2>1, PromoteEffect
    <2>4. \A v \in Threads \ {u} : Wakers'[v] = Wakers[v]
      <3>1. OthersStay(t) /\ thr'[t].at = "wake"
        BY <2>2, MovesStay
      <3>2. Wakers' = [Wakers EXCEPT ![u] = @ \ {t}]
        BY <1>0, <2>1, <3>1, ThreadGives
      <3> HIDE DEF u
      <3> QED
        BY <3>2 DEF Wakers
    <2> HIDE DEF u
    <2>5. /\ QuietTicks /\ \A v \in Threads : thr[v].at \in LockSteps => v = t
          /\ ArmedTicks' /\ QuietTicks' => UInv'
      BY <1>0, <1>l, <2>1, RunsAlone
    <2>6. \A v \in Threads \ {t} : Untouched(v)
      BY <2>1, <2>2, MovesUntouched
    <2>7. ArmedTicks'
      <3>1. ArmedTicks
        BY DEF UInv
      <3>2. ArmedOf(t)'
        BY <1>0, <2>1, <2>2, <3>1 DEF ArmedTicks, ArmedOf, Moves, SameCall
      <3> QED
        BY <1>0, <2>5, <2>6, <3>1, <3>2, OthersArmed DEF ArmedTicks
    <2>8. QuietTicks'
      <3>1. \A v \in Threads : thr'[v].deadline = thr[v].deadline
        BY <2>2 DEF Moves, SameCall
      <3> QED
        BY <2>1, <2>3, <2>4, <2>5, <3>1 DEF QuietTicks
    <2> QED
      BY <2>5, <2>7, <2>8
  <1> QED
    BY <1>1, <1>2, <1>3, <1>4, <1>5, <1>6, <1>7, <1>8, <1>9, <1>10, <1>11, <1>12 DEF Advance

\* The scan under way is the only one, and it has the machine to itself.
LEMMA ScansAlone ==
    ASSUME TInv, LInv, UInv, ~smp, NEW c \in Cpus, Scanning(c), scan' \in [Cpus -> ScanLocals],
           \A d \in Cpus \ {c} : scan'[d] = scan[d],
           UNCHANGED <<smp, now, thr, lock>>, armed' = armed \/ armed' = armed \ {c}
    PROVE  /\ \A d \in Cpus : d # c => scan[d].at = "idle" /\ scan'[d].at = "idle"
           /\ \A t \in Threads : thr[t].at \notin LockSteps
           /\ armed = {} /\ scan[c].now <= now /\ scan[c].observed = next
           /\ scan'[c].at = "idle" => Alone'
           /\ SameStart(c) /\ next' = next => Alone'
  <1>1. Alone
    BY DEF UInv
  <1>2. \A d \in Cpus : d # c => scan[d].at = "idle" /\ scan'[d].at = "idle"
    BY <1>1 DEF Alone, Scanning
  <1>3. \A t \in Threads : thr[t].at \notin LockSteps
    BY <1>1 DEF Alone, LInv, LockHeld, InProgress, LockSteps, Locked
  <1>4. /\ armed = {} /\ armed' = {} /\ scan[c].now <= now /\ scan[c].observed = next
        /\ \A t \in Threads : ~Locked(t) /\ ~Locked(t)'
    BY <1>1 DEF Alone, Locked
  <1>5. ASSUME scan'[c].at = "idle" PROVE Alone'
    BY <1>2, <1>4, <1>5 DEF Alone, Scanning
  <1>6. ASSUME SameStart(c), next' = next PROVE Alone'
    BY <1>2, <1>4, <1>6 DEF Alone, Scanning, SameStart
  <1> QED
    BY <1>2, <1>3, <1>4, <1>5, <1>6

\* ParkedTicks and ScanReads, as they are while c scans alone.
ParkedIn(c) == \A t \in Threads : tstate[t] = "BLOCKED" =>
                  /\ \/ tick[t] = thr[t].deadline
                     \/ scan[c].at \in {"fire_load", "fire", "promote"} /\ scan[c].i = t
                  /\ tick[t] # 0 =>
                        /\ scan[c].at = "idle" => next <= tick[t]
                        /\ scan[c].at \in SlotSteps \cup {"tick"} /\ t < scan[c].i
                              => scan[c].next <= tick[t]
                        /\ scan[c].at = "publish" => scan[c].next <= tick[t]
ReadIn(c) == /\ scan[c].at = "state" => scan[c].d = tick[scan[c].i] /\ scan[c].d # 0
             /\ scan[c].at = "clear" => tstate[scan[c].i] # "BLOCKED"
             /\ scan[c].at \in {"expire", "fire_load", "fire"} =>
                   /\ tstate[scan[c].i] = "BLOCKED"
                   /\ scan[c].d = thr[scan[c].i].deadline /\ scan[c].d # 0 /\ scan[c].d <= scan[c].now
             /\ scan[c].at = "fire" => scan[c].ev = wait_event[scan[c].i]

\* With the other CPUs idle these are all there is to it.
LEMMA OneScan ==
    ASSUME NEW c \in Cpus, \A d \in Cpus : d # c => scan[d].at = "idle",
           \A u \in Threads : thr[u].at # "promote"
    PROVE  ParkedTicks /\ ScanReads <=> ParkedIn(c) /\ ReadIn(c)
  <1>1. \A t \in Threads : Expiring(t) <=> scan[c].at \in {"fire_load", "fire"} /\ scan[c].i = t
    BY DEF Expiring
  <1>2. NoScan <=> scan[c].at = "idle"
    BY DEF NoScan, Scanning
  <1>3. ScanReads <=> ReadIn(c)
    BY DEF ScanReads, ReadIn
  <1>5. \A t \in Threads : Wakers[t] # {} <=> scan[c].at = "promote" /\ scan[c].i = t
    BY DEF Wakers, Hand
  <1>4. ParkedTicks <=> ParkedIn(c)
    BY <1>1, <1>2, <1>5 DEF ParkedTicks, ParkedIn, SlotSteps
  <1> QED
    BY <1>3, <1>4

\* The same after a step.
LEMMA OneScanNext ==
    ASSUME NEW c \in Cpus, \A d \in Cpus : d # c => scan'[d].at = "idle",
           \A u \in Threads : thr'[u].at # "promote"
    PROVE  ParkedTicks' /\ ScanReads' <=> ParkedIn(c)' /\ ReadIn(c)'
  <1>1. \A t \in Threads : Expiring(t)' <=> scan'[c].at \in {"fire_load", "fire"} /\ scan'[c].i = t
    BY DEF Expiring
  <1>2. NoScan' <=> scan'[c].at = "idle"
    BY DEF NoScan, Scanning
  <1>3. ScanReads' <=> ReadIn(c)'
    BY DEF ScanReads, ReadIn
  <1>5. \A t \in Threads : Wakers'[t] # {} <=> scan'[c].at = "promote" /\ scan'[c].i = t
    BY DEF Wakers, Hand
  <1>4. ParkedTicks' <=> ParkedIn(c)'
    BY <1>1, <1>2, <1>5 DEF ParkedTicks, ParkedIn, SlotSteps
  <1> QED
    BY <1>3, <1>4

\* No step of a scan is taken while a thread is inside a lock, so what ArmedTicks
\* says is about threads outside: it stays true if only idle deadlines are cleared.
LEMMA ScanArmed ==
    ASSUME TInv, ArmedTicks, UNCHANGED <<now, thr>>, \A t \in Threads : thr[t].at \notin LockSteps,
           \A t \in Threads : tick'[t] \in {tick[t], 0},
           \A t \in Threads : \/ pend'[t] = pend[t]
                              \/ /\ pend'[t] = "TIMEOUT" /\ thr[t].at = "parked"
                                 /\ thr[t].deadline # 0 /\ now >= thr[t].deadline
    PROVE  ArmedTicks'
  <1> SUFFICES ASSUME NEW t \in Threads PROVE ArmedOf(t)'
    BY DEF ArmedTicks
  <1>1. thr[t].at \notin {"arm_tick", "arm_seq", "arm_load", "arm_cas", "link", "block", "wake",
                        "promote"}
    BY DEF LockSteps
  <1>2. ArmedOf(t) /\ thr' = thr /\ now' = now
    BY DEF ArmedTicks
  <1>3. CASE pend'[t] = pend[t]
    BY <1>1, <1>2, <1>3 DEF ArmedOf
  <1>4. CASE /\ pend'[t] = "TIMEOUT" /\ thr[t].at = "parked"
             /\ thr[t].deadline # 0 /\ now >= thr[t].deadline
    BY <1>1, <1>2, <1>4 DEF ArmedOf
  <1> QED
    BY <1>3, <1>4

\* A scan goes on: deadlines.
LEMMA ScanDeadlines ==
    ASSUME TInv, LInv, UInv, NEW c \in Cpus, Scan(c)
    PROVE  UInv'
  <1>0. UNCHANGED <<smp, now, thr, lock>> /\ TInv' /\ scan' \in [Cpus -> ScanLocals] /\ InProgress
    <2>1. TInv'
      BY ScanType DEF LInv
    <2> QED
      BY <2>1, ScanQuiet DEF TInv, LInv
  <1> SUFFICES ASSUME ~smp PROVE UInv'
    BY <1>0 DEF UInv
  <1>a. Alone /\ ArmedTicks /\ ParkedTicks /\ ScanReads
    BY DEF UInv
  <1>n. /\ next \in Nat /\ now \in Nat /\ \A t \in Threads : tick[t] \in Nat /\ t \in Nat
        /\ scan[c].next \in Nat /\ scan[c].i \in Nat /\ scan'[c].next \in Nat /\ scan'[c].i \in Nat
        /\ scan[c].d \in Nat /\ scan[c].now \in Nat
    <2>1. scan[c] \in ScanLocals /\ scan'[c] \in ScanLocals
      BY <1>0 DEF TInv
    <2>2. /\ scan[c].next \in Nat /\ scan[c].i \in Nat /\ scan[c].d \in Nat /\ scan[c].now \in Nat
          /\ scan'[c].next \in Nat /\ scan'[c].i \in Nat
      BY <2>1, Locals DEF ScanLocals
    <2> QED
      BY <2>2, Locals DEF TInv, Threads
  <1>1. CASE Check(c)
    <2>1. /\ ScanMoves(c, "seq") /\ scan'[c].now = now /\ scan'[c].observed = next
          /\ UNCHANGED <<next, armed, tick, tstate, pend, wait_event>>
          /\ scan[c].at = "idle" /\ ScanRuns(c)
      BY <1>0, <1>1, ScanStepMoves DEF Check, event
    <2>2. /\ \A d \in Cpus : d # c => scan[d].at = "idle" /\ scan'[d].at = "idle"
          /\ \A t \in Threads : ~Locked(t) /\ ~Locked(t)'
      BY <1>0, <2>1 DEF ScanRuns, ScanMoves, Scanning, Locked
    <2>3. \A t \in Threads : thr[t].at \notin LockSteps
      BY <2>2 DEF LInv, LockHeld, InProgress, LockSteps, Locked
    <2>4. Alone'
      BY <1>0, <1>a, <1>n, <2>1, <2>2 DEF Alone, Scanning
    <2>5. ArmedTicks'
      BY <1>0, <1>a, <2>1, <2>3, ScanArmed
    <2>6. ParkedIn(c) /\ scan'[c].at = "seq"
      BY <1>a, <2>1, <2>2, <2>3, OneScan DEF ScanMoves, LockSteps
    <2>7. ParkedIn(c)' /\ ReadIn(c)'
      BY <1>0, <2>1, <2>6 DEF ParkedIn, ReadIn, SlotSteps
    <2>8. ParkedTicks' /\ ScanReads'
      BY <1>0, <2>2, <2>3, <2>7, OneScanNext DEF LockSteps
    <2> QED
      BY <2>4, <2>5, <2>8 DEF UInv
  <1>2. ASSUME Scanning(c), ScanMoves(c, scan'[c].at), armed' = armed \/ armed' = armed \ {c}
        PROVE  /\ \A t \in Threads : thr[t].at \notin LockSteps
               /\ ParkedIn(c) /\ ReadIn(c)
               /\ armed = {} /\ scan[c].now <= now /\ scan[c].observed = next
               /\ /\ scan'[c].at = "idle" \/ (SameStart(c) /\ next' = next)
                  /\ ParkedIn(c)' /\ ReadIn(c)' /\ ArmedTicks'
                  => UInv'
    <2>1. /\ \A d \in Cpus : d # c => scan[d].at = "idle" /\ scan'[d].at = "idle"
          /\ \A t \in Threads : thr[t].at \notin LockSteps
          /\ armed = {} /\ scan[c].now <= now /\ scan[c].observed = next
          /\ scan'[c].at = "idle" => Alone'
          /\ SameStart(c) /\ next' = next => Alone'
      BY <1>0, <1>2, ScansAlone DEF ScanMoves
    <2>2. ParkedIn(c) /\ ReadIn(c)
      BY <1>a, <2>1, OneScan DEF LockSteps
    <2>3. ParkedIn(c)' /\ ReadIn(c)' => ParkedTicks' /\ ScanReads'
      BY <1>0, <2>1, OneScanNext DEF LockSteps
    <2> QED
      BY <2>1, <2>2, <2>3 DEF UInv
  <1>3. CASE LoadSeq(c)
    <2>1. /\ ScanMoves(c, "tick") /\ SameScan(c) /\ scan'[c].i = 1 /\ scan'[c].at = "tick"
          /\ UNCHANGED <<next, tick, tstate, pend, wait_event>> /\ armed' = armed \ {c}
          /\ scan[c].at = "seq" /\ Scanning(c)
      <3>1. scan[c].i = 0 /\ NThreads >= 0
        BY <1>0, <1>3, Locals DEF LoadSeq, InProgress
      <3> QED
        BY <1>0, <1>3, <3>1, ScanStepMoves DEF LoadSeq, event, Scanning, ScanMoves
    <2>2. ArmedTicks'
      BY <1>0, <1>2, <1>a, <2>1, ScanArmed
    <2>3. ParkedIn(c)' /\ ReadIn(c)'
      <3>1. \A t \in Threads : ~(t < 1)
        BY DEF Threads
      <3> QED
        BY <1>0, <1>2, <2>1, <3>1 DEF ParkedIn, ReadIn
    <2> QED
      BY <1>2, <2>1, <2>2, <2>3 DEF SameScan
  <1>4. CASE LoadTick(c)
    <2>1. /\ UNCHANGED <<next, tick, tstate, pend, wait_event, armed>>
          /\ scan[c].at = "tick" /\ Scanning(c) /\ scan[c].i <= NThreads
      BY <1>4 DEF LoadTick, event, Scanning
    <2>2. CASE /\ tick[scan[c].i] = 0 /\ ScanMoves(c, "tick") /\ SameScan(c)
               /\ scan'[c].i = scan[c].i + 1
      <3>0. scan'[c].at = "tick"
        BY <2>2 DEF ScanMoves
      <3>1. ArmedTicks'
        BY <1>0, <1>2, <1>a, <2>1, <2>2, <3>0, ScanArmed
      <3>2. ParkedIn(c)' /\ ReadIn(c)'
        <4>1. \A t \in Threads : t < scan'[c].i => t < scan[c].i \/ tick[t] = 0
          BY <1>n, <2>2
        <4> QED
          BY <1>0, <1>2, <2>1, <2>2, <3>0, <4>1 DEF ParkedIn, ReadIn, SameScan
      <3> QED
        BY <1>2, <2>1, <2>2, <3>0, <3>1, <3>2 DEF SameScan
    <2>3. CASE /\ tick[scan[c].i] # 0 /\ ScanMoves(c, "state") /\ SameSlot(c) /\ SameScan(c)
               /\ scan'[c].d = tick[scan[c].i]
      <3>0. scan'[c].at = "state" /\ scan'[c].i = scan[c].i
        BY <2>3 DEF ScanMoves, SameSlot
      <3>1. ArmedTicks'
        BY <1>0, <1>2, <1>a, <2>1, <2>3, <3>0, ScanArmed
      <3>2. ParkedIn(c)' /\ ReadIn(c)'
        BY <1>0, <1>2, <2>1, <2>3, <3>0 DEF ParkedIn, ReadIn, SameScan, SlotSteps
      <3> QED
        BY <1>2, <2>1, <2>3, <3>0, <3>1, <3>2 DEF SameScan
    <2> QED
      BY <1>0, <1>4, <2>1, <2>2, <2>3, ScanStepMoves
  <1>5. CASE TestState(c)
    <2> DEFINE i == scan[c].i
    <2>1. /\ UNCHANGED <<next, tick, tstate, pend, wait_event, armed>>
          /\ scan[c].at = "state" /\ Scanning(c) /\ i \in Threads
      BY <1>0, <1>5 DEF TestState, event, Scanning, InProgress, SlotSteps
    <2>2. CASE tstate[i] # "BLOCKED" /\ ScanMoves(c, "clear") /\ SameRead(c)
      <3>0. scan'[c].at = "clear" /\ scan'[c].i = scan[c].i /\ SameScan(c)
        BY <2>2 DEF ScanMoves, SameRead, SameSlot
      <3>1. ArmedTicks'
        BY <1>0, <1>2, <1>a, <2>1, <2>2, <3>0, ScanArmed
      <3>2. ParkedIn(c)' /\ ReadIn(c)'
        BY <1>0, <1>2, <2>1, <2>2, <3>0 DEF ParkedIn, ReadIn, SameScan, SlotSteps
      <3> QED
        BY <1>2, <2>1, <2>2, <3>0, <3>1, <3>2 DEF SameScan
    <2>3. CASE /\ tstate[i] = "BLOCKED" /\ scan[c].d <= scan[c].now
               /\ ScanMoves(c, "expire") /\ SameRead(c)
      <3>0. /\ scan'[c].at = "expire" /\ scan'[c].i = scan[c].i /\ SameScan(c)
            /\ scan'[c].d = scan[c].d
        BY <2>3 DEF ScanMoves, SameRead, SameSlot
      <3>1. ArmedTicks'
        BY <1>0, <1>2, <1>a, <2>1, <2>3, <3>0, ScanArmed
      <3>2. scan[c].d = thr[i].deadline /\ scan[c].d # 0
        BY <1>2, <2>1, <2>3, <3>0 DEF ParkedIn, ReadIn
      <3>3. ParkedIn(c)' /\ ReadIn(c)'
        BY <1>0, <1>2, <2>1, <2>3, <3>0, <3>2 DEF ParkedIn, ReadIn, SameScan, SameStart, SlotSteps
      <3> QED
        BY <1>2, <2>1, <2>3, <3>0, <3>1, <3>3 DEF SameScan
    <2>4. CASE /\ tstate[i] = "BLOCKED" /\ ScanMoves(c, "tick") /\ SameStart(c)
               /\ scan'[c].i = i + 1
               /\ scan'[c].next <= scan[c].next /\ scan'[c].next <= scan[c].d
      <3>0. scan'[c].at = "tick"
        BY <2>4 DEF ScanMoves
      <3>1. ArmedTicks'
        BY <1>0, <1>2, <1>a, <2>1, <2>4, <3>0, ScanArmed
      <3>2. ParkedIn(c) /\ scan[c].d = tick[i]
        BY <1>2, <2>1, <2>4, <3>0 DEF ReadIn
      <3>3. ASSUME NEW t \in Threads, tstate[t] = "BLOCKED", tick[t] # 0, t < scan'[c].i
            PROVE  scan'[c].next <= tick[t]
        <4>1. t < i \/ t = i
          BY <1>n, <2>4, <3>3
        <4>2. t < i => scan[c].next <= tick[t]
          BY <2>1, <3>2, <3>3 DEF ParkedIn, SlotSteps
        <4> QED
          BY <1>n, <2>4, <3>2, <4>1, <4>2
      <3>4. ParkedIn(c)' /\ ReadIn(c)'
        BY <1>0, <2>1, <3>0, <3>2, <3>3 DEF ParkedIn, ReadIn
      <3> QED
        BY <1>2, <2>1, <2>4, <3>0, <3>1, <3>4
    <2> QED
      BY <1>0, <1>5, <2>2, <2>3, <2>4, ScanStepMoves
  <1>n1. ASSUME NextSlot(c), scan[c].at \in SlotSteps
         PROVE  /\ ScanMoves(c, "tick") /\ SameScan(c) /\ scan'[c].i = scan[c].i + 1
                /\ scan'[c].at = "tick" /\ scan[c].i \in Threads /\ Scanning(c)
    <2>1. scan[c].i \in Threads /\ scan[c].i <= NThreads
      BY <1>0, <1>n1 DEF InProgress, Threads
    <2> QED
      BY <1>0, <1>n1, <2>1, ScanStepMoves DEF ScanMoves, Scanning, SlotSteps
  <1>6. CASE Clear(c)
    <2> DEFINE i == scan[c].i
    <2>1. /\ UNCHANGED <<next, tstate, pend, wait_event, armed>> /\ scan[c].at = "clear"
          /\ ScanMoves(c, "tick") /\ SameScan(c) /\ scan'[c].i = i + 1
          /\ scan'[c].at = "tick" /\ i \in Threads /\ Scanning(c)
      BY <1>6, <1>n1 DEF Clear, event, SlotSteps
    <2>2. tick'[i] = 0 /\ \A t \in Threads : t # i => tick'[t] = tick[t]
      BY <1>6, <2>1 DEF Clear, TInv
    <2>3. ArmedTicks'
      BY <1>0, <1>2, <1>a, <2>1, <2>2, ScanArmed
    <2>4. ParkedIn(c) /\ tstate[i] # "BLOCKED"
      BY <1>2, <2>1 DEF ReadIn
    <2>5. ASSUME NEW t \in Threads, tstate[t] = "BLOCKED"
          PROVE  /\ tick'[t] = tick[t] /\ tick[t] = thr[t].deadline
                 /\ tick[t] # 0 /\ t < scan'[c].i => scan'[c].next <= tick[t]
      <3>1. t # i /\ (t < scan'[c].i => t < i)
        BY <1>n, <2>1, <2>4, <2>5
      <3> QED
        BY <2>1, <2>2, <2>4, <2>5, <3>1 DEF ParkedIn, SlotSteps, SameScan
    <2>6. ParkedIn(c)' /\ ReadIn(c)'
      BY <1>0, <2>1, <2>5 DEF ParkedIn, ReadIn
    <2> QED
      BY <1>2, <2>1, <2>3, <2>6 DEF SameScan
  <1>7. CASE Expire(c)
    <2> DEFINE i == scan[c].i
    <2>1. /\ UNCHANGED <<next, tstate, pend, wait_event, armed>> /\ scan[c].at = "expire"
          /\ ScanMoves(c, "fire_load") /\ SameRead(c) /\ i \in Threads /\ Scanning(c)
      BY <1>0, <1>7, ScanStepMoves DEF Expire, event, InProgress, SlotSteps, Scanning
    <2>2. tick'[i] = 0 /\ \A t \in Threads : t # i => tick'[t] = tick[t]
      BY <1>7, <2>1 DEF Expire, TInv
    <2>3. /\ scan'[c].at = "fire_load" /\ scan'[c].i = i /\ scan'[c].d = scan[c].d
          /\ SameScan(c) /\ SameStart(c)
      BY <2>1 DEF ScanMoves, SameRead, SameSlot, SameScan
    <2>4. ArmedTicks'
      BY <1>0, <1>2, <1>a, <2>1, <2>2, <2>3, ScanArmed
    <2>5. ParkedIn(c) /\ ReadIn(c)
      BY <1>2, <2>1, <2>3
    <2>6. ASSUME NEW t \in Threads, tstate[t] = "BLOCKED"
          PROVE  /\ tick'[t] = thr[t].deadline \/ t = i
                 /\ tick'[t] # 0 /\ t < i => scan'[c].next <= tick'[t]
      BY <2>1, <2>2, <2>3, <2>5, <2>6 DEF ParkedIn, SlotSteps, SameScan
    <2>7. ParkedIn(c)'
      BY <1>0, <2>1, <2>3, <2>6 DEF ParkedIn
    <2>8. ReadIn(c)'
      BY <1>0, <2>1, <2>3, <2>5 DEF ReadIn, SameStart
    <2> QED
      BY <1>2, <2>1, <2>3, <2>4, <2>7, <2>8
  <1>8. CASE FireLoad(c)
    <2> DEFINE i == scan[c].i
    <2>1. /\ UNCHANGED <<next, tick, tstate, pend, wait_event, armed>> /\ scan[c].at = "fire_load"
          /\ i \in Threads /\ Scanning(c)
      BY <1>0, <1>8 DEF FireLoad, event, InProgress, SlotSteps, Scanning
    <2>2. tstate[i] = "BLOCKED"
      BY <1>a, <2>1 DEF ScanReads
    <2>w. Wakers[i] = {}
      <3>1. \A t \in Threads : thr[t].at # "promote"
        <4>1. \A t \in Threads : thr[t].at \notin LockSteps
          BY <1>a, <2>1 DEF Alone, LInv, LockHeld, InProgress, LockSteps, Locked
        <4> QED
          BY <4>1 DEF LockSteps
      <3>2. \A d \in Cpus : scan[d].at # "promote"
        BY <1>a, <2>1 DEF Alone, Scanning
      <3> QED
        BY <2>1, <3>1, <3>2 DEF Wakers
    <2>3. wait_event[i] # NoEvent
      BY <1>0, <2>1, <2>2, <2>w, Locals DEF LInv, BlockedOnOwn, InProgress
    <2>4. ScanMoves(c, "fire") /\ SameRead(c) /\ scan'[c].ev = wait_event[i]
      BY <1>0, <1>8, <2>3, ScanStepMoves
    <2>5. /\ scan'[c].at = "fire" /\ scan'[c].i = i /\ scan'[c].d = scan[c].d
          /\ SameScan(c) /\ SameStart(c)
      BY <2>4 DEF ScanMoves, SameRead, SameSlot, SameScan
    <2>6. ArmedTicks'
      BY <1>0, <1>2, <1>a, <2>1, <2>4, <2>5, ScanArmed
    <2>7. ParkedIn(c) /\ ReadIn(c)
      BY <1>2, <2>1, <2>4, <2>5
    <2>8. ParkedIn(c)'
      BY <1>0, <2>1, <2>5, <2>7 DEF ParkedIn, SlotSteps, SameScan
    <2>9. ReadIn(c)'
      BY <1>0, <2>1, <2>4, <2>5, <2>7 DEF ReadIn, SameStart
    <2> QED
      BY <1>2, <2>1, <2>4, <2>5, <2>6, <2>8, <2>9
  <1>9. CASE Fire(c)
    <2> DEFINE i == scan[c].i
    <2>1. /\ UNCHANGED <<next, tick, armed>> /\ scan[c].at = "fire" /\ i \in Threads /\ Scanning(c)
      BY <1>0, <1>9 DEF Fire, InProgress, SlotSteps, Scanning
    <2>3. /\ tstate[i] = "BLOCKED" /\ scan[c].d = thr[i].deadline /\ scan[c].d # 0
          /\ scan[c].d <= scan[c].now /\ scan[c].ev = wait_event[i]
      BY <1>a, <2>1 DEF ScanReads
    <2>4. /\ \A v \in Threads \ {i} : pend'[v] = pend[v]
          /\ tstate' = tstate /\ pend'[i] = "TIMEOUT" /\ ScanMoves(c, "promote") /\ SameRead(c)
      BY <1>9, <2>3, FireEffect
    <2>a. /\ scan'[c].at = "promote" /\ scan'[c].i = i /\ SameScan(c) /\ SameStart(c)
      BY <2>4 DEF ScanMoves, SameRead, SameSlot, SameScan
    <2>2. ParkedIn(c) /\ scan[c].now <= now
      BY <1>2, <2>1, <2>4, <2>a
    <2>5. thr[i].at = "parked" /\ thr[i].deadline # 0 /\ now >= thr[i].deadline
      BY <1>n, <2>1, <2>2, <2>3 DEF LInv, BlockedOnOwn
    <2>6. \A t \in Threads : \/ pend'[t] = pend[t]
                             \/ /\ pend'[t] = "TIMEOUT" /\ thr[t].at = "parked"
                                /\ thr[t].deadline # 0 /\ now >= thr[t].deadline
      BY <2>4, <2>5
    <2>7. ArmedTicks'
      BY <1>0, <1>2, <1>a, <2>1, <2>4, <2>6, <2>a, ScanArmed
    <2>9. ParkedIn(c)' /\ ReadIn(c)'
      BY <1>0, <2>1, <2>2, <2>4, <2>a DEF ParkedIn, ReadIn, SlotSteps, SameScan
    <2> QED
      BY <1>2, <2>1, <2>4, <2>7, <2>9, <2>a
  <1>12. CASE FirePromote(c)
    <2> DEFINE i == scan[c].i
    <2>1. /\ UNCHANGED <<next, tick, armed>> /\ scan[c].at = "promote" /\ Scanning(c)
      BY <1>12 DEF FirePromote, Scanning
    <2>2. /\ i \in Threads /\ pend' = pend /\ tstate'[i] # "BLOCKED"
          /\ \A v \in Threads \ {i} : tstate'[v] = tstate[v]
          /\ ScanMoves(c, "tick") /\ SameScan(c) /\ scan'[c].i = i + 1
      BY <1>12, FirePromoteEffect
    <2>3. scan'[c].at = "tick" /\ SameStart(c)
      BY <2>2 DEF ScanMoves, SameScan
    <2>4. ParkedIn(c)
      BY <1>2, <2>1, <2>2, <2>3
    <2>7. ArmedTicks'
      BY <1>0, <1>2, <1>a, <2>1, <2>2, <2>3, ScanArmed
    <2>8. ASSUME NEW t \in Threads, tstate'[t] = "BLOCKED"
          PROVE  /\ tick[t] = thr[t].deadline
                 /\ tick[t] # 0 /\ t < scan'[c].i => scan'[c].next <= tick[t]
      <3>1. t # i /\ tstate[t] = "BLOCKED" /\ (t < scan'[c].i => t < i)
        BY <1>n, <2>2, <2>8
      <3> QED
        BY <2>1, <2>2, <2>4, <3>1 DEF ParkedIn, SlotSteps, SameScan
    <2>9. ParkedIn(c)' /\ ReadIn(c)'
      BY <1>0, <2>1, <2>3, <2>8 DEF ParkedIn, ReadIn
    <2> QED
      BY <1>2, <2>1, <2>2, <2>3, <2>7, <2>9
  <1>10. CASE ReloadSeq(c)
    <2>1. /\ UNCHANGED <<next, tick, tstate, pend, wait_event>> /\ scan[c].at = "tick"
          /\ armed' = armed \ {c} /\ Scanning(c) /\ scan[c].i > NThreads
      BY <1>10 DEF ReloadSeq, event, Scanning
    <2>2. ScanMoves(c, "publish") /\ SameScan(c) /\ scan'[c].at = "publish"
      BY <1>0, <1>10, <1>a, ScanStepMoves DEF Alone, ScanMoves
    <2>3. ArmedTicks'
      BY <1>0, <1>2, <1>a, <2>1, <2>2, ScanArmed
    <2>4. ParkedIn(c) /\ \A t \in Threads : t < scan[c].i
      <3>1. ParkedIn(c)
        BY <1>2, <2>1, <2>2
      <3> QED
        BY <1>n, <2>1, <3>1, Locals DEF Threads
    <2>5. ParkedIn(c)' /\ ReadIn(c)'
      BY <1>0, <2>1, <2>2, <2>4 DEF ParkedIn, ReadIn, SameScan, SlotSteps
    <2> QED
      BY <1>2, <2>1, <2>2, <2>3, <2>5 DEF SameScan
  <1>11. CASE PublishNext(c)
    <2>1. /\ UNCHANGED <<tick, tstate, pend, wait_event>> /\ scan[c].at = "publish"
          /\ armed' = armed \ {c} /\ Scanning(c)
          /\ next' = IF next = scan[c].observed THEN scan[c].next ELSE next
      BY <1>11 DEF PublishNext, event, Scanning
    <2>2. ScanMoves(c, "idle") /\ scan'[c].at = "idle"
      BY <1>0, <1>11, ScanStepMoves DEF ScanMoves
    <2>3. ArmedTicks'
      BY <1>0, <1>2, <1>a, <2>1, <2>2, ScanArmed
    <2>4. ParkedIn(c) /\ next' = scan[c].next
      BY <1>2, <2>1, <2>2
    <2>5. ParkedIn(c)' /\ ReadIn(c)'
      BY <1>0, <2>1, <2>2, <2>4 DEF ParkedIn, ReadIn, SlotSteps
    <2> QED
      BY <1>2, <2>1, <2>2, <2>3, <2>5
  <1> QED
    BY <1>1, <1>3, <1>4, <1>5, <1>6, <1>7, <1>8, <1>9, <1>10, <1>11, <1>12 DEF Scan

-----------------------------------------------------------------------------
(* The inductive invariant. *)

\* At the start.
LEMMA InitIInv == Init => IInv
  <1> SUFFICES ASSUME Init PROVE IInv
    OBVIOUS
  <1> USE Locals
  <1>1. /\ \A t \in Threads : /\ thr[t] = User /\ tick[t] = 0 /\ tstate[t] = "RUNNING"
                              /\ wait_event[t] = NoEvent /\ pend[t] = "NONE"
        /\ \A c \in Cpus : scan[c] = Idle
        /\ \A f \in Futexes : lock[f] = NoOne /\ wait_list[f] = << >>
    BY DEF Init
  <1>2. /\ \A t \in Threads : thr[t].at = "user" /\ thr[t].stale = FALSE
        /\ \A c \in Cpus : scan[c].at = "idle"
    BY <1>1 DEF User, Idle
  <1>3. TInv
    <2>1. << >> \in Seq(Threads) /\ now \in 0..MaxTick
      BY DEF Init
    <2> QED
      BY <2>1 DEF Init, TInv, Events
  <1>4. InProgress
    BY <1>2 DEF InProgress, SlotSteps
  <1>5. LockHeld
    BY <1>1, <1>2 DEF LockHeld, LockSteps
  <1>6. Linked
    <2>1. Len(<< >>) = 0 /\ \A f \in Futexes : On(f) = {}
      BY <1>1 DEF On
    <2> QED
      BY <1>1, <2>1 DEF Linked, NoRepeats
  <1>7. BlockedOnOwn /\ Hands
    <2>1. \A t \in Threads : Wakers[t] = {}
      BY <1>2 DEF Wakers
    <2> QED
      BY <1>1, <1>2, <2>1 DEF BlockedOnOwn, Hands
  <1>8. FInv
    BY <1>1, <1>2 DEF FInv, StaleIsSeen, WakeCovers, LockSteps, WakeSteps
  <1>9. UInv
    <2>1. Alone
      BY <1>1, <1>2 DEF Init, Alone, Scanning, Locked
    <2>2. ArmedTicks
      BY <1>1, <1>2 DEF ArmedTicks, ArmedOf
    <2>3. ParkedTicks /\ ScanReads
      BY <1>1, <1>2 DEF ParkedTicks, ScanReads
    <2> QED
      BY <2>1, <2>2, <2>3 DEF UInv
  <1> QED
    BY <1>3, <1>4, <1>5, <1>6, <1>7, <1>8, <1>9 DEF IInv, LInv

\* The timer: a deadline that has passed stays so.
LEMMA TickIInv ==
    ASSUME IInv, Tick
    PROVE  IInv'
  <1>0. /\ now' = now + 1 /\ now \in Nat /\ now' \in 0..MaxTick /\ now' >= now
        /\ UNCHANGED <<smp, next, armed, tick, tstate, wait_event, pend, wait_list, lock, thr, scan>>
    BY Locals DEF Tick, IInv, TInv, event
  <1>1. TInv'
    BY <1>0 DEF IInv, TInv
  <1>w. Wakers' = Wakers
    BY <1>0 DEF Wakers
  <1>2. LInv'
    BY <1>0, <1>w DEF IInv, LInv, InProgress, LockHeld, Linked, On, BlockedOnOwn, Hands
  <1>3. FInv'
    BY <1>0, <1>w DEF IInv, FInv, StaleIsSeen, WakeCovers
  <1>4. ASSUME ~smp PROVE Alone' /\ ArmedTicks' /\ ParkedTicks' /\ ScanReads'
    <2>1. Alone /\ ArmedTicks /\ ParkedTicks /\ ScanReads
      BY <1>4 DEF IInv, UInv
    <2>2. \A c \in Cpus : scan[c].now \in Nat
      BY Locals DEF IInv, TInv, ScanLocals
    <2>3. \A t \in Threads : thr[t].deadline \in Nat
      BY Locals DEF IInv, TInv, ThreadLocals
    <2>4. Alone'
      BY <1>0, <2>1, <2>2 DEF Alone, Scanning, Locked
    <2>5. ArmedTicks'
      BY <1>0, <2>1, <2>3 DEF ArmedTicks, ArmedOf
    <2>6. ParkedTicks' /\ ScanReads'
      BY <1>0, <1>w, <2>1 DEF ParkedTicks, ScanReads, Expiring, NoScan, Scanning
    <2> QED
      BY <2>4, <2>5, <2>6
  <1> QED
    BY <1>0, <1>1, <1>2, <1>3, <1>4 DEF IInv, UInv

\* A step that changes nothing.
LEMMA StutterIInv ==
    ASSUME IInv, UNCHANGED vars
    PROVE  IInv'
  <1>0. UNCHANGED <<smp, now, next, armed, tick, tstate, wait_event, pend, wait_list, lock, thr, scan>>
    BY DEF vars, event
  <1>1. TInv'
    BY <1>0 DEF IInv, TInv
  <1>w. Wakers' = Wakers
    BY <1>0 DEF Wakers
  <1>2. LInv'
    BY <1>0, <1>w DEF IInv, LInv, InProgress, LockHeld, Linked, On, BlockedOnOwn, Hands
  <1>3. FInv'
    BY <1>0, <1>w DEF IInv, FInv, StaleIsSeen, WakeCovers
  <1>4. ASSUME ~smp PROVE Alone' /\ ArmedTicks' /\ ParkedTicks' /\ ScanReads'
    <2>1. Alone /\ ArmedTicks /\ ParkedTicks /\ ScanReads
      BY <1>4 DEF IInv, UInv
    <2>2. Alone' /\ ArmedTicks'
      BY <1>0, <2>1 DEF Alone, Scanning, Locked, ArmedTicks, ArmedOf
    <2>3. ParkedTicks' /\ ScanReads'
      BY <1>0, <1>w, <2>1 DEF ParkedTicks, ScanReads, Expiring, NoScan, Scanning
    <2> QED
      BY <2>2, <2>3
  <1> QED
    BY <1>0, <1>1, <1>2, <1>3, <1>4 DEF IInv, UInv

\* Every step keeps it.
LEMMA NextIInv == IInv /\ [Next]_vars => IInv'
  <1> SUFFICES ASSUME IInv, [Next]_vars PROVE IInv'
    OBVIOUS
  <1>0. TInv /\ LInv /\ FInv /\ UInv /\ InProgress
    BY DEF IInv, LInv
  <1>1. ASSUME NEW t \in Threads, Call(t) PROVE IInv'
    BY <1>0, <1>1, CallType, CallLinked, CallPromise, CallDeadlines DEF IInv
  <1>2. ASSUME NEW t \in Threads, Advance(t) PROVE IInv'
    BY <1>0, <1>2, AdvanceType, AdvanceLinked, AdvancePromise, AdvanceDeadlines DEF IInv
  <1>3. ASSUME NEW c \in Cpus, Scan(c) PROVE IInv'
    BY <1>0, <1>3, ScanType, ScanLinked, ScanPromise, ScanDeadlines DEF IInv
  <1> QED
    BY <1>1, <1>2, <1>3, TickIInv, StutterIInv DEF Next

\* It holds throughout.
LEMMA AlwaysIInv == Spec => []IInv
  BY InitIInv, NextIInv, PTL DEF Spec

-----------------------------------------------------------------------------
(* What it says. *)

\* Every variable of the timed waits keeps its type, and no event's list outgrows the
\* thread table, however waits, wakes and scans interleave.
THEOREM TypeCorrect == Spec => []TypeOK
  <1>1. IInv => TypeOK
    <2> SUFFICES ASSUME IInv PROVE TypeOK
      OBVIOUS
    <2>1. TInv /\ Linked
      BY DEF IInv, LInv
    <2>2. \A f \in Futexes : Len(wait_list[f]) <= NThreads
      BY <2>1, ListBound
    <2> QED
      BY <2>1, <2>2 DEF TInv, TypeOK, ThreadLocals, ScanLocals, Events
  <1> QED
    BY <1>1, AlwaysIInv, PTL

\* A timeout and a wake that race for the same thread leave lists and waiters in
\* agreement: a blocked thread is on exactly the list its wait_event names, once, or
\* whoever took it off is still to wake it (sched_timeout_fire, sched_event_detach_wake,
\* sched_event_wait).
THEOREM WaitersAreLinked == Spec => []WaitersLinked
  <1>1. IInv => WaitersLinked
    <2> SUFFICES ASSUME IInv, NEW t \in Threads
                 PROVE  /\ \A f \in Futexes : /\ t \in On(f) <=> wait_event[t] = f
                                              /\ Len(wait_list[f]) = Cardinality(On(f))
                        /\ tstate[t] = "BLOCKED" => wait_event[t] # NoEvent \/ InHand(t)
      BY DEF WaitersLinked
    <2>1. TInv /\ Linked /\ BlockedOnOwn /\ InProgress
      BY DEF IInv, LInv
    <2>2. tstate[t] = "BLOCKED" => wait_event[t] # NoEvent \/ InHand(t)
      BY <2>1, InHandIs, Locals DEF BlockedOnOwn, InProgress
    <2> QED
      BY <2>1, <2>2, ListBound DEF Linked
  <1> QED
    BY <1>1, AlwaysIInv, PTL

\* With a count that covers the waiters, no thread sleeps on a word that has changed
\* unless the thread that changed it is still to wake it (futex_wait's re-read of the
\* word and futex_wake's wakes under the event's lock).
THEOREM FutexWakesReachWaiters == Spec => []NoLostFutexWake
  <1>1. IInv => NoLostFutexWake
    BY InHandIs DEF IInv, FInv, StaleIsSeen, NoLostFutexWake
  <1> QED
    BY <1>1, AlwaysIInv, PTL

\* On one CPU no deadline of a parked thread is dropped by a scan or hidden by
\* g_sched_timeout_next (sched_timeout_arm, sched_timeout_check).
THEOREM DeadlinesAreKept == Spec => []DeadlineKeptUp
  <1>1. IInv => DeadlineKeptUp
    <2> SUFFICES ASSUME IInv, ~smp, NoScan
                 PROVE  /\ HintIsLowerBound
                        /\ \A t \in Threads : tstate[t] = "BLOCKED" =>
                              tick[t] = thr[t].deadline \/ InHand(t)
      BY DEF DeadlineKeptUp
    <2>1. ParkedTicks /\ \A t \in Threads : ~Expiring(t)
      BY DEF IInv, UInv, NoScan, Scanning, Expiring
    <2> QED
      BY <2>1, InHandIs DEF ParkedTicks, HintIsLowerBound
  <1> QED
    BY <1>1, AlwaysIInv, PTL

\* On one CPU a wait reports a timeout only if it asked for one and its time has passed
\* (sched_timeout_check's test of the deadline, sched_event_wait's disarm on resume).
THEOREM TimeoutsAreDue == Spec => []NoEarlyTimeoutUp
  <1>1. IInv => NoEarlyTimeoutUp
    BY DEF IInv, UInv, ArmedTicks, ArmedOf, NoEarlyTimeoutUp
  <1> QED
    BY <1>1, AlwaysIInv, PTL
=============================================================================
