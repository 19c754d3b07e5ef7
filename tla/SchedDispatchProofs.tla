------------------------ MODULE SchedDispatchProofs -------------------------
(***************************************************************************)
(* Theorems of SchedDispatch, for any CPUs, threads and affinity masks:    *)
(* types, one CPU per thread, one CPU per run-queue node, affinity, no     *)
(* lost wake, and no lost hand-off but the two known ones.                 *)
(***************************************************************************)
EXTENDS SchedDispatch, ListLemmas

Registers == [pc : Labels, thread : Threads \cup {NOBODY}, current : Threads \cup {NOBODY},
              result : {"yielded", "blocked"}, token : BOOLEAN, target : Threads \cup {NOBODY},
              seen : States, ret : Labels, rq : CPUs \cup {NOBODY}, slot : 1 .. NThreads + 1]

\* The routines a CPU calls with a target, and where they return to.
Sub  == InWake \cup InEnqueue \cup {"fire"}
Rets == {"loop", "sweep", "complete", "unlink", "release", "run", "idle", "sweep_release"}

\* Where a CPU's own work stands while it is in such a routine.
Base(c) == IF cpu[c].pc \in Sub THEN cpu[c].ret ELSE cpu[c].pc

\* The phases of that work: with no thread, with one picked, holding its slot, with
\* the thread as its current one, or holding the slot of a thread it sweeps.
Outside  == {"loop", "pick", "steal", "idle", "sweep"}
Running  == {"run", "block", "clear", "rootless"}
Held     == InDispatch \ {"picked", "claim", "clear", "rootless"}
Sweeping == {"sweep_take", "sweep_check", "sweep_release"}
Unclaimed == {"picked", "claim"}

\* The registers agree with the phase.
ShapeOf(c) ==
    /\ cpu[c].pc \in Sub => cpu[c].target \in Threads /\ cpu[c].ret \in Rets
    /\ Base(c) \in Outside \cup Sweeping => cpu[c].thread = NOBODY
    /\ Base(c) \notin Outside \cup Sweeping => cpu[c].thread \in Threads
    /\ Base(c) \in Running => cpu[c].current = cpu[c].thread
    /\ Base(c) \notin Running => cpu[c].current = NOBODY
    /\ Base(c) \in Sweeping => cpu[c].slot \in Threads
    /\ cpu[c].pc \in {"sweep_take", "sweep_check"} => cpu[c].target = cpu[c].slot
Shape == \A c \in CPUs : ShapeOf(c)

\* CPU c has the slot claim of t: for its dispatch, or for a sweep.
Claimed(c, t) == \/ Base(c) \in Running \cup Held /\ cpu[c].thread = t
                 \/ Base(c) \in Sweeping /\ cpu[c].slot = t

\* The claim is dispatch_ref, and one CPU has it.
Exclusive == \A t \in Threads : /\ \A c \in CPUs : Claimed(c, t) => dispatch_ref[t]
                                /\ \A c, d \in CPUs : Claimed(c, t) /\ Claimed(d, t) => c = d

\* A CPU is in the middle of linking t, of owing it an enqueue, or of a dispatch that
\* ends in one or the other if it finds t READY.
Carriers == {"mark", "mark_cas", "owe", "owe_first", "enqueue", "check", "link", "insert", "sweep_check"}
Carrying == (InDispatch \ {"set_running", "switch", "rootless", "requeue_running", "release"})
            \cup InThread \cup {"dropped"}
Carries(c, t) == \/ cpu[c].pc \in Carriers /\ cpu[c].target = t
                 \/ Base(c) \in Carrying /\ cpu[c].thread = t

\* A READY thread has its enqueue, done or to come, unless it is loose.
Carried == \A t \in Threads : state[t] = "READY" /\ ~loose[t] =>
              Linked(t) \/ enqueue_owed[t] \/ \E c \in CPUs : Carries(c, t)

\* The claim on a run-queue node is on_rq: set while the node is on a list or between
\* the halves of a link or of an unlink, by one CPU.
Flagged == \A t \in Threads :
              /\ on_rq[t] <=> Linked(t) \/ \E c \in CPUs : Touches(c, t)
              /\ \A c \in CPUs : Touches(c, t) =>
                    ~Linked(t) /\ \A d \in CPUs : Touches(d, t) => c = d

\* A CPU works on, and queues, only threads that may run on it, and links a thread on
\* a queue its mask allows.
Affine == \A c \in CPUs :
    /\ cpu[c].thread \in Threads => c \in Affinity[cpu[c].thread]
    /\ \A i \in 1 .. Len(queue[c]) : c \in Affinity[queue[c][i]]
    /\ cpu[c].pc = "insert" => cpu[c].rq \in CPUs /\ cpu[c].rq \in Affinity[cpu[c].target]

\* A CPU is on its way to make t READY, if it is BLOCKED.
Readies(c, t) ==
    \/ /\ cpu[c].target = t
       /\ \/ cpu[c].pc \in {"wake", "transition", "claim_wake", "if_blocked", "mark", "promoted"}
          \/ cpu[c].pc = "mark_cas" /\ cpu[c].seen = "BLOCKED"
    \/ cpu[c].thread = t /\ cpu[c].pc \in {"reset", "yielded"}

\* A BLOCKED thread that waits for nothing has its waker coming, and one that goes
\* to block is on its event's list.
Waking == /\ \A t \in Threads : state[t] = "BLOCKED" /\ waiting[t] = "no" =>
                \E c \in CPUs : Readies(c, t)
          /\ \A c \in CPUs : cpu[c].pc = "block" => waiting[cpu[c].thread] = "event"

IInv == TypeOK /\ Shape /\ LinkedOnce /\ Exclusive /\ Affine /\ Flagged /\ Waking

-----------------------------------------------------------------------------
(* How a step moves the registers of its CPU. *)

\* The other CPUs stay as they are.
OnlyCpu(c) == cpu' \in [CPUs -> Registers] /\ \A d \in CPUs : d # c => cpu'[d] = cpu[d]

\* The dispatch registers of c stay as they are.
KeepsWork(c) == /\ cpu'[c].thread = cpu[c].thread /\ cpu'[c].current = cpu[c].current
                /\ cpu'[c].slot = cpu[c].slot

\* The parts of a register file.
LEMMA Parts ==
    ASSUME TypeOK, NEW c \in CPUs
    PROVE  /\ cpu \in [CPUs -> Registers] /\ cpu[c] \in Registers /\ cpu[c].pc \in Labels
           /\ cpu[c].thread \in Threads \cup {NOBODY} /\ cpu[c].current \in Threads \cup {NOBODY}
           /\ cpu[c].target \in Threads \cup {NOBODY} /\ cpu[c].ret \in Labels
           /\ cpu[c].slot \in 1 .. NThreads + 1 /\ cpu[c].seen \in States
           /\ cpu[c].result \in {"yielded", "blocked"} /\ cpu[c].token \in BOOLEAN
           /\ cpu[c].rq \in CPUs \cup {NOBODY}
           /\ NOBODY \notin Threads
  BY SchedAssumption DEF TypeOK, Registers

\* A new register file for c.
LEMMA Replaced ==
    ASSUME TypeOK, NEW c \in CPUs, NEW r \in Registers, cpu' = [cpu EXCEPT ![c] = r]
    PROVE  OnlyCpu(c) /\ cpu'[c] = r
  BY Parts DEF OnlyCpu

\* What a jump does.
LEMMA GotoMoves ==
    ASSUME TypeOK, NEW c \in CPUs, NEW l \in Labels, Goto(c, l)
    PROVE  /\ OnlyCpu(c) /\ KeepsWork(c) /\ cpu'[c].pc = l /\ cpu'[c].target = cpu[c].target
           /\ cpu'[c].ret = cpu[c].ret /\ cpu'[c].seen = cpu[c].seen /\ cpu'[c].rq = cpu[c].rq
  <1> DEFINE r == [cpu[c] EXCEPT !.pc = l]
  <1>1. cpu[c] \in Registers /\ cpu \in [CPUs -> Registers]
    BY Parts
  <1>2. r \in Registers
    BY <1>1 DEF Registers
  <1>3. cpu' = [cpu EXCEPT ![c] = r]
    BY <1>1 DEF Goto
  <1>4. OnlyCpu(c) /\ cpu'[c] = r
    BY <1>2, <1>3, Replaced
  <1> QED
    BY <1>1, <1>4 DEF KeepsWork, Registers

\* What a call of a routine does.
LEMMA CallMoves ==
    ASSUME TypeOK, NEW c \in CPUs, NEW l \in Labels, NEW t \in Threads, NEW b \in Labels,
           Call(c, l, t, b)
    PROVE  /\ OnlyCpu(c) /\ KeepsWork(c) /\ cpu'[c].pc = l /\ cpu'[c].target = t /\ cpu'[c].ret = b
           /\ cpu'[c].seen = cpu[c].seen
  <1> DEFINE r == [cpu[c] EXCEPT !.pc = l, !.target = t, !.ret = b]
  <1>1. cpu[c] \in Registers /\ cpu \in [CPUs -> Registers]
    BY Parts
  <1>2. r \in Registers
    BY <1>1 DEF Registers
  <1>3. cpu' = [cpu EXCEPT ![c] = r]
    BY <1>1 DEF Call
  <1>4. OnlyCpu(c) /\ cpu'[c] = r
    BY <1>2, <1>3, Replaced
  <1> QED
    BY <1>1, <1>4 DEF KeepsWork, Registers

\* What a return does.
LEMMA ReturnMoves ==
    ASSUME TypeOK, NEW c \in CPUs, Return(c)
    PROVE  /\ OnlyCpu(c) /\ KeepsWork(c) /\ cpu'[c].pc = cpu[c].ret /\ cpu'[c].target = NOBODY
           /\ cpu'[c].ret = "loop"
  <1> DEFINE r == [cpu[c] EXCEPT !.pc = cpu[c].ret, !.target = NOBODY, !.seen = "READY", !.ret = "loop",
                                !.rq = NOBODY]
  <1>1. cpu[c] \in Registers /\ cpu \in [CPUs -> Registers] /\ cpu[c].ret \in Labels
    BY Parts
  <1>2. r \in Registers
    BY <1>1 DEF Registers, Labels, States
  <1>3. cpu' = [cpu EXCEPT ![c] = r]
    BY <1>1 DEF Return
  <1>4. OnlyCpu(c) /\ cpu'[c] = r
    BY <1>2, <1>3, Replaced
  <1> QED
    BY <1>1, <1>4 DEF KeepsWork, Registers

\* A jump that stores the result of a run.
LEMMA ResultMoves ==
    ASSUME TypeOK, NEW c \in CPUs, NEW l \in Labels, NEW x \in {"yielded", "blocked"},
           cpu' = [cpu EXCEPT ![c] = [@ EXCEPT !.pc = l, !.result = x]]
    PROVE  /\ OnlyCpu(c) /\ KeepsWork(c) /\ cpu'[c].pc = l /\ cpu'[c].target = cpu[c].target
           /\ cpu'[c].ret = cpu[c].ret
  <1> DEFINE r == [cpu[c] EXCEPT !.pc = l, !.result = x]
  <1>1. cpu[c] \in Registers /\ cpu \in [CPUs -> Registers]
    BY Parts
  <1>2. r \in Registers
    BY <1>1 DEF Registers
  <1>3. OnlyCpu(c) /\ cpu'[c] = r
    BY <1>1, <1>2, Replaced
  <1> QED
    BY <1>1, <1>3 DEF KeepsWork, Registers

\* A jump that stores the token.
LEMMA TokenMoves ==
    ASSUME TypeOK, NEW c \in CPUs, NEW l \in Labels, NEW x \in BOOLEAN,
           cpu' = [cpu EXCEPT ![c] = [@ EXCEPT !.pc = l, !.token = x]]
    PROVE  /\ OnlyCpu(c) /\ KeepsWork(c) /\ cpu'[c].pc = l /\ cpu'[c].target = cpu[c].target
           /\ cpu'[c].ret = cpu[c].ret
  <1> DEFINE r == [cpu[c] EXCEPT !.pc = l, !.token = x]
  <1>1. cpu[c] \in Registers /\ cpu \in [CPUs -> Registers]
    BY Parts
  <1>2. r \in Registers
    BY <1>1 DEF Registers
  <1>3. OnlyCpu(c) /\ cpu'[c] = r
    BY <1>1, <1>2, Replaced
  <1> QED
    BY <1>1, <1>3 DEF KeepsWork, Registers

\* A jump that stores a state loaded by a mark.
LEMMA SeenMoves ==
    ASSUME TypeOK, NEW c \in CPUs, NEW l \in Labels, NEW x \in States,
           cpu' = [cpu EXCEPT ![c] = [@ EXCEPT !.pc = l, !.seen = x]]
    PROVE  /\ OnlyCpu(c) /\ KeepsWork(c) /\ cpu'[c].pc = l /\ cpu'[c].target = cpu[c].target
           /\ cpu'[c].ret = cpu[c].ret /\ cpu'[c].seen = x
  <1> DEFINE r == [cpu[c] EXCEPT !.pc = l, !.seen = x]
  <1>1. cpu[c] \in Registers /\ cpu \in [CPUs -> Registers]
    BY Parts
  <1>2. r \in Registers
    BY <1>1 DEF Registers
  <1>3. OnlyCpu(c) /\ cpu'[c] = r
    BY <1>1, <1>2, Replaced
  <1> QED
    BY <1>1, <1>3 DEF KeepsWork, Registers

\* A jump that takes or drops a queue lock.
LEMMA LockMoves ==
    ASSUME TypeOK, NEW c \in CPUs, NEW l \in Labels, NEW x \in CPUs \cup {NOBODY},
           cpu' = [cpu EXCEPT ![c] = [@ EXCEPT !.pc = l, !.rq = x]]
    PROVE  /\ OnlyCpu(c) /\ KeepsWork(c) /\ cpu'[c].pc = l /\ cpu'[c].target = cpu[c].target
           /\ cpu'[c].ret = cpu[c].ret /\ cpu'[c].rq = x
  <1> DEFINE r == [cpu[c] EXCEPT !.pc = l, !.rq = x]
  <1>1. cpu[c] \in Registers /\ cpu \in [CPUs -> Registers]
    BY Parts
  <1>2. r \in Registers
    BY <1>1 DEF Registers
  <1>3. OnlyCpu(c) /\ cpu'[c] = r
    BY <1>1, <1>2, Replaced
  <1> QED
    BY <1>1, <1>3 DEF KeepsWork, Registers

\* Two places in the same phase of a CPU's work.
SamePhase(a, b) == \A P \in {Outside, Running, Held, Sweeping, Unclaimed, Unclaimed, {"dropped"}} : a \in P <=> b \in P

\* A step within a phase: no slot claim is taken or given back.
Inner(c) ==
    /\ OnlyCpu(c) /\ KeepsWork(c) /\ dispatch_ref' = dispatch_ref
    /\ \A b : b = Base(c) => SamePhase(b, Base(c)')
    /\ cpu'[c].pc \in Sub => cpu'[c].target \in Threads /\ cpu'[c].ret \in Rets
    /\ cpu'[c].pc \in {"sweep_take", "sweep_check"} => cpu'[c].target = cpu'[c].slot

\* Labels and phases.
LEMMA Phases ==
    /\ Sub \subseteq Labels /\ Rets \subseteq Labels /\ Rets \cap Sub = {}
    /\ (Outside \cup Running \cup Held \cup Sweeping \cup Unclaimed \cup {"dropped"}) \cap Sub = {}
    /\ Labels = Sub \cup Outside \cup Running \cup Held \cup Sweeping \cup Unclaimed \cup {"dropped"}
  BY DEF Sub, Rets, Labels, Outside, Running, Held, Sweeping, Unclaimed, InWake, InEnqueue, InThread, InDispatch, InSweep

\* Moving on inside a called routine, and returning from it.
LEMMA SubInner ==
    ASSUME TypeOK, Shape, NEW c \in CPUs, cpu[c].pc \in Sub, dispatch_ref' = dispatch_ref,
           Return(c) \/ \E l \in Sub : Goto(c, l)
    PROVE  Inner(c)
  <1>0. cpu[c].target \in Threads /\ cpu[c].ret \in Rets
    BY DEF Shape, ShapeOf
  <1>1. CASE Return(c)
    <2>1. cpu'[c].pc = cpu[c].ret /\ cpu'[c].pc \notin Sub
      BY <1>0, <1>1, ReturnMoves, Phases
    <2>2. cpu[c].ret \notin {"sweep_take", "sweep_check"}
      BY <1>0 DEF Rets
    <2>3. Base(c) = cpu[c].ret /\ Base(c)' = cpu[c].ret
      BY <2>1 DEF Base
    <2> QED
      BY <1>1, <2>1, <2>2, <2>3, ReturnMoves DEF Inner, SamePhase
  <1>2. ASSUME NEW l \in Sub, Goto(c, l)
        PROVE  Inner(c)
    <2>1. /\ OnlyCpu(c) /\ KeepsWork(c) /\ cpu'[c].pc = l /\ cpu'[c].target = cpu[c].target
          /\ cpu'[c].ret = cpu[c].ret
      BY <1>2, GotoMoves, Phases
    <2>2. Base(c) = cpu[c].ret /\ Base(c)' = cpu[c].ret
      BY <1>2, <2>1 DEF Base
    <2>3. l \notin {"sweep_take", "sweep_check"}
      BY DEF Sub, InWake, InEnqueue
    <2> QED
      BY <1>0, <1>2, <2>1, <2>2, <2>3 DEF Inner, SamePhase
  <1> QED
    BY <1>1, <1>2

\* Moving on outside of called routines, whatever else is stored on the way.
LEMMA PlainInner ==
    ASSUME TypeOK, Shape, NEW c \in CPUs, cpu[c].pc \notin Sub, dispatch_ref' = dispatch_ref,
           NEW l, l \notin Sub, SamePhase(cpu[c].pc, l), l \notin {"sweep_take", "sweep_check"},
           OnlyCpu(c), KeepsWork(c), cpu'[c].pc = l
    PROVE  Inner(c)
  <1>1. Base(c) = cpu[c].pc /\ Base(c)' = l
    BY DEF Base
  <1> QED
    BY <1>1 DEF Inner

\* Calling a routine that returns to the same phase.
LEMMA CallInner ==
    ASSUME TypeOK, Shape, NEW c \in CPUs, cpu[c].pc \notin Sub, dispatch_ref' = dispatch_ref,
           NEW l \in Sub, NEW t \in Threads, NEW b \in Rets, SamePhase(cpu[c].pc, b), Call(c, l, t, b)
    PROVE  Inner(c)
  <1>1. /\ OnlyCpu(c) /\ KeepsWork(c) /\ cpu'[c].pc = l /\ cpu'[c].target = t /\ cpu'[c].ret = b
    BY CallMoves, Phases
  <1>2. Base(c) = cpu[c].pc /\ Base(c)' = b
    BY <1>1 DEF Base
  <1>3. l \notin {"sweep_take", "sweep_check"}
    BY DEF Sub, InWake, InEnqueue
  <1> QED
    BY <1>1, <1>2, <1>3 DEF Inner

\* The steps of a called routine.
SubStep(c) ==
    \/ EnqueueScan(c) \/ EnqueueCheck(c) \/ Link(c) \/ Insert(c) \/ Owe(c) \/ OweFirst(c) \/ MarkLoad(c) \/ MarkCas(c)
    \/ TimeoutFire(c) \/ WakePublish(c) \/ WakeTransition(c) \/ WakeClaim(c)
    \/ WakeIfBlocked(c) \/ WakePromote(c)

\* They stay in the phase of the caller.
LEMMA SubStepInner ==
    ASSUME TypeOK, Shape, NEW c \in CPUs, SubStep(c)
    PROVE  Inner(c)
  <1>1. cpu[c].pc \in Sub /\ dispatch_ref' = dispatch_ref
    BY DEF SubStep, EnqueueScan, EnqueueCheck, Link, Insert, Owe, OweFirst, MarkLoad, MarkCas, TimeoutFire,
       WakePublish, WakeTransition, WakeClaim, WakeIfBlocked, WakePromote, At, Sub, InWake, InEnqueue,
       threadVars
  <1>2. CASE \E x \in States : cpu' = [cpu EXCEPT ![c] = [@ EXCEPT !.pc = "mark_cas", !.seen = x]]
    <2>1. /\ OnlyCpu(c) /\ KeepsWork(c) /\ cpu'[c].pc = "mark_cas" /\ cpu'[c].target = cpu[c].target
          /\ cpu'[c].ret = cpu[c].ret
      <3>1. "mark_cas" \in Labels
        BY DEF Labels, InWake
      <3>2. PICK x \in States : cpu' = [cpu EXCEPT ![c] = [@ EXCEPT !.pc = "mark_cas", !.seen = x]]
        BY <1>2
      <3> QED
        BY <3>1, <3>2, SeenMoves
    <2>2. Base(c) = cpu[c].ret /\ Base(c)' = cpu[c].ret
      BY <1>1, <2>1 DEF Base, Sub, InWake
    <2> QED
      BY <1>1, <2>1, <2>2 DEF Inner, SamePhase, Shape, ShapeOf
  <1>3. CASE \E x \in States : cpu' = [cpu EXCEPT ![c] = [@ EXCEPT !.pc = "late_mark_cas", !.seen = x]]
    <2>1. /\ OnlyCpu(c) /\ KeepsWork(c) /\ cpu'[c].pc = "late_mark_cas"
          /\ cpu'[c].target = cpu[c].target /\ cpu'[c].ret = cpu[c].ret
      <3>1. "late_mark_cas" \in Labels
        BY DEF Labels, InEnqueue
      <3>2. PICK x \in States : cpu' = [cpu EXCEPT ![c] = [@ EXCEPT !.pc = "late_mark_cas", !.seen = x]]
        BY <1>3
      <3> QED
        BY <3>1, <3>2, SeenMoves
    <2>2. Base(c) = cpu[c].ret /\ Base(c)' = cpu[c].ret
      BY <1>1, <2>1 DEF Base, Sub, InEnqueue
    <2> QED
      BY <1>1, <2>1, <2>2 DEF Inner, SamePhase, Shape, ShapeOf
  <1>4. CASE Return(c) \/ \E l \in Sub : Goto(c, l)
    BY <1>1, <1>4, SubInner
  <1>5. cpu[c].target \in Threads /\ state[cpu[c].target] \in States
    BY <1>1 DEF Shape, ShapeOf, TypeOK
  <1>6. CASE \E x \in CPUs : cpu' = [cpu EXCEPT ![c] = [@ EXCEPT !.pc = "insert", !.rq = x]]
    <2>1. /\ OnlyCpu(c) /\ KeepsWork(c) /\ cpu'[c].pc = "insert"
          /\ cpu'[c].target = cpu[c].target /\ cpu'[c].ret = cpu[c].ret
      <3>1. "insert" \in Labels
        BY DEF Labels, InEnqueue
      <3>2. PICK x \in CPUs : cpu' = [cpu EXCEPT ![c] = [@ EXCEPT !.pc = "insert", !.rq = x]]
        BY <1>6
      <3> QED
        BY <3>1, <3>2, LockMoves
    <2>2. Base(c) = cpu[c].ret /\ Base(c)' = cpu[c].ret
      BY <1>1, <2>1 DEF Base, Sub, InEnqueue
    <2> QED
      BY <1>1, <2>1, <2>2 DEF Inner, SamePhase, Shape, ShapeOf
  <1>7. EnqueueTarget(c, cpu[c].target) \subseteq CPUs
    BY <1>5, SchedAssumption DEF EnqueueTarget
  <1>8. CASE Link(c)
    BY <1>4, <1>6, <1>7, <1>8 DEF Link
  <1> QED
    BY <1>2, <1>3, <1>4, <1>5, <1>8 DEF SubStep, EnqueueScan, EnqueueCheck, Link, Insert, Owe, OweFirst, MarkLoad,
       MarkCas, TimeoutFire, WakePublish, WakeTransition, WakeClaim, WakeIfBlocked, WakePromote,
       Sub, InWake, InEnqueue

\* The other steps within a phase.
InnerStep(c) ==
    \/ UnlinkDone(c) \/ StealNothing(c) \/ LeaveIdle(c) \/ TimeoutsDone(c)
    \/ ClaimForDispatch(c) \/ SetRunning(c) \/ Settle(c) \/ SettleTake(c)
    \/ Complete(c) \/ Token(c) \/ Promote(c) \/ Requeue(c) \/ RequeueRunning(c)
    \/ Unlink(c) \/ Reset(c) \/ YieldRequeue(c)
    \/ Yield(c) \/ ReturnBlocked(c) \/ BlockOnEvent(c) \/ Blocked(c) \/ BlockOnExit(c)
    \/ SweepTake(c) \/ SweepCheck(c)
    \/ \E t \in Threads : WakeFromEvent(c, t) \/ TimeoutDue(c, t) \/ WakeFromExit(c, t)

\* A jump within a phase.
LEMMA GotoInner ==
    ASSUME TypeOK, Shape, NEW c \in CPUs, NEW P \in {Outside, Running, Held}, cpu[c].pc \in P,
           NEW l \in P, dispatch_ref' = dispatch_ref,
           \/ Goto(c, l)
           \/ \E x \in {"yielded", "blocked"} :
                 cpu' = [cpu EXCEPT ![c] = [@ EXCEPT !.pc = l, !.result = x]]
           \/ \E x \in BOOLEAN : cpu' = [cpu EXCEPT ![c] = [@ EXCEPT !.pc = l, !.token = x]]
    PROVE  Inner(c)
  <1>1. /\ cpu[c].pc \notin Sub /\ l \notin Sub /\ l \in Labels
        /\ SamePhase(cpu[c].pc, l) /\ l \notin {"sweep_take", "sweep_check"}
    <2>1. /\ P \subseteq Labels /\ P \cap Sub = {} /\ P \cap {"sweep_take", "sweep_check"} = {}
          /\ \A Q \in {Outside, Running, Held, Sweeping, Unclaimed, Unclaimed, {"dropped"}} : Q = P \/ P \cap Q = {}
      <3>1. CASE P = Outside
        BY <3>1 DEF Outside, Running, Held, InDispatch, Sub, InWake, InEnqueue, Labels, InSweep, Sweeping, Unclaimed
      <3>2. CASE P = Running
        BY <3>2 DEF Outside, Running, Held, InDispatch, Sub, InWake, InEnqueue, Labels, InThread, Sweeping, Unclaimed
      <3>3. CASE P = Held
        BY <3>3 DEF Outside, Running, Held, InDispatch, Sub, InWake, InEnqueue, Labels, Sweeping, Unclaimed
      <3> QED
        BY <3>1, <3>2, <3>3
    <2> QED
      BY <2>1 DEF SamePhase
  <1>2. OnlyCpu(c) /\ KeepsWork(c) /\ cpu'[c].pc = l
    <2>1. l \in Labels
      BY <1>1
    <2>2. ASSUME NEW x \in {"yielded", "blocked"},
                 cpu' = [cpu EXCEPT ![c] = [@ EXCEPT !.pc = l, !.result = x]]
          PROVE  OnlyCpu(c) /\ KeepsWork(c) /\ cpu'[c].pc = l
      BY <2>1, <2>2, ResultMoves
    <2>3. ASSUME NEW x \in BOOLEAN, cpu' = [cpu EXCEPT ![c] = [@ EXCEPT !.pc = l, !.token = x]]
          PROVE  OnlyCpu(c) /\ KeepsWork(c) /\ cpu'[c].pc = l
      BY <2>1, <2>3, TokenMoves
    <2> QED
      BY <2>1, <2>2, <2>3, GotoMoves
  <1> QED
    BY <1>1, <1>2, PlainInner

\* A call from a phase the routine returns to.
LEMMA CallFrom ==
    ASSUME TypeOK, Shape, NEW c \in CPUs, NEW P \in {Outside, Running, Held, Sweeping, Unclaimed}, cpu[c].pc \in P,
           NEW b \in P, b \in Rets, NEW l \in Sub, NEW t \in Threads, dispatch_ref' = dispatch_ref,
           Call(c, l, t, b)
    PROVE  Inner(c)
  <1>1. cpu[c].pc \notin Sub /\ SamePhase(cpu[c].pc, b)
    BY DEF Outside, Running, Held, InDispatch, Sub, InWake, InEnqueue, SamePhase, Sweeping, Unclaimed
  <1> QED
    BY <1>1, CallInner

\* They are steps within a phase.
LEMMA InnerSteps ==
    ASSUME TypeOK, Shape, NEW c \in CPUs, InnerStep(c)
    PROVE  Inner(c)
  <1>0. /\ cpu[c].pc \notin Sub => Base(c) = cpu[c].pc
        /\ cpu[c].pc \in Running \cup Held => cpu[c].thread \in Threads
        /\ cpu[c].pc = "sweep_check" => cpu[c].target \in Threads
    <2>1. (Running \cup Held) \cap (Outside \cup Sweeping) = {} /\ (Running \cup Held) \cap Sub = {}
          /\ "sweep_check" \notin Sub /\ "sweep_check" \in Sweeping
      BY DEF Sub, Outside, Running, Held, Sweeping, Unclaimed, InWake, InEnqueue, InDispatch
    <2> QED
      BY <2>1 DEF Shape, ShapeOf, Base
  <1>1. CASE StealNothing(c) \/ LeaveIdle(c) \/ TimeoutsDone(c)
    BY <1>1, GotoInner DEF StealNothing, LeaveIdle, TimeoutsDone, At, Outside, threadVars
  <1>2. CASE ClaimForDispatch(c) \/ SetRunning(c) \/ Settle(c) \/ Complete(c)
    <2>1. {"ready", "set_running", "release", "switch", "settle", "take", "complete", "unlink", "token"} \subseteq Held
      BY DEF Held, InDispatch
    <2> QED
      BY <1>2, <2>1, GotoInner DEF ClaimForDispatch, SetRunning, Settle, Complete, At, Handling, threadVars
  <1>3. CASE Token(c) \/ Promote(c)
    <2>1. {"token", "promote", "requeue"} \subseteq Held
      BY DEF Held, InDispatch
    <2>2. wake_pending[cpu[c].thread] \in BOOLEAN
      BY <1>0, <1>3, <2>1 DEF Token, Promote, At, TypeOK
    <2> QED
      BY <1>3, <2>1, <2>2, GotoInner DEF Token, Promote, At
  <1>4. CASE SettleTake(c) \/ Requeue(c) \/ RequeueRunning(c) \/ YieldRequeue(c)
    <2>1. {"take", "complete", "unlink", "requeue", "release", "requeue_running", "yielded"} \subseteq Held
      BY DEF Held, InDispatch
    <2>2. cpu[c].thread \in Threads
      BY <1>0, <1>4, <2>1 DEF SettleTake, Requeue, RequeueRunning, YieldRequeue, At
    <2>3. "enqueue" \in Sub /\ {"complete", "unlink", "release"} \subseteq Rets
      BY DEF Sub, InEnqueue, Rets
    <2>4. Handling(c) \in {"complete", "unlink"}
      BY DEF Handling
    <2> QED
      BY <1>4, <2>1, <2>2, <2>3, <2>4, GotoInner, CallFrom
      DEF SettleTake, Requeue, RequeueRunning, YieldRequeue, At, threadVars
  <1>5. CASE Unlink(c) \/ Reset(c)
    <2>1. {"unlink", "reset", "yielded"} \subseteq Held
      BY DEF Held, InDispatch
    <2> QED
      BY <1>5, <2>1, GotoInner DEF Unlink, Reset, At
  <1>6. CASE Yield(c) \/ ReturnBlocked(c) \/ BlockOnEvent(c) \/ Blocked(c) \/ BlockOnExit(c)
    BY <1>6, GotoInner DEF Yield, ReturnBlocked, BlockOnEvent, Blocked, BlockOnExit, Ends, At, Running,
       threadVars
  <1>7. CASE SweepTake(c) \/ SweepCheck(c)
    <2>1. CASE SweepCheck(c) /\ Call(c, "enqueue", cpu[c].target, "sweep_release")
      <3>1. /\ dispatch_ref' = dispatch_ref /\ cpu[c].pc \in Sweeping /\ "sweep_release" \in Sweeping
            /\ "sweep_release" \in Rets /\ "enqueue" \in Sub /\ cpu[c].target \in Threads
        BY <1>0, <2>1 DEF SweepCheck, At, threadVars, Sweeping, Rets, Sub, InEnqueue
      <3> QED
        BY <2>1, <3>1, CallFrom
    <2>2. CASE \E l \in {"sweep_check", "sweep_release"} : Goto(c, l)
      <3>1. PICK l \in {"sweep_check", "sweep_release"} : Goto(c, l)
        BY <2>2
      <3>2. /\ dispatch_ref' = dispatch_ref /\ cpu[c].pc \in {"sweep_take", "sweep_check"}
            /\ l \in Labels /\ l \notin Sub /\ cpu[c].pc \notin Sub /\ SamePhase(cpu[c].pc, l)
        BY <1>7, <3>1 DEF SweepTake, SweepCheck, At, threadVars, Sub, InEnqueue, InWake, Labels, InSweep,
           SamePhase, Sweeping, Outside, Running, Held, InDispatch, Unclaimed
      <3>3. /\ OnlyCpu(c) /\ KeepsWork(c) /\ cpu'[c].pc = l /\ cpu'[c].target = cpu[c].target
        BY <3>1, <3>2, GotoMoves
      <3>4. Base(c) = cpu[c].pc /\ Base(c)' = l
        BY <3>2, <3>3 DEF Base
      <3>5. cpu'[c].target = cpu'[c].slot
        BY <3>2, <3>3 DEF KeepsWork, Shape, ShapeOf
      <3> QED
        BY <3>2, <3>3, <3>4, <3>5 DEF Inner
    <2> QED
      BY <1>7, <2>1, <2>2 DEF SweepTake, SweepCheck
  <1>8. ASSUME NEW t \in Threads, WakeFromEvent(c, t) \/ TimeoutDue(c, t) \/ WakeFromExit(c, t)
        PROVE  Inner(c)
    <2>1. /\ dispatch_ref' = dispatch_ref /\ cpu[c].pc \in {"run", "idle", "loop"}
          /\ \E l \in {"wake", "fire", "promoted"} : Call(c, l, t, cpu[c].pc)
      BY <1>8 DEF WakeFromEvent, TimeoutDue, WakeFromExit, At, threadVars
    <2>2. {"wake", "fire", "promoted"} \subseteq Sub /\ {"run", "idle", "loop"} \subseteq Rets
          /\ "run" \in Running /\ {"idle", "loop"} \subseteq Outside
      BY DEF Sub, InWake, Rets, Running, Outside
    <2> QED
      BY <2>1, <2>2, CallFrom
  <1>9. CASE UnlinkDone(c)
    <2>1. /\ cpu[c].pc = "picked" /\ dispatch_ref' = dispatch_ref
          /\ cpu' = [cpu EXCEPT ![c] = [@ EXCEPT !.pc = "claim", !.rq = NOBODY]]
      BY <1>9 DEF UnlinkDone, At, threadVars
    <2>2. "claim" \in Labels /\ "claim" \notin Sub /\ "picked" \notin Sub /\ SamePhase("picked", "claim")
      BY DEF Labels, InDispatch, Sub, InWake, InEnqueue, SamePhase, Outside, Running, Held, Sweeping, Unclaimed
    <2>3. OnlyCpu(c) /\ KeepsWork(c) /\ cpu'[c].pc = "claim"
      BY <2>1, <2>2, LockMoves
    <2>4. cpu[c].pc \notin Sub /\ SamePhase(cpu[c].pc, "claim") /\ "claim" \notin {"sweep_take", "sweep_check"}
      BY <2>1, <2>2
    <2> QED
      BY <2>1, <2>2, <2>3, <2>4, PlainInner
  <1> QED
    BY <1>1, <1>2, <1>3, <1>4, <1>5, <1>6, <1>7, <1>8, <1>9 DEF InnerStep

-----------------------------------------------------------------------------
(* The phases and the slot claim. *)

\* The phase of one CPU is all that a step of it can disturb.
LEMMA ShapeLocal ==
    ASSUME Shape, NEW c \in CPUs, OnlyCpu(c), ShapeOf(c)'
    PROVE  Shape'
  BY DEF Shape, ShapeOf, Base, OnlyCpu

\* No claim is taken.
LEMMA ClaimsKept ==
    ASSUME Exclusive, NEW c \in CPUs, OnlyCpu(c), dispatch_ref' = dispatch_ref,
           \A t \in Threads : Claimed(c, t)' => Claimed(c, t)
    PROVE  Exclusive'
  BY DEF Exclusive, Claimed, Base, OnlyCpu

\* A free slot is claimed.
LEMMA ClaimTaken ==
    ASSUME TypeOK, Exclusive, NEW c \in CPUs, OnlyCpu(c), NEW t \in Threads, ~dispatch_ref[t],
           dispatch_ref' = [dispatch_ref EXCEPT ![t] = TRUE],
           \A x \in Threads : Claimed(c, x)' => x = t
    PROVE  Exclusive'
  <1>1. \A d \in CPUs : ~Claimed(d, t)
    BY DEF Exclusive
  <1>2. \A d \in CPUs, x \in Threads : d # c => (Claimed(d, x)' <=> Claimed(d, x))
    BY DEF OnlyCpu, Claimed, Base
  <1>3. dispatch_ref'[t] /\ \A x \in Threads : x # t => dispatch_ref'[x] = dispatch_ref[x]
    BY DEF TypeOK
  <1> QED
    BY <1>1, <1>2, <1>3 DEF Exclusive

\* A claim is given back.
LEMMA ClaimDropped ==
    ASSUME TypeOK, Exclusive, NEW c \in CPUs, OnlyCpu(c), NEW t \in Threads, Claimed(c, t),
           dispatch_ref' = [dispatch_ref EXCEPT ![t] = FALSE],
           \A x \in Threads : ~Claimed(c, x)'
    PROVE  Exclusive'
  <1>1. \A d \in CPUs : d # c => ~Claimed(d, t)
    BY DEF Exclusive
  <1>2. \A d \in CPUs, x \in Threads : d # c => (Claimed(d, x)' <=> Claimed(d, x))
    BY DEF OnlyCpu, Claimed, Base
  <1>3. \A x \in Threads : x # t => dispatch_ref'[x] = dispatch_ref[x]
    BY DEF TypeOK
  <1> QED
    BY <1>1, <1>2, <1>3 DEF Exclusive

\* Steps within a phase.
LEMMA InnerKeeps ==
    ASSUME Shape, Exclusive, NEW c \in CPUs, Inner(c)
    PROVE  Shape' /\ Exclusive'
  <1> DEFINE b == Base(c)
  <1>1. SamePhase(b, Base(c)')
    BY DEF Inner
  <1>2. /\ b \in Outside <=> Base(c)' \in Outside
        /\ b \in Running <=> Base(c)' \in Running
        /\ b \in Held <=> Base(c)' \in Held
        /\ b \in Sweeping <=> Base(c)' \in Sweeping
    BY <1>1 DEF SamePhase
  <1>3. ShapeOf(c)
    BY DEF Shape
  <1> HIDE DEF b
  <1>4. /\ b \in Outside \cup Sweeping => cpu[c].thread = NOBODY
        /\ b \notin Outside \cup Sweeping => cpu[c].thread \in Threads
        /\ b \in Running => cpu[c].current = cpu[c].thread
        /\ b \notin Running => cpu[c].current = NOBODY
        /\ b \in Sweeping => cpu[c].slot \in Threads
    BY <1>3 DEF ShapeOf, b
  <1>5. ShapeOf(c)'
    BY <1>2, <1>4 DEF ShapeOf, Inner, KeepsWork
  <1>6. \A t \in Threads : Claimed(c, t)' => Claimed(c, t)
    BY <1>2 DEF Claimed, Inner, KeepsWork, b
  <1> QED
    BY <1>5, <1>6, ShapeLocal, ClaimsKept DEF Inner

-----------------------------------------------------------------------------
(* The steps between phases. *)

\* The registers a pick leaves.
LEMMA PickedMoves ==
    ASSUME TypeOK, NEW c \in CPUs, NEW t \in Threads, NEW d \in CPUs,
           cpu' = [cpu EXCEPT ![c] = [@ EXCEPT !.pc = "picked", !.thread = t, !.rq = d]]
    PROVE  /\ OnlyCpu(c) /\ cpu'[c].pc = "picked" /\ cpu'[c].thread = t
           /\ cpu'[c].current = cpu[c].current
  <1> DEFINE r == [cpu[c] EXCEPT !.pc = "picked", !.thread = t, !.rq = d]
  <1>0. cpu[c] \in Registers /\ cpu \in [CPUs -> Registers] /\ "picked" \in Labels
    BY Parts DEF Labels, InDispatch
  <1>1. r \in Registers
    BY <1>0 DEF Registers
  <1>2. OnlyCpu(c) /\ cpu'[c] = r
    BY <1>0, <1>1, Replaced
  <1> QED
    BY <1>0, <1>2 DEF Registers

\* The registers the outer steps leave.
LEMMA OuterMoves ==
    ASSUME TypeOK, Shape, NEW c \in CPUs
    PROVE  /\ \A t \in Threads, d \in CPUs :
                 cpu' = [cpu EXCEPT ![c] = [@ EXCEPT !.pc = "picked", !.thread = t, !.rq = d]] =>
                    /\ OnlyCpu(c) /\ cpu'[c].pc = "picked" /\ cpu'[c].thread = t
                    /\ cpu'[c].current = cpu[c].current
           /\ SwitchRootless(c) =>
                 /\ OnlyCpu(c) /\ cpu'[c].pc = "rootless" /\ cpu'[c].thread = cpu[c].thread
                 /\ cpu'[c].current = cpu[c].thread
           /\ SwitchFailed(c) =>
                 /\ OnlyCpu(c) /\ cpu'[c].pc = "release" /\ cpu'[c].thread = cpu[c].thread
                 /\ cpu'[c].current = NOBODY
           /\ Switch(c) => /\ OnlyCpu(c) /\ cpu'[c].pc = "run" /\ cpu'[c].thread = cpu[c].thread
                           /\ cpu'[c].current = cpu[c].thread
           /\ ClearCurrent(c) => /\ OnlyCpu(c) /\ cpu'[c].pc = "settle"
                                 /\ cpu'[c].thread = cpu[c].thread /\ cpu'[c].current = NOBODY
           /\ Release(c) => /\ OnlyCpu(c) /\ cpu'[c].pc = "sweep" /\ cpu'[c].thread = NOBODY
                            /\ cpu'[c].current = cpu[c].current
           /\ NextSlot(c) /\ cpu[c].slot \in Threads =>
                 /\ OnlyCpu(c) /\ cpu'[c].pc = "sweep" /\ cpu'[c].thread = cpu[c].thread
                 /\ cpu'[c].current = cpu[c].current
           /\ SweepDone(c) => /\ OnlyCpu(c) /\ cpu'[c].pc = "loop" /\ cpu'[c].thread = cpu[c].thread
                              /\ cpu'[c].current = cpu[c].current
  <1>0. /\ cpu[c] \in Registers /\ cpu \in [CPUs -> Registers] /\ NThreads \in Nat
        /\ cpu[c].thread \in Threads \cup {NOBODY}
        /\ {"picked", "rootless", "release", "run", "settle", "sweep", "loop"} \subseteq Labels
    BY Parts, SchedAssumption DEF Labels, InThread, InDispatch, InSweep
  <1>1. ASSUME NEW t \in Threads, NEW d \in CPUs,
               cpu' = [cpu EXCEPT ![c] = [@ EXCEPT !.pc = "picked", !.thread = t, !.rq = d]]
        PROVE  /\ OnlyCpu(c) /\ cpu'[c].pc = "picked" /\ cpu'[c].thread = t
               /\ cpu'[c].current = cpu[c].current
    BY <1>1, PickedMoves
  <1>2. ASSUME Switch(c)
        PROVE  /\ OnlyCpu(c) /\ cpu'[c].pc = "run" /\ cpu'[c].thread = cpu[c].thread
               /\ cpu'[c].current = cpu[c].thread
    <2> DEFINE r == [cpu[c] EXCEPT !.pc = "run", !.current = cpu[c].thread]
    <2>1. r \in Registers
      BY <1>0 DEF Registers
    <2>2. OnlyCpu(c) /\ cpu'[c] = r
      BY <1>0, <1>2, <2>1, Replaced DEF Switch
    <2> QED
      BY <1>0, <2>2 DEF Registers
  <1>3. ASSUME ClearCurrent(c)
        PROVE  /\ OnlyCpu(c) /\ cpu'[c].pc = "settle" /\ cpu'[c].thread = cpu[c].thread
               /\ cpu'[c].current = NOBODY
    <2> DEFINE r == [cpu[c] EXCEPT !.pc = "settle", !.current = NOBODY]
    <2>1. r \in Registers
      BY <1>0 DEF Registers
    <2>2. OnlyCpu(c) /\ cpu'[c] = r
      BY <1>0, <1>3, <2>1, Replaced DEF ClearCurrent
    <2> QED
      BY <1>0, <2>2 DEF Registers
  <1>4. ASSUME Release(c)
        PROVE  /\ OnlyCpu(c) /\ cpu'[c].pc = "sweep" /\ cpu'[c].thread = NOBODY
               /\ cpu'[c].current = cpu[c].current
    <2> DEFINE r == [cpu[c] EXCEPT !.pc = "sweep", !.thread = NOBODY, !.result = "yielded"]
    <2>1. r \in Registers
      BY <1>0 DEF Registers
    <2>2. OnlyCpu(c) /\ cpu'[c] = r
      BY <1>0, <1>4, <2>1, Replaced DEF Release
    <2> QED
      BY <1>0, <2>2 DEF Registers
  <1>5. ASSUME NextSlot(c), cpu[c].slot \in Threads
        PROVE  /\ OnlyCpu(c) /\ cpu'[c].pc = "sweep" /\ cpu'[c].thread = cpu[c].thread
               /\ cpu'[c].current = cpu[c].current
    <2> DEFINE r == [cpu[c] EXCEPT !.pc = "sweep", !.slot = cpu[c].slot + 1, !.target = NOBODY]
    <2>0. cpu[c].slot + 1 \in 1 .. NThreads + 1
      BY <1>0, <1>5 DEF Threads
    <2>1. r \in Registers
      BY <1>0, <2>0 DEF Registers
    <2>2. cpu' = [cpu EXCEPT ![c] = r]
      BY <1>0, <1>5 DEF NextSlot
    <2>3. OnlyCpu(c) /\ cpu'[c] = r
      BY <2>1, <2>2, Replaced
    <2> QED
      BY <1>0, <2>3 DEF Registers
  <1>6. ASSUME SweepDone(c)
        PROVE  /\ OnlyCpu(c) /\ cpu'[c].pc = "loop" /\ cpu'[c].thread = cpu[c].thread
               /\ cpu'[c].current = cpu[c].current
    <2> DEFINE r == [cpu[c] EXCEPT !.pc = "loop", !.slot = 1]
    <2>0. 1 \in 1 .. NThreads + 1
      BY <1>0
    <2>1. r \in Registers
      BY <1>0, <2>0 DEF Registers
    <2>2. OnlyCpu(c) /\ cpu'[c] = r
      BY <1>0, <1>6, <2>1, Replaced DEF SweepDone
    <2> QED
      BY <1>0, <2>2 DEF Registers
  <1>7. ASSUME SwitchRootless(c)
        PROVE  /\ OnlyCpu(c) /\ cpu'[c].pc = "rootless" /\ cpu'[c].thread = cpu[c].thread
               /\ cpu'[c].current = cpu[c].thread
    <2> DEFINE r == [cpu[c] EXCEPT !.pc = "rootless", !.current = cpu[c].thread]
    <2>1. r \in Registers
      BY <1>0 DEF Registers
    <2>2. OnlyCpu(c) /\ cpu'[c] = r
      BY <1>0, <1>7, <2>1, Replaced DEF SwitchRootless
    <2> QED
      BY <1>0, <2>2 DEF Registers
  <1>8. ASSUME SwitchFailed(c)
        PROVE  /\ OnlyCpu(c) /\ cpu'[c].pc = "release" /\ cpu'[c].thread = cpu[c].thread
               /\ cpu'[c].current = NOBODY
    <2> DEFINE r == [cpu[c] EXCEPT !.pc = "release", !.current = NOBODY]
    <2>1. r \in Registers
      BY <1>0 DEF Registers
    <2>2. OnlyCpu(c) /\ cpu'[c] = r
      BY <1>0, <1>8, <2>1, Replaced DEF SwitchFailed
    <2> QED
      BY <1>0, <2>2 DEF Registers
  <1> QED
    BY <1>1, <1>2, <1>3, <1>4, <1>5, <1>6, <1>7, <1>8

\* A pick, from the own queue or another.
Picks(c) == \E t \in Threads, d \in CPUs :
    cpu' = [cpu EXCEPT ![c] = [@ EXCEPT !.pc = "picked", !.thread = t, !.rq = d]]

\* Picking: no claim yet.
LEMMA PickKeeps ==
    ASSUME TypeOK, Shape, Exclusive, NEW c \in CPUs, cpu[c].pc \in {"pick", "steal"}, Picks(c),
           dispatch_ref' = dispatch_ref
    PROVE  OnlyCpu(c) /\ Shape' /\ Exclusive'
  <1>1. PICK t \in Threads, d \in CPUs :
           cpu' = [cpu EXCEPT ![c] = [@ EXCEPT !.pc = "picked", !.thread = t, !.rq = d]]
    BY DEF Picks
  <1>2. /\ OnlyCpu(c) /\ cpu'[c].pc = "picked" /\ cpu'[c].thread = t
        /\ cpu'[c].current = cpu[c].current
    BY <1>1, OuterMoves
  <1>3. Base(c) = cpu[c].pc /\ Base(c)' = "picked"
    BY <1>2 DEF Base, Sub, InWake, InEnqueue
  <1>4. "picked" \notin Outside \cup Running \cup Held \cup Sweeping \cup Sub
    BY DEF Outside, Running, Held, Sweeping, Unclaimed, Sub, InWake, InEnqueue
  <1>5. cpu[c].current = NOBODY
    BY <1>3 DEF Shape, ShapeOf, Running
  <1>6. ShapeOf(c)' /\ \A x \in Threads : ~Claimed(c, x)'
    BY <1>2, <1>3, <1>4, <1>5 DEF ShapeOf, Claimed
  <1> QED
    BY <1>2, <1>6, ShapeLocal, ClaimsKept

\* The contest for the slot.
LEMMA SlotClaimKeeps ==
    ASSUME TypeOK, Shape, Exclusive, NEW c \in CPUs, SlotClaim(c)
    PROVE  OnlyCpu(c) /\ Shape' /\ Exclusive' /\ cpu'[c].thread = cpu[c].thread
  <1> DEFINE t == cpu[c].thread
  <1>1. /\ Base(c) = "claim" /\ t \in Threads /\ cpu[c].current = NOBODY
    BY DEF SlotClaim, At, Base, Sub, InWake, InEnqueue, Shape, ShapeOf, Outside, Sweeping, Running
  <1>2. "dropped" \in Labels /\ "ready" \in Labels /\ "ready" \in Held
    BY DEF Labels, InDispatch, Held
  <1>3. CASE dispatch_ref[t]
    <2>1. Goto(c, "dropped") /\ dispatch_ref' = dispatch_ref
      BY <1>3 DEF SlotClaim
    <2>2. OnlyCpu(c) /\ KeepsWork(c) /\ cpu'[c].pc = "dropped"
      BY <1>2, <2>1, GotoMoves
    <2>3. /\ Base(c)' = "dropped"
          /\ "dropped" \notin Outside \cup Running \cup Held \cup Sweeping \cup Sub
      BY <2>2 DEF Base, Outside, Running, Held, InDispatch, Sweeping, Sub, InWake, InEnqueue
    <2>4. ShapeOf(c)' /\ \A x \in Threads : ~Claimed(c, x)'
      BY <1>1, <2>2, <2>3 DEF ShapeOf, Claimed, KeepsWork
    <2> QED
      BY <2>1, <2>2, <2>4, ShapeLocal, ClaimsKept DEF KeepsWork
  <1>4. CASE ~dispatch_ref[t]
    <2>1. Goto(c, "ready") /\ dispatch_ref' = [dispatch_ref EXCEPT ![t] = TRUE]
      BY <1>4 DEF SlotClaim
    <2>2. OnlyCpu(c) /\ KeepsWork(c) /\ cpu'[c].pc = "ready"
      BY <1>2, <2>1, GotoMoves
    <2>3. /\ Base(c)' = "ready"
          /\ "ready" \notin Outside \cup Running \cup Sweeping \cup Sub
      BY <2>2 DEF Base, Outside, Running, Sweeping, Sub, InWake, InEnqueue
    <2>4. ShapeOf(c)' /\ \A x \in Threads : Claimed(c, x)' => x = t
      BY <1>1, <2>2, <2>3 DEF ShapeOf, Claimed, KeepsWork
    <2> HIDE DEF t
    <2> QED
      BY <1>1, <1>4, <2>1, <2>2, <2>4, ShapeLocal, ClaimTaken DEF KeepsWork, t
  <1> QED
    BY <1>3, <1>4

\* A pick that lost the contest.
LEMMA DroppedKeeps ==
    ASSUME TypeOK, Shape, Exclusive, NEW c \in CPUs, DroppedPick(c)
    PROVE  /\ OnlyCpu(c) /\ Shape' /\ Exclusive' /\ cpu'[c].thread = NOBODY
           /\ cpu'[c].pc \in {"owe", "sweep"}
  <1> DEFINE t == cpu[c].thread
             ready == state[t] = "READY"
             r == [cpu[c] EXCEPT !.pc = IF ready THEN "owe" ELSE "sweep",
                                 !.target = IF ready THEN t ELSE NOBODY,
                                 !.ret = IF ready THEN "sweep" ELSE "loop",
                                 !.thread = NOBODY]
  <1>1. /\ t \in Threads /\ cpu[c].current = NOBODY
    BY DEF DroppedPick, At, Base, Sub, InWake, InEnqueue, Shape, ShapeOf, Outside, Sweeping, Running
  <1>2. {"owe", "sweep", "loop"} \subseteq Labels /\ cpu[c] \in Registers
    BY Parts DEF Labels, InWake, InSweep
  <1>3. r \in Registers /\ r.thread = NOBODY /\ r.current = NOBODY
    BY <1>1, <1>2 DEF Registers
  <1>4. cpu' = [cpu EXCEPT ![c] = r] /\ dispatch_ref' = dispatch_ref
    BY DEF DroppedPick, threadVars
  <1>5. OnlyCpu(c) /\ cpu'[c] = r
    BY <1>3, <1>4, Replaced
  <1>6. \/ r.pc = "owe" /\ r.target \in Threads /\ r.ret = "sweep"
        \/ r.pc = "sweep"
    BY <1>1, <1>2 DEF Registers
  <1> HIDE DEF r
  <1>7. Base(c)' = "sweep" /\ "owe" \notin {"sweep_take", "sweep_check"}
    BY <1>5, <1>6 DEF Base, Sub, InWake, InEnqueue
  <1>8. /\ "sweep" \in Outside /\ "sweep" \notin Running \cup Held \cup Sweeping \cup Sub
        /\ "sweep" \in Rets /\ r.pc \notin {"sweep_take", "sweep_check"}
    BY <1>6 DEF Outside, Running, Held, InDispatch, Sweeping, Sub, InWake, InEnqueue, Rets
  <1>9. ShapeOf(c)' /\ \A x \in Threads : ~Claimed(c, x)'
    BY <1>3, <1>5, <1>6, <1>7, <1>8 DEF ShapeOf, Claimed
  <1> QED
    BY <1>3, <1>4, <1>5, <1>6, <1>9, ShapeLocal, ClaimsKept

\* Onto the thread's stack and off it.
LEMMA SwitchKeeps ==
    ASSUME TypeOK, Shape, Exclusive, NEW c \in CPUs, Switch(c) \/ SwitchRootless(c) \/ SwitchFailed(c) \/ ClearCurrent(c)
    PROVE  OnlyCpu(c) /\ Shape' /\ Exclusive' /\ cpu'[c].thread = cpu[c].thread
  <1>1. /\ OnlyCpu(c) /\ cpu'[c].thread = cpu[c].thread
        /\ \/ cpu'[c].pc \in {"run", "rootless"} /\ cpu'[c].current = cpu[c].thread
           \/ cpu'[c].pc \in {"settle", "release"} /\ cpu'[c].current = NOBODY
    BY OuterMoves
  <1>2. Base(c) \in {"switch", "clear", "rootless"} /\ dispatch_ref' = dispatch_ref
    BY DEF Switch, SwitchRootless, SwitchFailed, ClearCurrent, At, Base, Sub, InWake, InEnqueue, threadVars
  <1>3. /\ "switch" \in Held /\ {"clear", "rootless"} \subseteq Running
        /\ Base(c)' = cpu'[c].pc /\ cpu'[c].pc \notin Sub
    BY <1>1 DEF Held, InDispatch, Running, Base, Sub, InWake, InEnqueue
  <1>4. cpu[c].thread \in Threads
    BY <1>2 DEF Shape, ShapeOf, Outside, Sweeping
  <1>5. /\ {"run", "rootless"} \subseteq Running /\ {"run", "rootless"} \cap (Outside \cup Sweeping) = {}
        /\ {"settle", "release"} \subseteq Held
        /\ {"settle", "release"} \cap (Outside \cup Sweeping \cup Running) = {}
    BY DEF Running, Outside, Sweeping, Held, InDispatch
  <1>6. ShapeOf(c)'
    BY <1>1, <1>3, <1>4, <1>5 DEF ShapeOf
  <1>7. \A x \in Threads : Claimed(c, x)' => Claimed(c, x)
    BY <1>1, <1>2, <1>3, <1>5 DEF Claimed
  <1> QED
    BY <1>1, <1>2, <1>6, <1>7, ShapeLocal, ClaimsKept

\* The end of a dispatch gives the slot back.
LEMMA ReleaseKeeps ==
    ASSUME TypeOK, Shape, Exclusive, NEW c \in CPUs, Release(c)
    PROVE  OnlyCpu(c) /\ Shape' /\ Exclusive' /\ cpu'[c].thread = NOBODY
  <1> DEFINE t == cpu[c].thread
  <1>1. /\ OnlyCpu(c) /\ cpu'[c].pc = "sweep" /\ cpu'[c].thread = NOBODY
        /\ cpu'[c].current = cpu[c].current
    BY OuterMoves
  <1>2. Base(c) = "release" /\ "release" \in Held /\ t \in Threads /\ cpu[c].current = NOBODY
    BY DEF Release, At, Base, Sub, InWake, InEnqueue, Shape, ShapeOf, Outside, Sweeping, Running, Held,
       InDispatch
  <1>3. Claimed(c, t) /\ dispatch_ref' = [dispatch_ref EXCEPT ![t] = FALSE]
    BY <1>2 DEF Claimed, Release
  <1>4. Base(c)' = "sweep" /\ "sweep" \in Outside /\ "sweep" \notin Running \cup Held \cup Sweeping \cup Sub
    BY <1>1 DEF Base, Outside, Running, Held, InDispatch, Sweeping, Sub, InWake, InEnqueue
  <1>5. ShapeOf(c)' /\ \A x \in Threads : ~Claimed(c, x)'
    BY <1>1, <1>2, <1>4 DEF ShapeOf, Claimed
  <1> HIDE DEF t
  <1> QED
    BY <1>1, <1>2, <1>3, <1>5, ShapeLocal, ClaimDropped

\* The sweep claims a slot that is owed an enqueue, and gives it back.
LEMMA SweepKeeps ==
    ASSUME TypeOK, Shape, Exclusive, NEW c \in CPUs, Sweep(c) \/ SweepRelease(c) \/ SweepDone(c)
    PROVE  OnlyCpu(c) /\ Shape' /\ Exclusive' /\ cpu'[c].thread = cpu[c].thread
  <1> DEFINE t == cpu[c].slot
  <1>0. /\ Base(c) = cpu[c].pc /\ cpu[c].pc \in {"sweep", "sweep_release"}
        /\ cpu[c].thread = NOBODY /\ cpu[c].current = NOBODY
        /\ cpu[c].pc = "sweep_release" => t \in Threads
    BY DEF Sweep, SweepRelease, SweepDone, At, Base, Sub, InWake, InEnqueue, Shape, ShapeOf, Outside,
       Sweeping, Running
  <1>1. /\ "sweep" \in Outside /\ "sweep" \notin Running \cup Held \cup Sweeping \cup Sub
        /\ "loop" \in Outside /\ "loop" \notin Running \cup Held \cup Sweeping \cup Sub
        /\ "sweep_take" \in Sweeping /\ "sweep_take" \notin Running \cup Held \cup Outside \cup Sub
        /\ "sweep_release" \in Sweeping /\ "sweep_take" \in Labels /\ "loop" \in Labels
    BY DEF Outside, Running, Held, InDispatch, Sweeping, Sub, InWake, InEnqueue, Labels, InSweep
  <1>2. CASE Sweep(c) /\ Call(c, "sweep_take", t, "loop")
    <2>1. t \in Threads /\ ~dispatch_ref[t] /\ dispatch_ref' = [dispatch_ref EXCEPT ![t] = TRUE]
      <3>1. t \in Threads /\ At(c, "sweep")
        BY <1>2 DEF Sweep
      <3>2. ~NextSlot(c)
        <4>1. cpu'[c].pc = "sweep_take"
          BY <1>1, <1>2, <3>1, CallMoves
        <4> QED
          BY <3>1, <4>1, OuterMoves
      <3> QED
        BY <1>2, <3>1, <3>2 DEF Sweep
    <2>2. /\ OnlyCpu(c) /\ KeepsWork(c) /\ cpu'[c].pc = "sweep_take" /\ cpu'[c].target = t
      BY <1>1, <1>2, <2>1, CallMoves
    <2>3. Base(c)' = "sweep_take"
      BY <1>1, <2>2 DEF Base
    <2>4. ShapeOf(c)' /\ \A x \in Threads : Claimed(c, x)' => x = t
      BY <1>0, <1>1, <2>1, <2>2, <2>3 DEF ShapeOf, Claimed, KeepsWork
    <2> HIDE DEF t
    <2> QED
      BY <2>1, <2>2, <2>4, ShapeLocal, ClaimTaken DEF KeepsWork
  <1>3. CASE (Sweep(c) /\ NextSlot(c) /\ dispatch_ref' = dispatch_ref) \/ SweepDone(c)
    <2>1. /\ OnlyCpu(c) /\ cpu'[c].pc \in {"sweep", "loop"} /\ cpu'[c].thread = cpu[c].thread
          /\ cpu'[c].current = cpu[c].current
      BY <1>3, OuterMoves DEF Sweep
    <2>2. Base(c)' = cpu'[c].pc
      BY <1>1, <2>1 DEF Base
    <2>3. ShapeOf(c)' /\ \A x \in Threads : ~Claimed(c, x)'
      BY <1>0, <1>1, <2>1, <2>2 DEF ShapeOf, Claimed
    <2>4. dispatch_ref' = dispatch_ref
      BY <1>3 DEF SweepDone, threadVars
    <2> QED
      BY <2>1, <2>3, <2>4, ShapeLocal, ClaimsKept
  <1>4. CASE SweepRelease(c)
    <2>1. t \in Threads /\ cpu[c].pc = "sweep_release" /\ NextSlot(c)
      BY <1>0, <1>4 DEF SweepRelease, At
    <2>2. /\ OnlyCpu(c) /\ cpu'[c].pc = "sweep" /\ cpu'[c].thread = cpu[c].thread
          /\ cpu'[c].current = cpu[c].current
      BY <2>1, OuterMoves
    <2>3. Base(c)' = "sweep"
      BY <1>1, <2>2 DEF Base
    <2>4. ShapeOf(c)' /\ \A x \in Threads : ~Claimed(c, x)'
      BY <1>0, <1>1, <2>2, <2>3 DEF ShapeOf, Claimed
    <2>5. Claimed(c, t) /\ dispatch_ref' = [dispatch_ref EXCEPT ![t] = FALSE]
      BY <1>0, <1>1, <1>4, <2>1 DEF Claimed, SweepRelease
    <2> HIDE DEF t
    <2> QED
      BY <2>1, <2>2, <2>4, <2>5, ShapeLocal, ClaimDropped
  <1> QED
    BY <1>2, <1>3, <1>4 DEF Sweep

-----------------------------------------------------------------------------
(* Every step: its CPU, the phases and the claims. *)

Step(c) == Dispatching(c) \/ Chosen(c)

\* Where the registers index the thread table.
LEMMA Indices ==
    ASSUME TypeOK, Shape, NEW c \in CPUs
    PROVE  /\ cpu[c].pc \in Running \cup Held \cup Unclaimed \cup {"dropped"} => cpu[c].thread \in Threads
           /\ cpu[c].pc \in Sub \cup {"sweep_take", "sweep_check"} => cpu[c].target \in Threads
           /\ cpu[c].pc = "sweep_release" => cpu[c].slot \in Threads
  <1>1. /\ (Running \cup Held \cup Unclaimed \cup {"dropped"}) \cap (Outside \cup Sweeping) = {}
        /\ (Running \cup Held \cup Unclaimed \cup {"dropped"}) \cap Sub = {}
        /\ {"sweep_take", "sweep_check", "sweep_release"} \cap Sub = {}
        /\ {"sweep_take", "sweep_check", "sweep_release"} = Sweeping
    BY DEF Sub, Outside, Running, Held, Sweeping, Unclaimed, InWake, InEnqueue, InDispatch
  <1> QED
    BY <1>1 DEF Shape, ShapeOf, Base

\* A pick takes a thread.
LEMMA PickMoves ==
    ASSUME TypeOK, NEW c \in CPUs, Pick(c) \/ Steal(c)
    PROVE  (queue' = queue /\ cpu[c].pc = "pick" /\ Goto(c, "steal")) \/ Picks(c)
  <1>1. CASE Pick(c)
    <2>1. CASE queue[c] # << >>
      <3>1. queue[c] \in Seq(Threads)
        BY DEF TypeOK
      <3>2. Head(queue[c]) \in Threads
        BY <2>1, <3>1
      <3> QED
        BY <1>1, <2>1, <3>2 DEF Pick, Picks
    <2> QED
      BY <1>1, <2>1 DEF Pick, At
  <1>2. CASE Steal(c)
    <2>1. PICK d \in CPUs : \E i \in 1 .. Len(queue[d]) :
             cpu' = [cpu EXCEPT ![c] = [@ EXCEPT !.pc = "picked", !.thread = queue[d][i], !.rq = d]]
      BY <1>2 DEF Steal
    <2>2. queue[d] \in Seq(Threads)
      BY DEF TypeOK
    <2>3. \A i \in 1 .. Len(queue[d]) : queue[d][i] \in Threads
      BY <2>2
    <2> QED
      BY <2>1, <2>3 DEF Picks
  <1> QED
    BY <1>1, <1>2

\* A step changes one CPU's registers, and keeps phases and claims.
LEMMA StepKeeps ==
    ASSUME TypeOK, Shape, Exclusive, NEW c \in CPUs, Step(c)
    PROVE  OnlyCpu(c) /\ Shape' /\ Exclusive'
  <1>1. CASE Pick(c) \/ Steal(c)
    <2>1. cpu[c].pc \in {"pick", "steal"} /\ dispatch_ref' = dispatch_ref
      BY <1>1 DEF Pick, Steal, At, threadVars
    <2>2. CASE cpu[c].pc = "pick" /\ Goto(c, "steal")
      <3>1. Inner(c)
        BY <2>1, <2>2, GotoInner DEF Outside
      <3> QED
        BY <3>1, InnerKeeps DEF Inner
    <2>3. CASE Picks(c)
      BY <2>1, <2>3, PickKeeps
    <2> QED
      BY <1>1, <2>2, <2>3, PickMoves
  <1>2. CASE SubStep(c) \/ InnerStep(c)
    <2>1. Inner(c)
      BY <1>2, SubStepInner, InnerSteps
    <2> QED
      BY <2>1, InnerKeeps DEF Inner
  <1>3. CASE SlotClaim(c) \/ DroppedPick(c) \/ Switch(c) \/ SwitchRootless(c) \/ SwitchFailed(c) \/ ClearCurrent(c) \/ Release(c)
    BY <1>3, SlotClaimKeeps, DroppedKeeps, SwitchKeeps, ReleaseKeeps
  <1>4. CASE Sweep(c) \/ SweepRelease(c) \/ SweepDone(c)
    BY <1>4, SweepKeeps
  <1> QED
    BY <1>1, <1>2, <1>3, <1>4 DEF Step, Dispatching, Chosen, SubStep, InnerStep

-----------------------------------------------------------------------------
(* Types. *)

\* A cell of a table, or none, is overwritten.
LEMMA CellTyped ==
    ASSUME NEW S, NEW T, NEW f \in [S -> T], NEW g, NEW x \in S, NEW v \in T,
           g = f \/ g = [f EXCEPT ![x] = v]
    PROVE  g \in [S -> T]
  OBVIOUS

\* Thread states.
LEMMA StateTyped ==
    ASSUME TypeOK, Shape, NEW c \in CPUs, Step(c)
    PROVE  \/ state' = state
           \/ \E t \in Threads, s \in States : state' = [state EXCEPT ![t] = s]
  <1>0. /\ {"ready", "set_running", "promote", "requeue_running", "yielded"} \subseteq Held
        /\ {"run", "block"} \subseteq Running
        /\ {"mark_cas", "late_mark_cas", "if_blocked", "promoted"} \subseteq Sub
        /\ "READY" \in States /\ "RUNNING" \in States /\ "BLOCKED" \in States
    BY DEF Held, Running, Sub, InDispatch, InWake, InEnqueue, States
  <1>1. CASE \/ ClaimForDispatch(c) \/ SetRunning(c) \/ Promote(c) \/ RequeueRunning(c)
             \/ YieldRequeue(c) \/ Blocked(c) \/ BlockOnExit(c)
    <2>1. cpu[c].thread \in Threads
      BY <1>0, <1>1, Indices DEF ClaimForDispatch, SetRunning, Promote, RequeueRunning, YieldRequeue,
         Blocked, BlockOnExit, At
    <2> QED
      BY <1>0, <1>1, <2>1 DEF ClaimForDispatch, SetRunning, Promote, RequeueRunning, YieldRequeue,
         Blocked, BlockOnExit
  <1>2. CASE MarkCas(c) \/ WakeIfBlocked(c) \/ WakePromote(c)
    <2>1. cpu[c].target \in Threads
      BY <1>0, <1>2, Indices DEF MarkCas, WakeIfBlocked, WakePromote, At
    <2> QED
      BY <1>0, <1>2, <2>1 DEF MarkCas, WakeIfBlocked, WakePromote
  <1> QED
    BY <1>1, <1>2 DEF Step, Dispatching, Chosen, Pick, Steal, UnlinkDone, StealNothing, SlotClaim, DroppedPick,
       Switch, SwitchRootless, SwitchFailed, ClearCurrent, Settle, SettleTake, Complete, Token, Requeue, Unlink, Reset, Release,
       EnqueueScan, EnqueueCheck, Link, Insert, Owe, OweFirst, MarkLoad, TimeoutFire, WakePublish,
       WakeTransition, WakeClaim, Sweep, SweepTake, SweepCheck, SweepRelease, SweepDone, TimeoutsDone,
       LeaveIdle, Yield, ReturnBlocked, BlockOnEvent, WakeFromEvent, TimeoutDue, WakeFromExit, threadVars

\* Transition flags.
LEMMA TransitionTyped ==
    ASSUME TypeOK, Shape, NEW c \in CPUs, Step(c)
    PROVE  \/ blocking_transition' = blocking_transition
           \/ \E t \in Threads, v \in BOOLEAN : blocking_transition' = [blocking_transition EXCEPT ![t] = v]
  <1>0. {"run", "complete", "reset"} \subseteq Running \cup Held \cup Unclaimed
    BY DEF Held, Running, Unclaimed, Sub, InDispatch, InWake, InEnqueue
  <1>1. CASE BlockOnEvent(c) \/ Complete(c) \/ Reset(c)
    <2>1. cpu[c].thread \in Threads
      BY <1>0, <1>1, Indices DEF BlockOnEvent, Complete, Reset, At
    <2> QED
      BY <1>1, <2>1 DEF BlockOnEvent, Complete, Reset
  <1> QED
    BY <1>1 DEF Step, Dispatching, Chosen, Pick, Steal, UnlinkDone, StealNothing, SlotClaim, DroppedPick, ClaimForDispatch,
       SetRunning, Switch, SwitchRootless, SwitchFailed, Blocked, ClearCurrent, Settle, SettleTake, Token, Promote, Requeue,
       RequeueRunning, Unlink, YieldRequeue, Release, EnqueueScan, EnqueueCheck, Link, Insert, Owe,
       OweFirst, MarkLoad, MarkCas, TimeoutFire, WakePublish, WakeTransition, WakeClaim,
       WakeIfBlocked, WakePromote, Sweep, SweepTake, SweepCheck, SweepRelease, SweepDone,
       TimeoutsDone, LeaveIdle, Yield, ReturnBlocked, BlockOnExit, TimeoutDue, WakeFromEvent,
       WakeFromExit, threadVars

\* Wake tokens.
LEMMA WakePendingTyped ==
    ASSUME TypeOK, Shape, NEW c \in CPUs, Step(c)
    PROVE  \/ wake_pending' = wake_pending
           \/ \E t \in Threads, v \in BOOLEAN : wake_pending' = [wake_pending EXCEPT ![t] = v]
  <1>0. {"token", "reset"} \subseteq Running \cup Held \cup Unclaimed /\ {"wake", "promoted_wake", "claim_wake", "promoted_claim"} \subseteq Sub \cup {"sweep_take"}
    BY DEF Held, Running, Unclaimed, Sub, InDispatch, InWake, InEnqueue
  <1>1. CASE Token(c) \/ Reset(c)
    <2>1. cpu[c].thread \in Threads
      BY <1>0, <1>1, Indices DEF Token, Reset, At
    <2> QED
      BY <1>1, <2>1 DEF Token, Reset
  <1>2. CASE WakePublish(c) \/ WakeClaim(c)
    <2>1. cpu[c].target \in Threads
      BY <1>0, <1>2, Indices DEF WakePublish, WakeClaim, At
    <2> QED
      BY <1>2, <2>1 DEF WakePublish, WakeClaim
  <1> QED
    BY <1>1, <1>2 DEF Step, Dispatching, Chosen, Pick, Steal, UnlinkDone, StealNothing, SlotClaim, DroppedPick, ClaimForDispatch,
       SetRunning, Switch, SwitchRootless, SwitchFailed, Blocked, ClearCurrent, Settle, SettleTake, Complete, Promote, Requeue,
       RequeueRunning, Unlink, YieldRequeue, Release, EnqueueScan, EnqueueCheck, Link, Insert, Owe,
       OweFirst, MarkLoad, MarkCas, TimeoutFire, WakeTransition, WakeIfBlocked, WakePromote,
       Sweep, SweepTake, SweepCheck, SweepRelease, SweepDone, TimeoutsDone, LeaveIdle, Yield,
       ReturnBlocked, BlockOnEvent, BlockOnExit, TimeoutDue, WakeFromEvent, WakeFromExit,
       threadVars

\* Debts.
LEMMA OwedTyped ==
    ASSUME TypeOK, Shape, NEW c \in CPUs, Step(c)
    PROVE  \/ enqueue_owed' = enqueue_owed
           \/ \E t \in Threads, v \in BOOLEAN : enqueue_owed' = [enqueue_owed EXCEPT ![t] = v]
  <1>0. {"take"} \subseteq Running \cup Held \cup Unclaimed /\ {"owe", "owe_first", "sweep_take"} \subseteq Sub \cup {"sweep_take"}
    BY DEF Held, Running, Unclaimed, Sub, InDispatch, InWake, InEnqueue
  <1>1. CASE SettleTake(c)
    <2>1. cpu[c].thread \in Threads
      BY <1>0, <1>1, Indices DEF SettleTake, At
    <2> QED
      BY <1>1, <2>1 DEF SettleTake
  <1>2. CASE Owe(c) \/ OweFirst(c) \/ SweepTake(c)
    <2>1. cpu[c].target \in Threads
      BY <1>0, <1>2, Indices DEF Owe, OweFirst, SweepTake, At
    <2> QED
      BY <1>2, <2>1 DEF Owe, OweFirst, SweepTake
  <1> QED
    BY <1>1, <1>2 DEF Step, Dispatching, Chosen, Pick, Steal, UnlinkDone, StealNothing, SlotClaim, DroppedPick, ClaimForDispatch,
       SetRunning, Switch, SwitchRootless, SwitchFailed, Blocked, ClearCurrent, Settle, Complete, Token, Promote, Requeue,
       RequeueRunning, Unlink, Reset, YieldRequeue, Release, EnqueueScan, EnqueueCheck, Link, Insert,
       MarkLoad, MarkCas, TimeoutFire, WakePublish, WakeTransition, WakeClaim, WakeIfBlocked,
       WakePromote, Sweep, SweepCheck, SweepRelease, SweepDone, TimeoutsDone, LeaveIdle, Yield,
       ReturnBlocked, BlockOnEvent, BlockOnExit, TimeoutDue, WakeFromEvent, WakeFromExit,
       threadVars

\* Slot claims.
LEMMA SlotTyped ==
    ASSUME TypeOK, Shape, NEW c \in CPUs, Step(c)
    PROVE  \/ dispatch_ref' = dispatch_ref
           \/ \E t \in Threads, v \in BOOLEAN : dispatch_ref' = [dispatch_ref EXCEPT ![t] = v]
  <1>0. {"claim", "release"} \subseteq Running \cup Held \cup Unclaimed
    BY DEF Held, Running, Unclaimed, Sub, InDispatch, InWake, InEnqueue
  <1>1. CASE SlotClaim(c) \/ Release(c)
    <2>1. cpu[c].thread \in Threads
      BY <1>0, <1>1, Indices DEF SlotClaim, Release, At
    <2> QED
      BY <1>1, <2>1 DEF SlotClaim, Release
  <1>2. CASE Sweep(c) \/ SweepRelease(c)
    <2>1. cpu[c].slot \in Threads
      BY <1>0, <1>2, Indices DEF Sweep, SweepRelease, At
    <2> QED
      BY <1>2, <2>1 DEF Sweep, SweepRelease
  <1> QED
    BY <1>1, <1>2 DEF Step, Dispatching, Chosen, Pick, Steal, UnlinkDone, StealNothing, DroppedPick, ClaimForDispatch, SetRunning,
       Switch, SwitchRootless, SwitchFailed, Blocked, ClearCurrent, Settle, SettleTake, Complete, Token, Promote, Requeue,
       RequeueRunning, Unlink, Reset, YieldRequeue, EnqueueScan, EnqueueCheck, Link, Insert, Owe,
       OweFirst, MarkLoad, MarkCas, TimeoutFire, WakePublish, WakeTransition, WakeClaim,
       WakeIfBlocked, WakePromote, SweepTake, SweepCheck, SweepDone, TimeoutsDone, LeaveIdle,
       Yield, ReturnBlocked, BlockOnEvent, BlockOnExit, TimeoutDue, WakeFromEvent, WakeFromExit,
       threadVars

\* Wait-list membership.
LEMMA WaitingTyped ==
    ASSUME TypeOK, Shape, NEW c \in CPUs, Step(c)
    PROVE  \/ waiting' = waiting
           \/ \E t \in Threads, v \in {"no", "event", "exit"} : waiting' = [waiting EXCEPT ![t] = v]
  <1>0. {"run", "unlink"} \subseteq Running \cup Held \cup Unclaimed /\ {"fire"} \subseteq Sub \cup {"sweep_take"}
    BY DEF Held, Running, Unclaimed, Sub, InDispatch, InWake, InEnqueue
  <1>1. CASE BlockOnEvent(c) \/ BlockOnExit(c) \/ Unlink(c)
    <2>1. cpu[c].thread \in Threads
      BY <1>0, <1>1, Indices DEF BlockOnEvent, BlockOnExit, Unlink, At
    <2> QED
      BY <1>1, <2>1 DEF BlockOnEvent, BlockOnExit, Unlink
  <1>2. CASE TimeoutFire(c)
    <2>1. cpu[c].target \in Threads
      BY <1>0, <1>2, Indices DEF TimeoutFire, At
    <2> QED
      BY <1>2, <2>1 DEF TimeoutFire
  <1>3. ASSUME NEW t \in Threads, WakeFromEvent(c, t) \/ WakeFromExit(c, t)
        PROVE  \E v \in {"no", "event", "exit"} : waiting' = [waiting EXCEPT ![t] = v]
    BY <1>3 DEF WakeFromEvent, WakeFromExit
  <1> QED
    BY <1>1, <1>2, <1>3 DEF Step, Dispatching, Chosen, Pick, Steal, UnlinkDone, StealNothing, SlotClaim, DroppedPick, ClaimForDispatch,
       SetRunning, Switch, SwitchRootless, SwitchFailed, Blocked, ClearCurrent, Settle, SettleTake, Complete, Token, Promote,
       Requeue, RequeueRunning, Reset, YieldRequeue, Release, EnqueueScan, EnqueueCheck, Link, Insert,
       Owe, OweFirst, MarkLoad, MarkCas, WakePublish, WakeTransition, WakeClaim, WakeIfBlocked,
       WakePromote, Sweep, SweepTake, SweepCheck, SweepRelease, SweepDone, TimeoutsDone,
       LeaveIdle, Yield, ReturnBlocked, TimeoutDue, threadVars

\* Claims on run-queue nodes, and the history of loose threads.
LEMMA FlagTyped ==
    ASSUME TypeOK, Shape, NEW c \in CPUs, Step(c)
    PROVE  /\ \/ on_rq' = on_rq
              \/ \E t \in Threads, v \in BOOLEAN : on_rq' = [on_rq EXCEPT ![t] = v]
           /\ \/ loose' = loose
              \/ \E t \in Threads, v \in BOOLEAN : loose' = [loose EXCEPT ![t] = v]
  <1>0. {"picked", "ready", "set_running", "block", "run"} \subseteq Running \cup Held \cup Unclaimed
        /\ {"link", "insert", "owe", "mark_cas", "late_mark_cas", "promoted"} \subseteq Sub
    BY DEF Held, Running, Unclaimed, Sub, InDispatch, InWake, InEnqueue
  <1>1. CASE UnlinkDone(c) \/ ClaimForDispatch(c) \/ SetRunning(c) \/ Blocked(c) \/ BlockOnExit(c)
    <2>1. cpu[c].thread \in Threads
      BY <1>0, <1>1, Indices DEF UnlinkDone, ClaimForDispatch, SetRunning, Blocked, BlockOnExit, At
    <2> QED
      BY <1>1, <2>1 DEF UnlinkDone, ClaimForDispatch, SetRunning, Blocked, BlockOnExit, threadVars
  <1>2. CASE Link(c) \/ Insert(c) \/ Owe(c) \/ MarkCas(c) \/ WakePromote(c)
    <2>1. cpu[c].target \in Threads
      BY <1>0, <1>2, Indices DEF Link, Insert, Owe, MarkCas, WakePromote, At
    <2> QED
      BY <1>2, <2>1 DEF Link, Insert, Owe, MarkCas, WakePromote, threadVars
  <1> QED
    BY <1>1, <1>2 DEF Step, Dispatching, Chosen, Pick, Steal, StealNothing, SlotClaim, DroppedPick,
       Switch, SwitchRootless, SwitchFailed, ClearCurrent, Settle, SettleTake, Complete, Token, Promote,
       Requeue, RequeueRunning, Unlink, Reset, YieldRequeue, Release, EnqueueScan, EnqueueCheck,
       OweFirst, MarkLoad, TimeoutFire, WakePublish, WakeTransition, WakeClaim, WakeIfBlocked,
       Sweep, SweepTake, SweepCheck, SweepRelease, SweepDone, TimeoutsDone, LeaveIdle, Yield,
       ReturnBlocked, BlockOnEvent, TimeoutDue, WakeFromEvent, WakeFromExit, threadVars

-----------------------------------------------------------------------------
(* The run queues. *)

\* The two halves of LinkedOnce, in terms of what is on a list.
Apart(q) == /\ \A c \in CPUs : NoRepeats(q[c])
            /\ \A c, d \in CPUs : c # d => Elems(q[c]) \cap Elems(q[d]) = {}

\* The queues hold only threads of their CPU.
Masked(q) == \A c \in CPUs : \A x \in Elems(q[c]) : c \in Affinity[x]

\* LinkedOnce of any queues.
LEMMA ApartMeans ==
    ASSUME NEW q
    PROVE  Apart(q) <=> \A c, d \in CPUs : \A i \in 1 .. Len(q[c]), j \in 1 .. Len(q[d]) :
                           q[c][i] = q[d][j] => c = d /\ i = j
  <1> DEFINE Once == \A c, d \in CPUs : \A i \in 1 .. Len(q[c]), j \in 1 .. Len(q[d]) :
                        q[c][i] = q[d][j] => c = d /\ i = j
  <1>1. ASSUME Apart(q), NEW c \in CPUs, NEW d \in CPUs, NEW i \in 1 .. Len(q[c]),
               NEW j \in 1 .. Len(q[d]), q[c][i] = q[d][j]
        PROVE  c = d /\ i = j
    <2>1. c = d
      BY <1>1 DEF Apart, Elems
    <2> QED
      BY <1>1, <2>1 DEF Apart, NoRepeats
  <1>2. ASSUME Once, NEW c \in CPUs
        PROVE  NoRepeats(q[c])
    BY <1>2 DEF NoRepeats
  <1>3. ASSUME Once, NEW c \in CPUs, NEW d \in CPUs, c # d
        PROVE  Elems(q[c]) \cap Elems(q[d]) = {}
    BY <1>3 DEF Elems
  <1>4. Apart(q) => Once
    BY <1>1
  <1>5. Once => Apart(q)
    BY <1>2, <1>3 DEF Apart
  <1> QED
    BY <1>4, <1>5

\* Both, before and after a step.
LEMMA LinksApart ==
    /\ LinkedOnce <=> Apart(queue)
    /\ LinkedOnce' <=> Apart(queue')
    /\ Affine => Masked(queue)
    /\ Masked(queue') => \A c \in CPUs : \A i \in 1 .. Len(queue'[c]) : c \in Affinity[queue'[c][i]]
  <1>1. /\ LinkedOnce <=> Apart(queue)
        /\ LinkedOnce' <=> Apart(queue')
    BY ApartMeans DEF LinkedOnce
  <1>2. Affine => Masked(queue)
    BY DEF Elems, Affine, Masked
  <1>3. Masked(queue') => \A c \in CPUs : \A i \in 1 .. Len(queue'[c]) : c \in Affinity[queue'[c][i]]
    BY DEF Elems, Masked
  <1> QED
    BY <1>1, <1>2, <1>3

\* A queue is replaced by one that holds less, or a thread that was on no queue.
LEMMA QueueReplaced ==
    ASSUME TypeOK, Apart(queue), Masked(queue), NEW d \in CPUs, NEW w \in Seq(Threads),
           queue' = [queue EXCEPT ![d] = w], NoRepeats(w),
           \A x \in Elems(w) : x \in Elems(queue[d]) \/ (~Linked(x) /\ d \in Affinity[x])
    PROVE  queue' \in [CPUs -> Seq(Threads)] /\ Apart(queue') /\ Masked(queue')
  <1>1. /\ queue' \in [CPUs -> Seq(Threads)] /\ queue'[d] = w
        /\ \A e \in CPUs : e # d => queue'[e] = queue[e]
    BY DEF TypeOK
  <1>2. \A e \in CPUs : NoRepeats(queue'[e])
    BY <1>1 DEF Apart
  <1>3. \A e \in CPUs : e # d => Elems(queue'[e]) \cap Elems(w) = {}
    BY <1>1 DEF Apart, Linked
  <1>4. \A e, f \in CPUs : e # f => Elems(queue'[e]) \cap Elems(queue'[f]) = {}
    BY <1>1, <1>3 DEF Apart
  <1>5. Masked(queue')
    BY <1>1 DEF Masked
  <1> QED
    BY <1>1, <1>2, <1>4, <1>5 DEF Apart

\* What a step does to the queues.
LEMMA QueueKept ==
    ASSUME TypeOK, Shape, Affine, Apart(queue), Masked(queue), NEW c \in CPUs, Step(c)
    PROVE  queue' \in [CPUs -> Seq(Threads)] /\ Apart(queue') /\ Masked(queue')
  <1>0. /\ \A d \in CPUs : queue[d] \in Seq(Threads) /\ NoRepeats(queue[d])
    BY DEF TypeOK, Apart
  <1>1. CASE Pick(c) /\ queue[c] # << >>
    <2>1. queue' = [queue EXCEPT ![c] = Tail(queue[c])]
      BY <1>1 DEF Pick
    <2>2. /\ Tail(queue[c]) \in Seq(Threads) /\ NoRepeats(Tail(queue[c]))
          /\ Elems(Tail(queue[c])) \subseteq Elems(queue[c])
      BY <1>0, <1>1, TailElems
    <2> QED
      BY <2>1, <2>2, QueueReplaced
  <1>2. CASE Steal(c)
    <2>1. PICK d \in CPUs : \E i \in 1 .. Len(queue[d]) : queue' = [queue EXCEPT ![d] = Unlinked(@, i)]
      BY <1>2 DEF Steal
    <2>2. PICK i \in 1 .. Len(queue[d]) : queue' = [queue EXCEPT ![d] = Unlinked(queue[d], i)]
      BY <2>1
    <2> DEFINE w == Unlinked(queue[d], i)
    <2>3. w \in Seq(Threads) /\ NoRepeats(w) /\ Elems(w) \subseteq Elems(queue[d])
      BY <1>0, UnlinkedProperties, UnlinkedElems
    <2> QED
      BY <2>2, <2>3, QueueReplaced
  <1>3. CASE Insert(c)
    <2> DEFINE t == cpu[c].target
               d == cpu[c].rq
    <2>1. t \in Threads /\ d \in CPUs /\ d \in Affinity[t]
      BY <1>3, Indices DEF Insert, At, Sub, InEnqueue, Affine
    <2>2. CASE ~Linked(t)
      <3>1. queue' = [queue EXCEPT ![d] = Append(queue[d], t)]
        BY <1>3, <2>2 DEF Insert
      <3> DEFINE w == Append(queue[d], t)
      <3>2. t \notin Elems(queue[d])
        BY <2>1, <2>2 DEF Linked
      <3>3. w \in Seq(Threads) /\ NoRepeats(w) /\ Elems(w) = Elems(queue[d]) \cup {t}
        BY <1>0, <2>1, <3>2, AppendedElems
      <3>4. queue' = [queue EXCEPT ![d] = w]
        BY <3>1
      <3> HIDE DEF w, t, d
      <3> QED
        BY <2>1, <2>2, <3>3, <3>4, QueueReplaced
    <2>3. CASE Linked(t)
      <3>1. queue' = queue
        BY <1>3, <2>3 DEF Insert
      <3> QED
        BY <3>1 DEF TypeOK
    <2> QED
      BY <2>2, <2>3
  <1>4. CASE queue' = queue
    BY <1>4 DEF TypeOK
  <1> QED
    BY <1>1, <1>2, <1>3, <1>4 DEF Step, Dispatching, Chosen, Pick, UnlinkDone, StealNothing, SlotClaim,
       DroppedPick, ClaimForDispatch, SetRunning, Switch, SwitchRootless, SwitchFailed, Blocked, ClearCurrent, Settle, SettleTake,
       Complete, Token, Promote, Requeue, RequeueRunning, Unlink, Reset, YieldRequeue, Release,
       EnqueueScan, EnqueueCheck, Link, Owe, OweFirst, MarkLoad, MarkCas, TimeoutFire, WakePublish,
       WakeTransition, WakeClaim, WakeIfBlocked, WakePromote, Sweep, SweepTake, SweepCheck,
       SweepRelease, SweepDone, TimeoutsDone, LeaveIdle, Yield, ReturnBlocked, BlockOnEvent,
       BlockOnExit, WakeFromEvent, TimeoutDue, WakeFromExit, threadVars

\* The types of the next state.
LEMMA TypeStep ==
    ASSUME TypeOK, Shape, Exclusive, LinkedOnce, Affine, NEW c \in CPUs, Step(c)
    PROVE  TypeOK'
  <1>1. cpu' \in [CPUs -> Registers]
    BY StepKeeps DEF OnlyCpu
  <1>2. queue' \in [CPUs -> Seq(Threads)]
    BY LinksApart, QueueKept
  <1>3. state' \in [Threads -> States]
    BY StateTyped DEF TypeOK
  <1>4. blocking_transition' \in [Threads -> BOOLEAN] /\ wake_pending' \in [Threads -> BOOLEAN]
    BY TransitionTyped, WakePendingTyped DEF TypeOK
  <1>5. enqueue_owed' \in [Threads -> BOOLEAN] /\ dispatch_ref' \in [Threads -> BOOLEAN]
    BY OwedTyped, SlotTyped DEF TypeOK
  <1>6. waiting' \in [Threads -> {"no", "event", "exit"}]
    BY WaitingTyped DEF TypeOK
  <1>7. on_rq' \in [Threads -> BOOLEAN] /\ loose' \in [Threads -> BOOLEAN]
    BY FlagTyped DEF TypeOK
  <1> QED
    BY <1>1, <1>2, <1>3, <1>4, <1>5, <1>6, <1>7 DEF TypeOK, Registers

\* Only BlockOnEvent goes to "block", only Link to "insert" and only a pick to "picked".
Entries == {"block", "insert", "picked"}
LEMMA Arrives ==
    ASSUME TypeOK, Shape, NEW c \in CPUs, Step(c), ~BlockOnEvent(c), ~Link(c), ~Pick(c), ~Steal(c)
    PROVE  cpu'[c].pc \notin Entries
  <1> DEFINE L == Labels \ Entries
  <1>0. Sub \ {"insert"} \subseteq L /\ Rets \subseteq L /\ Held \subseteq L /\ Outside \subseteq L
        /\ {"claim", "dropped", "run", "clear", "rootless", "sweep_take", "sweep_check", "sweep_release"} \subseteq L
    BY DEF Entries, Sub, Rets, Held, Outside, Labels, InWake, InEnqueue, InDispatch, InSweep, InThread
  <1>1. \A l \in L : Goto(c, l) => cpu'[c].pc \notin Entries
    BY GotoMoves
  <1>2. \A l \in L, t \in Threads, b \in Labels : Call(c, l, t, b) => cpu'[c].pc \notin Entries
    BY CallMoves
  <1>3. cpu[c].pc \in Sub /\ Return(c) => cpu'[c].pc \notin Entries
    BY <1>0, ReturnMoves DEF Shape, ShapeOf
  <1>4. CASE UnlinkDone(c)
    <2>1. "claim" \in Labels
      BY <1>0
    <2>2. cpu'[c].pc = "claim"
      BY <1>4, <2>1, LockMoves DEF UnlinkDone
    <2> QED
      BY <1>0, <2>2
  <1>5. CASE \/ StealNothing(c) \/ SlotClaim(c) \/ ClaimForDispatch(c) \/ SetRunning(c) \/ Settle(c)
             \/ Complete(c) \/ Unlink(c) \/ Reset(c) \/ SweepTake(c) \/ TimeoutsDone(c) \/ LeaveIdle(c)
    <2>1. {"ready", "set_running", "release", "switch", "take", "complete", "unlink", "token", "reset",
           "yielded"} \subseteq Held /\ {"idle", "pick", "sweep"} \subseteq Outside
      BY DEF Held, InDispatch, Outside
    <2>2. {"ready", "set_running", "release", "switch", "take", "complete", "unlink", "token", "reset",
           "yielded", "idle", "pick", "sweep", "dropped", "sweep_check", "sweep_release"} \subseteq L
      BY <1>0, <2>1
    <2>3. \E l \in {"ready", "set_running", "release", "switch", "take", "complete", "unlink", "token",
                    "reset", "yielded", "idle", "pick", "sweep", "dropped", "sweep_check",
                    "sweep_release"} : Goto(c, l)
      BY <1>5 DEF StealNothing, SlotClaim, ClaimForDispatch, SetRunning, Settle, Handling, Complete,
         Unlink, Reset, SweepTake, TimeoutsDone, LeaveIdle
    <2> QED
      BY <1>1, <2>2, <2>3
  <1>6. CASE DroppedPick(c) \/ Switch(c) \/ SwitchRootless(c) \/ SwitchFailed(c) \/ ClearCurrent(c) \/ Release(c) \/ SweepDone(c)
    <2>1. DroppedPick(c) => cpu'[c].pc \notin Entries
      <3>1. ASSUME DroppedPick(c)
            PROVE  cpu'[c].pc \in {"owe", "sweep"}
        BY <3>1, Parts DEF DroppedPick, Registers
      <3> QED
        BY <3>1 DEF Entries
    <2> QED
      BY <1>6, <2>1, OuterMoves DEF Entries
  <1>7. CASE Yield(c) \/ ReturnBlocked(c) \/ Blocked(c) \/ BlockOnExit(c)
    <2>1. PICK x \in {"yielded", "blocked"} : Ends(c, x)
      BY <1>7 DEF Yield, ReturnBlocked, Blocked, BlockOnExit
    <2>2. "clear" \in Labels /\ "clear" \notin Entries
      BY <1>0
    <2>3. cpu'[c].pc = "clear"
      BY <2>1, <2>2, ResultMoves DEF Ends
    <2> QED
      BY <2>2, <2>3
  <1>8. CASE Token(c) \/ Promote(c)
    <2>1. {"promote", "requeue"} \subseteq L /\ {"token", "promote"} \subseteq Held
      BY <1>0 DEF Held, InDispatch
    <2>2. wake_pending[cpu[c].thread] \in BOOLEAN
      BY <1>8, <2>1, Indices DEF Token, Promote, At, TypeOK
    <2>3. PICK l \in {"promote", "requeue"} : \E x \in BOOLEAN :
             cpu' = [cpu EXCEPT ![c] = [@ EXCEPT !.pc = l, !.token = x]]
      BY <1>8, <2>2 DEF Token, Promote
    <2>4. l \in Labels /\ l \notin Entries
      BY <2>1
    <2>5. cpu'[c].pc = l
      BY <2>3, <2>4, TokenMoves
    <2> QED
      BY <2>4, <2>5
  <1>9. CASE SettleTake(c) \/ Requeue(c) \/ RequeueRunning(c) \/ YieldRequeue(c)
    <2>1. {"take", "complete", "unlink", "requeue", "release", "requeue_running", "yielded"} \subseteq Held
          /\ "enqueue" \in Sub
      BY DEF Held, InDispatch, Sub, InEnqueue
    <2>2. cpu[c].thread \in Threads
      BY <1>9, <2>1, Indices DEF SettleTake, Requeue, RequeueRunning, YieldRequeue, At
    <2>3. Handling(c) \in {"complete", "unlink"}
      BY DEF Handling
    <2> QED
      BY <1>0, <1>1, <1>2, <1>9, <2>1, <2>2, <2>3
      DEF SettleTake, Requeue, RequeueRunning, YieldRequeue
  <1>10. CASE SubStep(c)
    <2>1. Inner(c) /\ cpu[c].pc \in Sub
      BY <1>10, SubStepInner DEF SubStep, EnqueueScan, EnqueueCheck, Link, Insert, Owe, OweFirst, MarkLoad,
         MarkCas, TimeoutFire, WakePublish, WakeTransition, WakeClaim, WakeIfBlocked, WakePromote,
         At, Sub, InWake, InEnqueue
    <2>2. \A l \in Sub \ {"insert"} : Goto(c, l) => cpu'[c].pc \notin Entries
      BY <1>0, <1>1
    <2>3. ASSUME NEW x \in States, NEW l \in {"mark_cas", "late_mark_cas"},
                 cpu' = [cpu EXCEPT ![c] = [@ EXCEPT !.pc = l, !.seen = x]]
          PROVE  cpu'[c].pc \notin Entries
      BY <2>3, SeenMoves DEF Labels, InWake, InEnqueue, Entries
    <2>4. state[cpu[c].target] \in States
      BY <2>1, Indices DEF TypeOK
    <2> QED
      BY <1>3, <1>10, <2>1, <2>2, <2>3, <2>4 DEF SubStep, EnqueueScan, EnqueueCheck, Insert, Owe, OweFirst,
         MarkLoad, MarkCas, TimeoutFire, WakePublish, WakeTransition, WakeClaim, WakeIfBlocked,
         WakePromote, Sub, InWake, InEnqueue
  <1>11. CASE Sweep(c) \/ SweepRelease(c) \/ SweepCheck(c)
    <2>1. SweepCheck(c) => cpu[c].target \in Threads
      BY Indices DEF SweepCheck, At
    <2>2. "enqueue" \in L /\ "loop" \in Labels /\ "sweep_release" \in L
      BY <1>0 DEF Sub, InEnqueue, Labels
    <2>3. SweepRelease(c) => cpu[c].slot \in Threads
      BY Indices DEF SweepRelease, At
    <2>4. NextSlot(c) /\ cpu[c].slot \in Threads => cpu'[c].pc \notin Entries
      BY OuterMoves DEF Entries
    <2> QED
      BY <1>0, <1>1, <1>2, <1>11, <2>1, <2>2, <2>3, <2>4 DEF Sweep, SweepRelease, SweepCheck
  <1>12. ASSUME NEW t \in Threads, WakeFromEvent(c, t) \/ TimeoutDue(c, t) \/ WakeFromExit(c, t)
         PROVE  cpu'[c].pc \notin Entries
    <2>1. {"wake", "fire", "promoted"} \subseteq L
      BY <1>0 DEF Sub, InWake
    <2>2. cpu[c].pc \in Labels /\ "loop" \in Labels /\ "run" \in Labels
      BY <1>0, Parts DEF Labels
    <2> QED
      BY <1>2, <1>12, <2>1, <2>2 DEF WakeFromEvent, TimeoutDue, WakeFromExit
  <1> QED
    BY <1>4, <1>5, <1>6, <1>7, <1>8, <1>9, <1>10, <1>11, <1>12 DEF Step, Dispatching, Chosen, SubStep

\* The same, step by step.
LEMMA Lands ==
    ASSUME TypeOK, Shape, NEW c \in CPUs, Step(c)
    PROVE  /\ BlockOnEvent(c) \/ cpu'[c].pc # "block"
           /\ Link(c) \/ cpu'[c].pc # "insert"
           /\ Pick(c) \/ Steal(c) \/ cpu'[c].pc # "picked"
  <1>1. CASE BlockOnEvent(c)
    <2>1. cpu'[c].pc = "block"
      BY <1>1, GotoMoves DEF BlockOnEvent, Labels, InThread
    <2> QED
      BY <1>1, <2>1
  <1>2. CASE Link(c)
    <2>1. cpu[c].target \in Threads /\ cpu[c].ret \in Rets /\ "insert" \in Labels
      BY <1>2, Indices DEF Link, At, Sub, InEnqueue, Labels, Shape, ShapeOf
    <2>2. EnqueueTarget(c, cpu[c].target) \subseteq CPUs
      BY <2>1, SchedAssumption DEF EnqueueTarget
    <2>3. Return(c) => cpu'[c].pc \in Rets
      BY <2>1, ReturnMoves
    <2>4. \A d \in CPUs : cpu' = [cpu EXCEPT ![c] = [@ EXCEPT !.pc = "insert", !.rq = d]] =>
             cpu'[c].pc = "insert"
      BY <2>1, LockMoves
    <2> QED
      BY <1>2, <2>2, <2>3, <2>4 DEF Link, Rets
  <1>3. CASE Pick(c) \/ Steal(c)
    <2>1. Goto(c, "steal") => cpu'[c].pc = "steal"
      BY GotoMoves DEF Labels
    <2>2. Picks(c) => cpu'[c].pc = "picked"
      BY PickedMoves DEF Picks
    <2> QED
      BY <1>3, <2>1, <2>2, PickMoves
  <1>4. CASE ~BlockOnEvent(c) /\ ~Link(c) /\ ~Pick(c) /\ ~Steal(c)
    BY <1>4, Arrives DEF Entries
  <1> QED
    BY <1>1, <1>2, <1>3, <1>4

\* A CPU picks only threads that may run on it.
LEMMA AffineStep ==
    ASSUME TypeOK, Shape, Exclusive, LinkedOnce, Affine, NEW c \in CPUs, Step(c)
    PROVE  Affine'
  <1>1. OnlyCpu(c) /\ Masked(queue) /\ Masked(queue')
    BY LinksApart, QueueKept, StepKeeps
  <1>2. cpu'[c].thread \in Threads => c \in Affinity[cpu'[c].thread]
    <2>1. CASE Pick(c)
      <3>1. CASE queue[c] # << >>
        <4>1. queue[c] \in Seq(Threads)
          BY DEF TypeOK
        <4>2. Head(queue[c]) \in Threads /\ Head(queue[c]) \in Elems(queue[c])
          BY <3>1, <4>1, TailElems
        <4>3. cpu'[c].thread = Head(queue[c])
          BY <2>1, <3>1, <4>2, OuterMoves DEF Pick
        <4> QED
          BY <1>1, <4>2, <4>3 DEF Masked
      <3>2. CASE queue[c] = << >>
        <4>1. Goto(c, "steal") /\ "steal" \in Labels
          BY <2>1, <3>2 DEF Pick, Labels
        <4> QED
          BY <4>1, GotoMoves DEF KeepsWork, Affine
      <3> QED
        BY <3>1, <3>2
    <2>2. CASE Steal(c)
      <3>1. PICK d \in CPUs : \E i \in 1 .. Len(queue[d]) :
               /\ c \in Affinity[queue[d][i]]
               /\ cpu' = [cpu EXCEPT ![c] = [@ EXCEPT !.pc = "picked", !.thread = queue[d][i], !.rq = d]]
        BY <2>2 DEF Steal
      <3>2. PICK i \in 1 .. Len(queue[d]) :
               /\ c \in Affinity[queue[d][i]]
               /\ cpu' = [cpu EXCEPT ![c] = [@ EXCEPT !.pc = "picked", !.thread = queue[d][i], !.rq = d]]
        BY <3>1
      <3>3. queue[d][i] \in Threads
        BY DEF TypeOK
      <3> QED
        BY <3>2, <3>3, OuterMoves
    <2>3. CASE SubStep(c) \/ InnerStep(c)
      BY <2>3, SubStepInner, InnerSteps DEF Inner, KeepsWork, Affine
    <2>4. CASE \/ SlotClaim(c) \/ DroppedPick(c) \/ Switch(c) \/ SwitchRootless(c) \/ SwitchFailed(c) \/ ClearCurrent(c) \/ Release(c)
               \/ Sweep(c) \/ SweepRelease(c) \/ SweepDone(c)
      <3>1. cpu'[c].thread \in {cpu[c].thread, NOBODY}
        BY <2>4, SlotClaimKeeps, DroppedKeeps, SwitchKeeps, ReleaseKeeps, SweepKeeps
      <3> QED
        BY <3>1, SchedAssumption DEF Affine
    <2> QED
      BY <2>1, <2>2, <2>3, <2>4 DEF Step, Dispatching, Chosen, SubStep, InnerStep
  <1>3. \A d \in CPUs : d # c => cpu'[d] = cpu[d]
    BY <1>1 DEF OnlyCpu
  <1>4. \A d \in CPUs : \A i \in 1 .. Len(queue'[d]) : d \in Affinity[queue'[d][i]]
    BY <1>1, LinksApart
  <1>5. cpu'[c].pc = "insert" => cpu'[c].rq \in CPUs /\ cpu'[c].rq \in Affinity[cpu'[c].target]
    <2>1. CASE Link(c)
      <3> DEFINE t == cpu[c].target
      <3>1. t \in Threads /\ "insert" \in Labels /\ cpu[c].ret \in Rets
        BY <2>1, Indices DEF Link, At, Sub, InEnqueue, Labels, Shape, ShapeOf
      <3>2. PICK d \in EnqueueTarget(c, t) :
               cpu' = [cpu EXCEPT ![c] = [@ EXCEPT !.pc = "insert", !.rq = d]] \/ Return(c)
        BY <2>1 DEF Link
      <3>3. d \in CPUs /\ d \in Affinity[t]
        BY <3>1, SchedAssumption DEF EnqueueTarget
      <3>4. Return(c) => cpu'[c].pc # "insert"
        BY <3>1, ReturnMoves DEF Rets
      <3>5. ASSUME NEW e \in CPUs, cpu' = [cpu EXCEPT ![c] = [@ EXCEPT !.pc = "insert", !.rq = e]]
            PROVE  cpu'[c].target = t /\ cpu'[c].rq = e
        <4>1. e \in CPUs \cup {NOBODY} /\ "insert" \in Labels
          BY <3>1
        <4>2. /\ OnlyCpu(c) /\ KeepsWork(c) /\ cpu'[c].pc = "insert" /\ cpu'[c].target = cpu[c].target
              /\ cpu'[c].ret = cpu[c].ret /\ cpu'[c].rq = e
          BY <3>5, <4>1, LockMoves, Zenon
        <4> QED
          BY <4>2
      <3> HIDE DEF t
      <3> QED
        BY <3>2, <3>3, <3>4, <3>5
    <2>2. CASE ~Link(c)
      BY <2>2, Lands
    <2> QED
      BY <2>1, <2>2
  <1> QED
    BY <1>2, <1>3, <1>4, <1>5 DEF Affine

-----------------------------------------------------------------------------
(* The claim on a run-queue node. *)

\* A pick takes a linked thread off the queues, or finds none.
LEMMA TakeMoves ==
    ASSUME TypeOK, LinkedOnce, NEW c \in CPUs, Pick(c) \/ Steal(c)
    PROVE  \/ queue' = queue /\ cpu[c].pc = "pick" /\ cpu'[c].pc = "steal"
           \/ \E x \in Threads :
                 /\ Linked(x) /\ cpu'[c].pc = "picked" /\ cpu'[c].thread = x
                 /\ \A y \in Threads : Linked(y)' <=> Linked(y) /\ y # x
  <1>1. Apart(queue)
    BY LinksApart
  <1>2. ASSUME NEW d \in CPUs, NEW w, NEW x \in Threads, x \in Elems(queue[d]),
               queue' = [queue EXCEPT ![d] = w], Elems(w) = Elems(queue[d]) \ {x},
               cpu' = [cpu EXCEPT ![c] = [@ EXCEPT !.pc = "picked", !.thread = x, !.rq = d]]
        PROVE  /\ Linked(x) /\ cpu'[c].pc = "picked" /\ cpu'[c].thread = x
               /\ \A y \in Threads : Linked(y)' <=> Linked(y) /\ y # x
    <2>1. Linked(x)
      BY <1>2 DEF Linked
    <2>2. cpu'[c].pc = "picked" /\ cpu'[c].thread = x
      BY <1>2, PickedMoves
    <2>3. queue'[d] = w /\ \A e \in CPUs : e # d => queue'[e] = queue[e] /\ x \notin Elems(queue[e])
      BY <1>1, <1>2 DEF TypeOK, Apart
    <2>4. \A y \in Threads : Linked(y)' <=> Linked(y) /\ y # x
      BY <1>2, <2>3 DEF Linked
    <2> QED
      BY <2>1, <2>2, <2>4
  <1>3. CASE Pick(c) /\ queue[c] # << >>
    <2>1. /\ queue[c] \in Seq(Threads) /\ NoRepeats(queue[c])
          /\ queue' = [queue EXCEPT ![c] = Tail(queue[c])]
          /\ cpu' = [cpu EXCEPT ![c] = [@ EXCEPT !.pc = "picked", !.thread = Head(queue[c]), !.rq = c]]
      BY <1>1, <1>3 DEF Pick, TypeOK, Apart
    <2>2. /\ Head(queue[c]) \in Threads /\ Head(queue[c]) \in Elems(queue[c])
          /\ Elems(Tail(queue[c])) = Elems(queue[c]) \ {Head(queue[c])}
      BY <1>3, <2>1, TailElems
    <2> DEFINE w == Tail(queue[c])
               h == Head(queue[c])
    <2>3. /\ h \in Threads /\ h \in Elems(queue[c]) /\ Elems(w) = Elems(queue[c]) \ {h}
          /\ queue' = [queue EXCEPT ![c] = w]
          /\ cpu' = [cpu EXCEPT ![c] = [@ EXCEPT !.pc = "picked", !.thread = h, !.rq = c]]
      BY <2>1, <2>2
    <2> HIDE DEF w, h
    <2> QED
      BY <1>2, <2>3
  <1>4. CASE Pick(c) /\ queue[c] = << >>
    BY <1>4, GotoMoves DEF Pick, At, Labels
  <1>5. CASE Steal(c)
    <2>1. PICK d \in CPUs : \E i \in 1 .. Len(queue[d]) :
             /\ queue' = [queue EXCEPT ![d] = Unlinked(@, i)]
             /\ cpu' = [cpu EXCEPT ![c] = [@ EXCEPT !.pc = "picked", !.thread = queue[d][i], !.rq = d]]
      BY <1>5 DEF Steal
    <2>2. PICK i \in 1 .. Len(queue[d]) :
             /\ queue' = [queue EXCEPT ![d] = Unlinked(queue[d], i)]
             /\ cpu' = [cpu EXCEPT ![c] = [@ EXCEPT !.pc = "picked", !.thread = queue[d][i], !.rq = d]]
      BY <2>1
    <2>3. queue[d] \in Seq(Threads) /\ NoRepeats(queue[d])
      BY <1>1 DEF TypeOK, Apart
    <2> DEFINE w == Unlinked(queue[d], i)
               h == queue[d][i]
    <2>4. /\ h \in Threads /\ h \in Elems(queue[d]) /\ Elems(w) = Elems(queue[d]) \ {h}
      <3>1. h \in Threads /\ h \in Elems(queue[d])
        BY <2>3 DEF Elems
      <3>2. Elems(w) = Elems(queue[d]) \ {queue[d][i]}
        BY <2>3, UnlinkedElems
      <3> QED
        BY <3>1, <3>2
    <2>5. /\ queue' = [queue EXCEPT ![d] = w]
          /\ cpu' = [cpu EXCEPT ![c] = [@ EXCEPT !.pc = "picked", !.thread = h, !.rq = d]]
      BY <2>2
    <2> HIDE DEF w, h
    <2> QED
      BY <1>2, <2>4, <2>5
  <1> QED
    BY <1>3, <1>4, <1>5

\* The node of a thread on no list is linked.
LEMMA Inserted ==
    ASSUME TypeOK, Affine, NEW c \in CPUs, Insert(c), NEW x \in Threads, x = cpu[c].target, ~Linked(x)
    PROVE  on_rq' = on_rq /\ \A y \in Threads : Linked(y)' <=> Linked(y) \/ y = x
  <1>1. PICK d \in CPUs : d = cpu[c].rq
    BY DEF Insert, At, Affine
  <1>2. on_rq' = on_rq /\ queue' = [queue EXCEPT ![d] = Append(queue[d], x)]
    BY <1>1 DEF Insert
  <1>3. queue[d] \in Seq(Threads)
    BY DEF TypeOK
  <1>4. Elems(Append(queue[d], x)) = Elems(queue[d]) \cup {x}
    BY <1>3, AppendedElems
  <1>5. queue'[d] = Append(queue[d], x) /\ \A e \in CPUs : e # d => queue'[e] = queue[e]
    BY <1>2 DEF TypeOK
  <1> QED
    BY <1>2, <1>4, <1>5 DEF Linked

\* A step that leaves every node and its claim alone.
LEMMA FlagsStay ==
    ASSUME Flagged, NEW c \in CPUs, OnlyCpu(c), queue' = queue,
           \A y \in Threads : on_rq'[y] = on_rq[y],
           cpu[c].pc \notin {"picked", "insert"}, cpu'[c].pc \notin {"picked", "insert"}
    PROVE  Flagged'
  <1>1. \A d \in CPUs, y \in Threads : Touches(d, y)' <=> Touches(d, y)
    BY DEF Touches, OnlyCpu
  <1>2. \A y \in Threads : Linked(y)' <=> Linked(y)
    BY DEF Linked
  <1> QED
    BY <1>1, <1>2 DEF Flagged

\* A step that touches the node of one thread, which no other CPU touches.
LEMMA FlagsMove ==
    ASSUME Flagged, NEW c \in CPUs, OnlyCpu(c), NEW x \in Threads,
           \A y \in Threads : y # x => /\ Linked(y)' <=> Linked(y)
                                     /\ ~Touches(c, y) /\ ~Touches(c, y)'
                                     /\ on_rq'[y] = on_rq[y],
           on_rq'[x] <=> Linked(x)' \/ Touches(c, x)',
           Touches(c, x)' => ~Linked(x)',
           \A d \in CPUs : d # c => ~Touches(d, x)
    PROVE  Flagged'
  <1>1. \A d \in CPUs, y \in Threads : d # c => (Touches(d, y)' <=> Touches(d, y))
    BY DEF Touches, OnlyCpu
  <1>2. ASSUME NEW y \in Threads, y # x
        PROVE  /\ on_rq'[y] <=> Linked(y)' \/ \E d \in CPUs : Touches(d, y)'
               /\ \A d \in CPUs : Touches(d, y)' => ~Linked(y)' /\ \A e \in CPUs : Touches(e, y)' => d = e
    <2>1. \A d \in CPUs : Touches(d, y)' <=> Touches(d, y)
      BY <1>1, <1>2
    <2>2. (Linked(y)' <=> Linked(y)) /\ on_rq'[y] = on_rq[y]
      BY <1>2
    <2> QED
      BY <2>1, <2>2 DEF Flagged
  <1>3. /\ on_rq'[x] <=> Linked(x)' \/ \E d \in CPUs : Touches(d, x)'
        /\ \A d \in CPUs : Touches(d, x)' => ~Linked(x)' /\ \A e \in CPUs : Touches(e, x)' => d = e
    BY <1>1
  <1> QED
    BY <1>2, <1>3 DEF Flagged

\* Every step keeps the claim.
LEMMA FlagStep ==
    ASSUME TypeOK, Shape, Exclusive, LinkedOnce, Affine, Flagged, NEW c \in CPUs, Step(c)
    PROVE  Flagged'
  <1>0. OnlyCpu(c)
    BY StepKeeps
  <1>1. CASE Pick(c) \/ Steal(c)
    <2>1. on_rq' = on_rq /\ cpu[c].pc \in {"pick", "steal"}
      BY <1>1 DEF Pick, Steal, At
    <2>2. CASE queue' = queue /\ cpu'[c].pc = "steal"
      BY <1>0, <2>1, <2>2, FlagsStay
    <2>3. ASSUME NEW x \in Threads, Linked(x), cpu'[c].pc = "picked", cpu'[c].thread = x,
                 \A y \in Threads : Linked(y)' <=> Linked(y) /\ y # x
          PROVE  Flagged'
      <3>1. on_rq[x] /\ \A d \in CPUs : ~Touches(d, x)
        BY <2>3 DEF Flagged
      <3>2. Touches(c, x)' /\ \A y \in Threads : ~Touches(c, y) /\ (y # x => ~Touches(c, y)')
        BY <2>1, <2>3 DEF Touches
      <3> QED
        BY <1>0, <2>1, <2>3, <3>1, <3>2, FlagsMove
    <2> QED
      BY <1>1, <2>2, <2>3, TakeMoves
  <1>2. CASE UnlinkDone(c)
    <2>1. PICK x \in Threads : x = cpu[c].thread
      BY <1>2, Indices DEF UnlinkDone, At, Unclaimed
    <2>2. cpu[c].pc = "picked" /\ queue' = queue /\ on_rq' = [on_rq EXCEPT ![x] = FALSE]
      BY <1>2, <2>1 DEF UnlinkDone, At
    <2>3. cpu'[c].pc = "claim"
      BY <1>2, LockMoves DEF UnlinkDone, Labels, InDispatch
    <2>4. Touches(c, x) /\ \A y \in Threads : ~Touches(c, y)' /\ (y # x => ~Touches(c, y))
      BY <2>1, <2>2, <2>3 DEF Touches
    <2>5. ~Linked(x) /\ \A d \in CPUs : d # c => ~Touches(d, x)
      BY <2>4 DEF Flagged
    <2>6. \A y \in Threads : Linked(y)' <=> Linked(y)
      BY <2>2 DEF Linked
    <2>7. ~on_rq'[x] /\ \A y \in Threads : y # x => on_rq'[y] = on_rq[y]
      BY <2>2, Zenon DEF TypeOK
    <2> QED
      BY <1>0, <2>4, <2>5, <2>6, <2>7, FlagsMove
  <1>3. CASE Link(c)
    <2>1. PICK x \in Threads : x = cpu[c].target
      BY <1>3, Indices DEF Link, At, Sub, InEnqueue
    <2>2. cpu[c].pc = "link" /\ queue' = queue /\ on_rq' = [on_rq EXCEPT ![x] = TRUE]
      BY <1>3, <2>1 DEF Link, At
    <2>3. on_rq'[x] /\ \A y \in Threads : y # x => on_rq'[y] = on_rq[y]
      BY <2>2, Zenon DEF TypeOK
    <2>4. EnqueueTarget(c, x) \subseteq CPUs /\ cpu[c].ret \in Rets /\ "insert" \in Labels
      BY <2>1, <2>2, SchedAssumption DEF EnqueueTarget, Shape, ShapeOf, Sub, InEnqueue, Labels
    <2>5. CASE on_rq[x]
      <3>1. Return(c)
        BY <1>3, <2>1, <2>5 DEF Link, ClaimsOnRq
      <3>2. cpu'[c].pc \notin {"picked", "insert"}
        BY <2>4, <3>1, ReturnMoves DEF Rets
      <3>3. on_rq'[x] = on_rq[x]
        BY <2>3, <2>5 DEF TypeOK
      <3> QED
        BY <1>0, <2>2, <2>3, <3>2, <3>3, FlagsStay
    <2>6. CASE ~on_rq[x]
      <3>1. PICK d \in EnqueueTarget(c, x) : cpu' = [cpu EXCEPT ![c] = [@ EXCEPT !.pc = "insert", !.rq = d]]
        BY <1>3, <2>1, <2>6 DEF Link, ClaimsOnRq
      <3>2. cpu'[c].pc = "insert" /\ cpu'[c].target = x
        BY <2>1, <2>4, <3>1, LockMoves
      <3>3. ~Linked(x) /\ \A d2 \in CPUs : ~Touches(d2, x)
        BY <2>6 DEF Flagged
      <3>4. Touches(c, x)' /\ \A y \in Threads : ~Touches(c, y) /\ (y # x => ~Touches(c, y)')
        BY <2>2, <3>2 DEF Touches
      <3>5. \A y \in Threads : Linked(y)' <=> Linked(y)
        BY <2>2 DEF Linked
      <3> QED
        BY <1>0, <2>3, <3>3, <3>4, <3>5, FlagsMove
    <2> QED
      BY <2>5, <2>6
  <1>4. CASE Insert(c)
    <2>1. PICK x \in Threads : x = cpu[c].target
      BY <1>4, Indices DEF Insert, At, Sub, InEnqueue
    <2>2. cpu[c].pc = "insert" /\ Return(c) /\ cpu[c].ret \in Rets
      BY <1>4 DEF Insert, At, Shape, ShapeOf, Sub, InEnqueue
    <2>3. cpu'[c].pc \in Rets
      BY <2>2, ReturnMoves
    <2>4. Touches(c, x) /\ \A y \in Threads : ~Touches(c, y)' /\ (y # x => ~Touches(c, y))
      BY <2>1, <2>2, <2>3 DEF Touches, Rets
    <2>5. on_rq[x] /\ ~Linked(x) /\ \A d \in CPUs : d # c => ~Touches(d, x)
      BY <2>4 DEF Flagged
    <2>6. on_rq' = on_rq /\ \A y \in Threads : Linked(y)' <=> Linked(y) \/ y = x
      BY <1>4, <2>1, <2>5, Inserted
    <2> QED
      BY <1>0, <2>4, <2>5, <2>6, FlagsMove
  <1>5. CASE ~Pick(c) /\ ~Steal(c) /\ ~UnlinkDone(c) /\ ~Link(c) /\ ~Insert(c)
    <2>1. queue' = queue /\ on_rq' = on_rq /\ cpu[c].pc \notin {"picked", "insert"}
      BY <1>5 DEF Step, Dispatching, Chosen, StealNothing, SlotClaim, DroppedPick, ClaimForDispatch,
         SetRunning, Switch, SwitchRootless, SwitchFailed, Blocked, ClearCurrent, Settle, SettleTake,
         Complete, Token, Promote, Requeue, RequeueRunning, Unlink, Reset, YieldRequeue, Release,
         EnqueueScan, EnqueueCheck, Owe, OweFirst, MarkLoad, MarkCas, TimeoutFire, WakePublish,
         WakeTransition, WakeClaim, WakeIfBlocked, WakePromote, Sweep, SweepTake, SweepCheck,
         SweepRelease, SweepDone, TimeoutsDone, LeaveIdle, Yield, ReturnBlocked, BlockOnEvent,
         BlockOnExit, WakeFromEvent, TimeoutDue, WakeFromExit, At
    <2>2. cpu'[c].pc \notin {"picked", "insert"}
      BY <1>5, Lands
    <2> QED
      BY <1>0, <2>1, <2>2, FlagsStay
  <1> QED
    BY <1>1, <1>2, <1>3, <1>4, <1>5

-----------------------------------------------------------------------------
(* Wakes. *)

\* Where a CPU that readies a thread is.
Readying == {"wake", "transition", "claim_wake", "if_blocked", "mark", "promoted", "mark_cas",
             "reset", "yielded"}

\* The wakes in flight after a step of c: its own may end, with the thread no longer
\* BLOCKED or not off its list; the others go on.
LEMMA WakingKept ==
    ASSUME Waking, NEW c \in CPUs, OnlyCpu(c),
           \A t \in Threads : state'[t] = "BLOCKED" /\ waiting'[t] = "no" =>
              \/ Readies(c, t)'
              \/ state[t] = "BLOCKED" /\ waiting[t] = "no" /\ ~Readies(c, t),
           cpu'[c].pc = "block" => waiting'[cpu'[c].thread] = "event",
           \A d \in CPUs : d # c /\ cpu[d].pc = "block" => waiting'[cpu[d].thread] = "event"
    PROVE  Waking'
  <1>1. \A d \in CPUs : d # c => cpu'[d] = cpu[d]
    BY DEF OnlyCpu
  <1>2. \A d \in CPUs, t \in Threads : d # c => (Readies(d, t)' <=> Readies(d, t))
    BY <1>1 DEF Readies
  <1>3. ASSUME NEW t \in Threads, state'[t] = "BLOCKED", waiting'[t] = "no"
        PROVE  \E d \in CPUs : Readies(d, t)'
    BY <1>2, <1>3 DEF Waking
  <1>4. \A d \in CPUs : cpu'[d].pc = "block" => waiting'[cpu'[d].thread] = "event"
    BY <1>1
  <1> QED
    BY <1>3, <1>4 DEF Waking

\* A CPU outside of the readying steps that makes no thread BLOCKED.
LEMMA WakingQuiet ==
    ASSUME TypeOK, Waking, NEW c \in CPUs, OnlyCpu(c), cpu[c].pc \notin Readying, cpu'[c].pc # "block",
           waiting' = waiting, \A t \in Threads : state'[t] = "BLOCKED" => state[t] = "BLOCKED"
    PROVE  Waking'
  <1>1. \A t \in Threads : ~Readies(c, t)
    BY DEF Readies, Readying
  <1>2. \A d \in CPUs : d # c /\ cpu[d].pc = "block" => waiting'[cpu[d].thread] = "event"
    BY DEF Waking
  <1> QED
    BY <1>1, <1>2, WakingKept

\* The steps that ready no thread and touch no wait list.
QuietStep(c) ==
    \/ Pick(c) \/ Steal(c) \/ UnlinkDone(c) \/ StealNothing(c) \/ SlotClaim(c) \/ DroppedPick(c)
    \/ ClaimForDispatch(c) \/ SetRunning(c) \/ Switch(c) \/ SwitchRootless(c) \/ SwitchFailed(c)
    \/ ClearCurrent(c) \/ Settle(c) \/ SettleTake(c)
    \/ Complete(c) \/ Token(c) \/ Promote(c) \/ Requeue(c) \/ RequeueRunning(c) \/ Release(c)
    \/ EnqueueScan(c) \/ EnqueueCheck(c) \/ Link(c) \/ Insert(c) \/ Owe(c) \/ OweFirst(c)
    \/ Sweep(c) \/ SweepTake(c) \/ SweepCheck(c) \/ SweepRelease(c) \/ SweepDone(c)
    \/ TimeoutsDone(c) \/ LeaveIdle(c) \/ Yield(c) \/ ReturnBlocked(c)
    \/ \E t \in Threads : TimeoutDue(c, t)

\* They keep the wakes in flight.
LEMMA QuietKeeps ==
    ASSUME TypeOK, Shape, Exclusive, Waking, NEW c \in CPUs, Step(c), QuietStep(c)
    PROVE  Waking'
  <1>1. waiting' = waiting /\ cpu[c].pc \notin Readying
    BY DEF QuietStep, Readying, At, Pick, Steal, UnlinkDone, StealNothing, SlotClaim, DroppedPick, ClaimForDispatch,
       SetRunning, Switch, SwitchRootless, SwitchFailed, ClearCurrent, Settle, SettleTake, Complete, Token, Promote, Requeue,
       RequeueRunning, Release, EnqueueScan, EnqueueCheck, Link, Insert, Owe, OweFirst, Sweep, SweepTake,
       SweepCheck, SweepRelease, SweepDone, TimeoutsDone, LeaveIdle, Yield, ReturnBlocked, TimeoutDue,
       threadVars
  <1>2. \A t \in Threads : state'[t] = "BLOCKED" => state[t] = "BLOCKED"
    <2>1. CASE ClaimForDispatch(c) \/ SetRunning(c) \/ Promote(c) \/ RequeueRunning(c)
      BY <2>1 DEF ClaimForDispatch, SetRunning, Promote, RequeueRunning, TypeOK
    <2>2. CASE state' = state
      BY <2>2
    <2> QED
      BY <2>1, <2>2 DEF QuietStep, Pick, Steal, UnlinkDone, StealNothing, SlotClaim, DroppedPick, Switch, SwitchRootless, SwitchFailed, ClearCurrent,
         Settle, SettleTake, Complete, Token, Requeue, Release, EnqueueScan, EnqueueCheck, Link, Insert, Owe,
         OweFirst, Sweep, SweepTake, SweepCheck, SweepRelease, SweepDone, TimeoutsDone, LeaveIdle,
         Yield, ReturnBlocked, TimeoutDue, threadVars
  <1>3. ~BlockOnEvent(c)
    <2>1. CASE BlockOnEvent(c)
      <3>1. cpu'[c].pc = "block" /\ cpu[c].pc = "run"
        BY <2>1, GotoMoves DEF BlockOnEvent, At, Labels, InThread
      <3>2. Yield(c) \/ ReturnBlocked(c)
        BY <3>1 DEF QuietStep, At, Pick, Steal, UnlinkDone, StealNothing, SlotClaim, DroppedPick, ClaimForDispatch,
           SetRunning, Switch, SwitchRootless, SwitchFailed, ClearCurrent, Settle, SettleTake, Complete, Token, Promote, Requeue,
           RequeueRunning, Release, EnqueueScan, EnqueueCheck, Link, Insert, Owe, OweFirst, Sweep, SweepTake,
           SweepCheck, SweepRelease, SweepDone, TimeoutsDone, LeaveIdle, TimeoutDue
      <3>3. "clear" \in Labels
        BY DEF Labels, InDispatch
      <3>4. cpu'[c].pc = "clear"
        BY <3>2, <3>3, ResultMoves DEF Yield, ReturnBlocked, Ends
      <3> QED
        BY <3>1, <3>4
    <2> QED
      BY <2>1
  <1>4. cpu'[c].pc # "block" /\ OnlyCpu(c)
    BY <1>3, Lands, StepKeeps
  <1> QED
    BY <1>1, <1>2, <1>4, WakingQuiet

\* The steps of a waker, or of the CPU whose thread yielded, which carry the duty.
LEMMA ReadyingKeeps ==
    ASSUME TypeOK, Shape, Exclusive, Waking, NEW c \in CPUs, OnlyCpu(c), cpu'[c].pc # "block",
           \/ MarkLoad(c) \/ MarkCas(c) \/ WakePublish(c) \/ WakeTransition(c) \/ WakeClaim(c)
           \/ WakeIfBlocked(c) \/ WakePromote(c) \/ Reset(c) \/ YieldRequeue(c)
    PROVE  Waking'
  <1>1. /\ waiting' = waiting
        /\ \A d \in CPUs : d # c /\ cpu[d].pc = "block" => waiting'[cpu[d].thread] = "event"
    BY DEF MarkLoad, MarkCas, WakePublish, WakeTransition, WakeClaim, WakeIfBlocked, WakePromote, Reset,
       YieldRequeue, threadVars, Waking
  <1>2. SUFFICES ASSUME NEW t \in Threads, state'[t] = "BLOCKED", waiting'[t] = "no"
                 PROVE  \/ Readies(c, t)'
                        \/ state[t] = "BLOCKED" /\ waiting[t] = "no" /\ ~Readies(c, t)
    BY <1>1, WakingKept
  <1>3. {"transition", "claim_wake", "if_blocked", "mark", "mark_cas", "late_mark_cas", "yielded",
         "promoted_transition", "promoted_claim", "promoted_wake", "enqueue", "owe"} \subseteq Labels
    BY DEF Labels, InWake, InEnqueue, InDispatch
  <1>4. \A l \in Labels : Goto(c, l) => /\ cpu'[c].pc = l /\ cpu'[c].target = cpu[c].target
                                        /\ cpu'[c].thread = cpu[c].thread
    BY GotoMoves DEF KeepsWork
  <1>5. CASE MarkLoad(c)
    <2>1. state' = state /\ cpu[c].pc \in {"mark", "late_mark"}
      BY <1>5 DEF MarkLoad, threadVars, At
    <2>2. cpu[c].target \in Threads
      BY <2>1, Indices DEF Sub, InWake, InEnqueue
    <2>3. CASE Readies(c, t)
      <3>1. cpu[c].target = t /\ cpu[c].pc = "mark"
        BY <2>1, <2>3 DEF Readies
      <3>2. cpu' = [cpu EXCEPT ![c] = [@ EXCEPT !.pc = "mark_cas", !.seen = "BLOCKED"]]
        BY <1>2, <1>5, <2>1, <3>1 DEF MarkLoad, At
      <3>3. "BLOCKED" \in States /\ "mark_cas" \in Labels
        BY <1>3 DEF States
      <3>4. cpu'[c].pc = "mark_cas" /\ cpu'[c].target = t /\ cpu'[c].seen = "BLOCKED"
        BY <3>1, <3>2, <3>3, SeenMoves
      <3> QED
        BY <3>4 DEF Readies
    <2> QED
      BY <1>1, <1>2, <2>1, <2>3
  <1>6. CASE MarkCas(c)
    <2>1. /\ cpu[c].pc \in {"mark_cas", "late_mark_cas"}
          /\ state' = IF state[cpu[c].target] = cpu[c].seen
                      THEN [state EXCEPT ![cpu[c].target] = "READY"] ELSE state
      BY <1>6 DEF MarkCas, At
    <2>2. state[t] = "BLOCKED"
      BY <1>2, <2>1 DEF TypeOK
    <2>3. ~Readies(c, t)
      BY <1>2, <2>1, <2>2 DEF Readies, TypeOK
    <2> QED
      BY <1>1, <1>2, <2>2, <2>3
  <1>7. CASE WakePublish(c) \/ WakeTransition(c) \/ WakeClaim(c)
    <2>1. state' = state
      BY <1>7 DEF WakePublish, WakeTransition, WakeClaim, threadVars
    <2>2. CASE Readies(c, t)
      <3>1. /\ cpu[c].target = t /\ cpu[c].pc \in {"wake", "transition", "claim_wake"}
        BY <1>7, <2>2 DEF Readies, WakePublish, WakeTransition, WakeClaim, At
      <3>2. \E l \in {"transition", "claim_wake", "mark", "if_blocked"} : Goto(c, l)
        BY <1>7, <3>1 DEF WakePublish, WakeTransition, WakeClaim, At
      <3> QED
        BY <1>3, <1>4, <3>1, <3>2 DEF Readies
    <2> QED
      BY <1>1, <1>2, <2>1, <2>2
  <1>8. CASE WakeIfBlocked(c) \/ WakePromote(c)
    <2>1. /\ cpu[c].pc \in {"if_blocked", "promoted"}
          /\ state' = IF state[cpu[c].target] = "BLOCKED"
                      THEN [state EXCEPT ![cpu[c].target] = "READY"] ELSE state
      BY <1>8 DEF WakeIfBlocked, WakePromote, At
    <2>2. state[t] = "BLOCKED"
      BY <1>2, <2>1 DEF TypeOK
    <2>3. ~Readies(c, t)
      BY <1>2, <2>1, <2>2 DEF Readies, TypeOK
    <2> QED
      BY <1>1, <1>2, <2>2, <2>3
  <1>9. CASE Reset(c)
    <2>1. state' = state /\ cpu[c].pc = "reset" /\ Goto(c, "yielded")
      BY <1>9 DEF Reset, At
    <2> QED
      BY <1>1, <1>2, <1>3, <1>4, <2>1 DEF Readies
  <1>10. CASE YieldRequeue(c)
    <2>1. /\ cpu[c].pc = "yielded"
          /\ state' = [state EXCEPT ![cpu[c].thread] = "READY"]
      BY <1>10 DEF YieldRequeue, At
    <2>2. state[t] = "BLOCKED" /\ t # cpu[c].thread
      BY <1>2, <2>1 DEF TypeOK
    <2> QED
      BY <1>1, <1>2, <2>1, <2>2 DEF Readies
  <1> QED
    BY <1>5, <1>6, <1>7, <1>8, <1>9, <1>10

\* The steps that put a thread on a wait list or take it off.
LEMMA WaitListKeeps ==
    ASSUME TypeOK, Shape, Exclusive, Waking, NEW c \in CPUs, OnlyCpu(c),
           \/ Unlink(c) \/ TimeoutFire(c) \/ Blocked(c) \/ BlockOnExit(c) \/ BlockOnEvent(c)
           \/ \E t \in Threads : WakeFromEvent(c, t) \/ WakeFromExit(c, t),
           BlockOnEvent(c) \/ cpu'[c].pc # "block"
    PROVE  Waking'
  <1>0. \A d \in CPUs : cpu[d].pc = "block" => cpu[d].thread \in Threads /\ waiting[cpu[d].thread] = "event"
    BY Indices DEF Running, Waking
  <1>1. {"reset", "yielded", "wake", "promoted", "block", "clear", "run"} \subseteq Labels
    BY DEF Labels, InWake, InDispatch, InThread
  <1>2. \A l \in Labels : Goto(c, l) => /\ cpu'[c].pc = l /\ cpu'[c].target = cpu[c].target
                                        /\ cpu'[c].thread = cpu[c].thread
    BY GotoMoves DEF KeepsWork
  <1>3. /\ {"run", "block"} \subseteq Running /\ "unlink" \in Held /\ "fire" \in Sub
        /\ {"run", "block"} \cap Sub = {}
    BY DEF Running, Held, InDispatch, Sub, InWake, InEnqueue
  <1>4. CASE Unlink(c)
    <2> DEFINE t == cpu[c].thread
    <2>1. t \in Threads /\ cpu[c].pc = "unlink" /\ state' = state
      BY <1>3, <1>4, Indices DEF Unlink, At
    <2>2. CASE waiting[t] = "event"
      <3>1. ~EventLocked(t) /\ waiting' = [waiting EXCEPT ![t] = "no"] /\ Goto(c, "reset")
        BY <1>4, <2>2 DEF Unlink
      <3>2. \A x \in Threads : x = t => Readies(c, x)'
        BY <1>1, <1>2, <3>1 DEF Readies
      <3>3. \A x \in Threads : x # t => waiting'[x] = waiting[x]
        BY <3>1 DEF TypeOK
      <3>4. \A x \in Threads : ~Readies(c, x)
        BY <2>1 DEF Readies
      <3>5. \A d \in CPUs : cpu[d].pc = "block" => waiting'[cpu[d].thread] = "event"
        BY <1>0, <3>1, <3>3 DEF EventLocked
      <3>6. cpu'[c].pc # "block"
        BY <1>1, <1>2, <3>1
      <3> HIDE DEF t
      <3> QED
        BY <2>1, <3>2, <3>3, <3>4, <3>5, <3>6, WakingKept
    <2>3. CASE waiting[t] # "event"
      <3>1. waiting' = waiting /\ Goto(c, "yielded")
        BY <1>4, <2>3 DEF Unlink
      <3>2. cpu'[c].pc # "block" /\ cpu[c].pc \notin Readying
        BY <1>1, <1>2, <2>1, <3>1 DEF Readying
      <3> QED
        BY <2>1, <3>1, <3>2, WakingQuiet
    <2> QED
      BY <2>2, <2>3
  <1>5. CASE TimeoutFire(c)
    <2> DEFINE t == cpu[c].target
    <2>1. t \in Threads /\ cpu[c].pc = "fire" /\ state' = state /\ ~EventLocked(t)
      BY <1>3, <1>5, Indices DEF TimeoutFire, At
    <2>2. CASE waiting[t] = "event"
      <3>1. waiting' = [waiting EXCEPT ![t] = "no"] /\ Goto(c, "wake")
        BY <1>5, <2>2 DEF TimeoutFire
      <3>2. \A x \in Threads : x = t => Readies(c, x)'
        BY <1>1, <1>2, <3>1 DEF Readies
      <3>3. \A x \in Threads : x # t => waiting'[x] = waiting[x]
        BY <3>1 DEF TypeOK
      <3>4. \A x \in Threads : ~Readies(c, x)
        BY <2>1 DEF Readies
      <3>5. \A d \in CPUs : cpu[d].pc = "block" => waiting'[cpu[d].thread] = "event"
        BY <1>0, <2>1, <3>1, <3>3 DEF EventLocked
      <3>6. cpu'[c].pc # "block"
        BY <1>1, <1>2, <3>1
      <3> HIDE DEF t
      <3> QED
        BY <2>1, <3>2, <3>3, <3>4, <3>5, <3>6, WakingKept
    <2>3. CASE waiting[t] # "event"
      <3>1. waiting' = waiting
        BY <1>5, <2>3 DEF TimeoutFire
      <3>2. cpu'[c].pc # "block" /\ cpu[c].pc \notin Readying
        BY <2>1 DEF Readying, BlockOnEvent, At
      <3> QED
        BY <2>1, <3>1, <3>2, WakingQuiet
    <2> QED
      BY <2>2, <2>3
  <1>6. CASE Blocked(c)
    <2> DEFINE t == cpu[c].thread
    <2>1. /\ cpu[c].pc = "block" /\ t \in Threads /\ waiting[t] = "event"
          /\ waiting' = waiting /\ state' = [state EXCEPT ![t] = "BLOCKED"]
      BY <1>0, <1>6 DEF Blocked, At
    <2>2. \A x \in Threads : x # t => state'[x] = state[x]
      BY <2>1 DEF TypeOK
    <2>3. cpu'[c].pc # "block"
      BY <2>1 DEF BlockOnEvent, At
    <2>4. \A x \in Threads : ~Readies(c, x)
      BY <2>1 DEF Readies
    <2> HIDE DEF t
    <2> QED
      BY <1>0, <2>1, <2>2, <2>3, <2>4, WakingKept
  <1>7. CASE BlockOnExit(c) \/ BlockOnEvent(c)
    <2> DEFINE t == cpu[c].thread
    <2>1. /\ cpu[c].pc = "run" /\ t \in Threads
          /\ \E v \in {"event", "exit"} : waiting' = [waiting EXCEPT ![t] = v]
      BY <1>3, <1>7, Indices DEF BlockOnExit, BlockOnEvent, At
    <2>2. waiting'[t] # "no" /\ \A x \in Threads : x # t => waiting'[x] = waiting[x]
      BY <2>1 DEF TypeOK
    <2>3. \A x \in Threads : x # t => state'[x] = state[x]
      BY <1>7 DEF BlockOnExit, BlockOnEvent, TypeOK
    <2>4. \A x \in Threads : ~Readies(c, x)
      BY <2>1 DEF Readies
    <2>5. \A d \in CPUs : d # c /\ cpu[d].pc = "block" => waiting'[cpu[d].thread] = "event"
      <3>1. SUFFICES ASSUME NEW d \in CPUs, d # c, cpu[d].pc = "block", cpu[d].thread = t
                     PROVE  FALSE
        BY <1>0, <2>2
      <3>2. Claimed(c, t) /\ Claimed(d, t)
        BY <1>3, <2>1, <3>1 DEF Claimed, Base
      <3> QED
        BY <2>1, <3>1, <3>2 DEF Exclusive
    <2>6. cpu'[c].pc = "block" => waiting'[cpu'[c].thread] = "event"
      <3>1. BlockOnEvent(c) => waiting'[t] = "event" /\ cpu'[c].thread = t
        BY <1>1, <1>2, <2>1 DEF BlockOnEvent, TypeOK
      <3> QED
        BY <3>1
    <2> HIDE DEF t
    <2> QED
      BY <2>2, <2>3, <2>4, <2>5, <2>6, WakingKept
  <1>8. ASSUME NEW t \in Threads, WakeFromEvent(c, t) \/ WakeFromExit(c, t)
        PROVE  Waking'
    <2>1. /\ cpu[c].pc \in {"run", "idle"} /\ state' = state
          /\ waiting' = [waiting EXCEPT ![t] = "no"]
          /\ \E l \in {"wake", "promoted"} : Call(c, l, t, cpu[c].pc)
          /\ ~EventLocked(t) \/ waiting[t] = "exit"
      BY <1>8 DEF WakeFromEvent, WakeFromExit, At
    <2>2. cpu[c].pc \in Labels
      BY Parts
    <2>3. cpu'[c].pc \in {"wake", "promoted"} /\ cpu'[c].target = t
      BY <1>1, <2>1, <2>2, CallMoves
    <2>4. Readies(c, t)'
      BY <2>3 DEF Readies
    <2>5. \A x \in Threads : x # t => waiting'[x] = waiting[x]
      BY <2>1 DEF TypeOK
    <2>6. \A x \in Threads : ~Readies(c, x)
      BY <2>1 DEF Readies
    <2>7. \A d \in CPUs : cpu[d].pc = "block" => waiting'[cpu[d].thread] = "event"
      BY <1>0, <2>1, <2>5 DEF EventLocked
    <2>8. cpu'[c].pc # "block"
      BY <2>3
    <2> QED
      BY <2>1, <2>4, <2>5, <2>6, <2>7, <2>8, WakingKept
  <1> QED
    BY <1>4, <1>5, <1>6, <1>7, <1>8

\* Every step keeps the wakes in flight.
LEMMA WakingStep ==
    ASSUME TypeOK, Shape, Exclusive, Waking, NEW c \in CPUs, Step(c)
    PROVE  Waking'
  <1>1. OnlyCpu(c) /\ (BlockOnEvent(c) \/ cpu'[c].pc # "block")
    BY StepKeeps, Lands
  <1>2. CASE QuietStep(c)
    BY <1>2, QuietKeeps
  <1>3. CASE \/ MarkLoad(c) \/ MarkCas(c) \/ WakePublish(c) \/ WakeTransition(c) \/ WakeClaim(c)
             \/ WakeIfBlocked(c) \/ WakePromote(c) \/ Reset(c) \/ YieldRequeue(c)
    <2>1. ~BlockOnEvent(c)
      BY <1>3 DEF BlockOnEvent, MarkLoad, MarkCas, WakePublish, WakeTransition, WakeClaim, WakeIfBlocked,
         WakePromote, Reset, YieldRequeue, At
    <2> QED
      BY <1>1, <1>3, <2>1, ReadyingKeeps
  <1>4. CASE \/ Unlink(c) \/ TimeoutFire(c) \/ Blocked(c) \/ BlockOnExit(c) \/ BlockOnEvent(c)
             \/ \E t \in Threads : WakeFromEvent(c, t) \/ WakeFromExit(c, t)
    BY <1>1, <1>4, WaitListKeeps
  <1> QED
    BY <1>2, <1>3, <1>4 DEF Step, Dispatching, Chosen, QuietStep

-----------------------------------------------------------------------------
(* The theorems. *)

\* The start.
LEMMA InitHolds ==
    ASSUME Init
    PROVE  IInv
  <1> DEFINE r == [pc |-> "loop", thread |-> NOBODY, current |-> NOBODY, result |-> "yielded",
                   token |-> FALSE, target |-> NOBODY, seen |-> "READY", ret |-> "loop",
                   rq |-> NOBODY, slot |-> 1]
  <1>0. NThreads \in Nat /\ NOBODY \notin Threads
    BY SchedAssumption
  <1>1. r \in Registers
    BY <1>0 DEF Registers, Labels, States
  <1>2. cpu \in [CPUs -> Registers] /\ \A c \in CPUs : cpu[c] = r
    BY <1>1 DEF Init
  <1>3. queue \in [CPUs -> Seq(Threads)]
    <2>1. Lists \subseteq Seq(Threads)
      BY <1>0 DEF Lists
    <2> QED
      BY <2>1 DEF Init
  <1>4. TypeOK
    BY <1>2, <1>3 DEF TypeOK, Init, Registers, States
  <1>5. \A c \in CPUs : /\ cpu[c].pc = "loop" /\ cpu[c].thread = NOBODY /\ cpu[c].current = NOBODY
                        /\ Base(c) = "loop"
    BY <1>2 DEF Base, Sub, InWake, InEnqueue
  <1>6. "loop" \in Outside /\ "loop" \notin Running \cup Held \cup Sweeping \cup Sub
    BY DEF Outside, Running, Held, InDispatch, Sweeping, Sub, InWake, InEnqueue
  <1>7. Shape
    BY <1>5, <1>6 DEF Shape, ShapeOf
  <1>8. Exclusive
    BY <1>5, <1>6 DEF Exclusive, Claimed
  <1>9. Affine
    <2>1. ASSUME NEW c \in CPUs, NEW i \in 1 .. Len(queue[c])
          PROVE  c \in Affinity[queue[c][i]]
      <3> DEFINE t == queue[c][i]
      <3>1. t \in Threads
        BY <1>3
      <3>2. PICK d \in Affinity[t] : t \in Elems(queue[d])
        BY <3>1 DEF Init
      <3>3. d \in CPUs
        BY <3>1, SchedAssumption
      <3>4. PICK j \in 1 .. Len(queue[d]) : queue[d][j] = t
        BY <3>2 DEF Elems
      <3>5. d = c
        BY <3>3, <3>4 DEF Init, LinkedOnce
      <3> QED
        BY <3>5
    <2> QED
      BY <1>0, <1>5, <2>1 DEF Affine
  <1>10. Waking
    BY <1>5 DEF Waking, Init
  <1>11. Flagged
    <2>1. \A t \in Threads : Linked(t)
      BY SchedAssumption DEF Init, Linked
    <2>2. \A t \in Threads, c \in CPUs : ~Touches(c, t)
      BY <1>5 DEF Init, Touches
    <2>3. ASSUME NEW t \in Threads
          PROVE  /\ on_rq[t] <=> Linked(t) \/ \E c \in CPUs : Touches(c, t)
                 /\ \A c \in CPUs : Touches(c, t) =>
                       ~Linked(t) /\ \A d \in CPUs : Touches(d, t) => c = d
      <3>1. Linked(t) /\ \A c \in CPUs : ~Touches(c, t)
        BY <2>1, <2>2
      <3>2. on_rq[t]
        BY DEF Init
      <3> QED
        BY <3>1, <3>2
    <2> QED
      BY <2>3 DEF Flagged
  <1> QED
    BY <1>4, <1>7, <1>8, <1>9, <1>10, <1>11 DEF IInv, Init

\* The inductive invariant.
LEMMA Invariance == Spec => []IInv
  <1>1. IInv /\ [Next]_vars => IInv'
    <2>1. ASSUME IInv, Next
          PROVE  IInv'
      <3>1. PICK c \in CPUs : Step(c)
        BY <2>1 DEF Next, Step
      <3>2. TypeOK /\ Shape /\ LinkedOnce /\ Exclusive /\ Affine /\ Flagged /\ Waking
        BY <2>1 DEF IInv
      <3>3. TypeOK'
        BY <3>1, <3>2, TypeStep
      <3>4. Shape' /\ Exclusive'
        BY <3>1, <3>2, StepKeeps
      <3>5. LinkedOnce'
        BY <3>1, <3>2, LinksApart, QueueKept
      <3>6. Affine'
        BY <3>1, <3>2, AffineStep
      <3>7. Waking'
        BY <3>1, <3>2, WakingStep
      <3>8. Flagged'
        BY <3>1, <3>2, FlagStep
      <3> QED
        BY <3>3, <3>4, <3>5, <3>6, <3>7, <3>8 DEF IInv
    <2>2. ASSUME IInv, UNCHANGED vars
          PROVE  IInv'
      BY <2>2 DEF IInv, vars, threadVars, TypeOK, Shape, ShapeOf, Base, LinkedOnce, Exclusive, Claimed,
         Affine, Waking, Readies, Flagged, Linked, Touches
    <2> QED
      BY <2>1, <2>2
  <1> QED
    BY <1>1, InitHolds, PTL DEF Spec

\* Every variable keeps its type on every schedule of any CPUs and threads, the sweep's
\* table index included.
THEOREM TypeCorrect == Spec => []TypeOK
  <1>1. IInv => TypeOK
    BY DEF IInv
  <1> QED
    BY <1>1, Invariance, PTL

\* No two CPUs touch the pointers of a run-queue node at once: the CPU that wins the
\* exchange on on_rq finds the node on no list, and no unlink of it under way.
THEOREM NodesAreExclusive == Spec => []NodeExclusive
  <1>1. IInv => NodeExclusive
    BY DEF IInv, Flagged, NodeExclusive
  <1> QED
    BY <1>1, Invariance, PTL

\* From the slot claim to its release a thread belongs to one CPU.
THEOREM OneCpuPerThread == Spec => []DispatchedOnce
  <1>1. ASSUME IInv
        PROVE  DispatchedOnce
    <2>1. ASSUME NEW t \in Threads, NEW c \in CPUs, Holds(c, t) \/ cpu[c].current = t
          PROVE  Claimed(c, t)
      <3>1. TypeOK /\ Shape /\ ShapeOf(c) /\ NOBODY \notin Threads
        BY <1>1, SchedAssumption DEF IInv, Shape
      <3>2. cpu[c].pc \in Labels
        BY <3>1, Parts
      <3>3. CASE cpu[c].current = t
        BY <3>1, <3>3 DEF ShapeOf, Claimed
      <3>4. CASE Holds(c, t)
        <4>1. Base(c) \notin Outside \cup Sweeping
          BY <3>1, <3>4 DEF ShapeOf, Holds
        <4>2. CASE cpu[c].pc \in Sub
          <5>1. Base(c) \in Rets
            BY <3>1, <4>2 DEF ShapeOf, Base
          <5> QED
            BY <3>4, <4>1, <5>1 DEF Rets, Outside, Sweeping, Running, Held, InDispatch, Claimed, Holds
        <4>3. CASE cpu[c].pc \notin Sub
          <5>1. Base(c) = cpu[c].pc
            BY <4>3 DEF Base
          <5>2. Base(c) \in Running \cup Held
            BY <3>2, <3>4, <4>1, <4>3, <5>1, Phases DEF Holds, Unclaimed
          <5> QED
            BY <3>4, <5>2 DEF Claimed, Holds
        <4> QED
          BY <4>2, <4>3
      <3> QED
        BY <2>1, <3>3, <3>4
    <2> QED
      BY <1>1, <2>1 DEF DispatchedOnce, IInv, Exclusive
  <1> QED
    BY <1>1, Invariance, PTL

\* A thread sits in the queue of, and runs on, only the CPUs its mask allows.
THEOREM AffinityIsRespected == Spec => []AffinityRespected
  <1>1. ASSUME IInv
        PROVE  AffinityRespected
    <2>1. ASSUME NEW c \in CPUs, cpu[c].current # NOBODY
          PROVE  c \in Affinity[cpu[c].current]
      <3>1. ShapeOf(c) /\ cpu[c].current \in Threads
        BY <1>1, <2>1, Parts DEF IInv, Shape
      <3>2. cpu[c].current = cpu[c].thread
        BY <2>1, <3>1 DEF ShapeOf
      <3> QED
        BY <1>1, <3>1, <3>2 DEF IInv, Affine
    <2> QED
      BY <1>1, <2>1 DEF AffinityRespected, IInv, Affine
  <1> QED
    BY <1>1, Invariance, PTL

\* A thread taken off its wait list does not stay BLOCKED once the waker and the
\* blocking thread's own CPU are done with it.
THEOREM WakesAreKept == Spec => []NoLostWake
  <1>1. ASSUME IInv
        PROVE  NoLostWake
    <2>1. ASSUME NEW t \in Threads, NEW c \in CPUs, Readies(c, t)
          PROVE  cpu[c].thread = t \/ (cpu[c].target = t /\ cpu[c].pc # "fire")
      BY <2>1 DEF Readies
    <2> QED
      BY <1>1, <2>1 DEF NoLostWake, InHand, IInv, Waking
  <1> QED
    BY <1>1, Invariance, PTL

-----------------------------------------------------------------------------
(* Hand-offs. *)

\* Only the CPU that takes a step changes what it carries.
LEMMA CarriedKept ==
    ASSUME Carried, NEW c \in CPUs, OnlyCpu(c),
           \A t \in Threads : state'[t] = "READY" /\ ~loose'[t] =>
              \/ Carries(c, t)' \/ Linked(t)' \/ enqueue_owed'[t]
              \/ \E d \in CPUs : d # c /\ Carries(d, t)
              \/ /\ state[t] = "READY" /\ ~loose[t] /\ ~Carries(c, t)
                 /\ Linked(t) => Linked(t)'
                 /\ enqueue_owed[t] => enqueue_owed'[t]
    PROVE  Carried'
  <1>1. \A d \in CPUs : d # c => cpu'[d] = cpu[d]
    BY DEF OnlyCpu
  <1>2. \A d \in CPUs, t \in Threads : d # c => (Carries(d, t)' <=> Carries(d, t))
    BY <1>1 DEF Carries, Base
  <1>3. ASSUME NEW t \in Threads, state'[t] = "READY", ~loose'[t]
        PROVE  Linked(t)' \/ enqueue_owed'[t] \/ \E d \in CPUs : Carries(d, t)'
    BY <1>2, <1>3 DEF Carried
  <1> QED
    BY <1>3 DEF Carried

\* A step that changes no state, queue or debt, and goes on carrying.
LEMMA CarriesOn ==
    ASSUME Carried, NEW c \in CPUs, OnlyCpu(c),
           Base(c) \in Carrying => Base(c)' \in Carrying /\ cpu'[c].thread = cpu[c].thread,
           cpu[c].pc \in Carriers => cpu'[c].pc \in Carriers /\ cpu'[c].target = cpu[c].target,
           state' = state, queue' = queue, enqueue_owed' = enqueue_owed, loose' = loose
    PROVE  Carried'
  <1>1. \A t \in Threads : Carries(c, t) => Carries(c, t)'
    BY DEF Carries
  <1>2. \A t \in Threads : Linked(t) => Linked(t)'
    BY DEF Linked
  <1> QED
    BY <1>1, <1>2, CarriedKept

\* A claim on a node that is on no list is that of a CPU which carries its thread.
LEMMA ClaimCarries ==
    ASSUME Flagged, NEW c \in CPUs, cpu[c].pc \notin {"picked", "insert"}, NEW t \in Threads, on_rq[t]
    PROVE  Linked(t) \/ \E d \in CPUs : d # c /\ Carries(d, t)
  <1>1. SUFFICES ASSUME ~Linked(t)
                 PROVE  \E d \in CPUs : d # c /\ Carries(d, t)
    OBVIOUS
  <1>2. PICK d \in CPUs : Touches(d, t)
    BY <1>1 DEF Flagged
  <1>3. d # c
    BY <1>2 DEF Touches
  <1>4. "picked" \in Carrying /\ "picked" \notin Sub /\ "insert" \in Carriers
    BY DEF Carrying, InDispatch, Sub, InWake, InEnqueue, Carriers
  <1>5. Carries(d, t)
    BY <1>2, <1>4 DEF Touches, Carries, Base
  <1> QED
    BY <1>3, <1>5

\* Labels, as the steps below need them.
LEMMA CarryLabels ==
    /\ Carriers \cap Carrying = {} /\ Carriers \cap Rets = {}
    /\ Carriers \subseteq Sub \cup {"sweep_check"} /\ Carrying \cap Sub = {} /\ "sweep_check" \notin Sub
    /\ Carriers \cup Carrying \subseteq Labels
    /\ Carrying = {"picked", "claim", "dropped", "ready", "run", "block", "clear", "settle",
                   "take", "complete", "token", "promote", "requeue", "unlink", "reset", "yielded"}
    /\ Carrying \subseteq Running \cup Held \cup Unclaimed \cup {"dropped"}
  BY DEF Carriers, Carrying, Rets, Sub, Labels, InDispatch, InThread, InWake, InEnqueue, InSweep,
     Running, Held, Unclaimed

\* The jumps of a dispatch that change no state, queue or debt.
LEMMA JumpCarries ==
    ASSUME TypeOK, Shape, Carried, NEW c \in CPUs, OnlyCpu(c),
           \/ StealNothing(c) \/ LeaveIdle(c) \/ TimeoutsDone(c) \/ UnlinkDone(c) \/ SlotClaim(c)
           \/ Switch(c) \/ SwitchRootless(c) \/ SwitchFailed(c) \/ ClearCurrent(c) \/ Settle(c) \/ Complete(c) \/ Token(c) \/ Unlink(c) \/ Reset(c)
           \/ Yield(c) \/ ReturnBlocked(c) \/ BlockOnEvent(c) \/ SweepDone(c) \/ Release(c)
    PROVE  Carried'
  <1>1. state' = state /\ queue' = queue /\ enqueue_owed' = enqueue_owed /\ loose' = loose
    BY DEF StealNothing, LeaveIdle, TimeoutsDone, UnlinkDone, SlotClaim, Switch, SwitchRootless, SwitchFailed, ClearCurrent, Settle, Complete, Token,
       Unlink, Reset, Yield, ReturnBlocked, BlockOnEvent, SweepDone, Release, threadVars
  <1>2. {"idle", "sweep", "pick", "loop"} \subseteq Labels
        /\ {"idle", "sweep", "pick", "loop", "steal"} \cap (Carriers \cup Carrying \cup Sub) = {}
    BY DEF Labels, InSweep, Carriers, Carrying, Sub, InDispatch, InThread, InWake, InEnqueue
  <1>3. CASE StealNothing(c) \/ LeaveIdle(c) \/ TimeoutsDone(c) \/ SweepDone(c)
    <2>1. cpu[c].pc \in {"steal", "idle", "loop", "sweep"}
      BY <1>3 DEF StealNothing, LeaveIdle, TimeoutsDone, SweepDone, At
    <2>2. cpu'[c].pc \in {"idle", "sweep", "pick", "loop"}
      BY <1>2, <1>3, GotoMoves, OuterMoves DEF StealNothing, LeaveIdle, TimeoutsDone
    <2>3. Base(c) = cpu[c].pc
      BY <1>2, <2>1 DEF Base
    <2> QED
      BY <1>1, <1>2, <2>1, <2>2, <2>3, CarriesOn
  <1>4. CASE Release(c)
    <2>1. cpu[c].pc = "release" /\ cpu'[c].pc = "sweep"
      BY <1>4, OuterMoves DEF Release, At
    <2>2. "release" \notin Carriers \cup Carrying \cup Sub
      BY DEF Carriers, Carrying, Sub, InDispatch, InThread, InWake, InEnqueue
    <2> QED
      BY <1>1, <1>2, <2>1, <2>2, CarriesOn DEF Base
  <1>5. CASE \/ UnlinkDone(c) \/ SlotClaim(c) \/ ClearCurrent(c) \/ Settle(c) \/ Complete(c) \/ Token(c)
             \/ Unlink(c) \/ Reset(c) \/ Yield(c) \/ ReturnBlocked(c) \/ BlockOnEvent(c)
    <2>1. cpu[c].pc \in Carrying
      BY <1>5 DEF UnlinkDone, SlotClaim, ClearCurrent, Settle, Complete, Token, Unlink, Reset, Yield,
         ReturnBlocked, BlockOnEvent, At, Carrying, InDispatch, InThread
    <2>2. cpu[c].thread \in Threads
      BY <2>1, Indices, CarryLabels
    <2>3. \A l \in Carrying : Goto(c, l) => cpu'[c].pc = l /\ cpu'[c].thread = cpu[c].thread
      BY GotoMoves, CarryLabels DEF KeepsWork
    <2>4. cpu'[c].pc \in Carrying /\ cpu'[c].thread = cpu[c].thread
      <3>1. CASE \E l \in Carrying : Goto(c, l)
        BY <2>3, <3>1
      <3>2. CASE ClearCurrent(c)
        BY <3>2, OuterMoves, CarryLabels
      <3>6. CASE UnlinkDone(c)
        <4>1. "claim" \in Carrying /\ "claim" \in Labels
          BY CarryLabels
        <4> QED
          BY <3>6, <4>1, LockMoves DEF UnlinkDone, KeepsWork
      <3>3. CASE Token(c)
        <4>1. "promote" \in Carrying /\ "promote" \in Labels /\ wake_pending[cpu[c].thread] \in BOOLEAN
          BY <2>2, CarryLabels DEF TypeOK
        <4> QED
          BY <3>3, <4>1, TokenMoves DEF Token, KeepsWork
      <3>4. CASE Yield(c) \/ ReturnBlocked(c)
        <4>1. "clear" \in Carrying /\ "clear" \in Labels
          BY CarryLabels
        <4> QED
          BY <3>4, <4>1, ResultMoves DEF Yield, ReturnBlocked, Ends, KeepsWork
      <3>5. {"ready", "dropped", "take", "complete", "unlink", "token", "reset", "yielded", "block"}
            \subseteq Carrying
        BY CarryLabels
      <3> QED
        BY <1>5, <3>1, <3>2, <3>3, <3>4, <3>5, <3>6
        DEF SlotClaim, Settle, Handling, Complete, Unlink, Reset, BlockOnEvent
    <2>5. Base(c) = cpu[c].pc /\ Base(c)' = cpu'[c].pc
      BY <2>1, <2>4, CarryLabels DEF Base
    <2>6. cpu[c].pc \notin Carriers
      BY <2>1, <2>4, CarryLabels
    <2> QED
      BY <1>1, <2>1, <2>4, <2>5, <2>6, CarriesOn
  <1>6. CASE Switch(c) \/ SwitchRootless(c) \/ SwitchFailed(c)
    <2>1. cpu[c].pc \in {"switch", "rootless"}
      BY <1>6 DEF Switch, SwitchRootless, SwitchFailed, At
    <2>2. {"switch", "rootless"} \cap (Carriers \cup Carrying \cup Sub) = {}
      BY DEF Carriers, Carrying, Sub, InDispatch, InThread, InWake, InEnqueue
    <2> QED
      BY <1>1, <2>1, <2>2, CarriesOn DEF Base
  <1> QED
    BY <1>3, <1>4, <1>5, <1>6

\* A thread taken off a queue is in the hands of the CPU that took it.
LEMMA PickCarries ==
    ASSUME TypeOK, Shape, LinkedOnce, Carried, NEW c \in CPUs, OnlyCpu(c), Pick(c) \/ Steal(c)
    PROVE  Carried'
  <1>1. /\ state' = state /\ enqueue_owed' = enqueue_owed /\ loose' = loose
        /\ cpu[c].pc \in {"pick", "steal"}
    BY DEF Pick, Steal, At, threadVars
  <1>2. \A t \in Threads : ~Carries(c, t)
    BY <1>1 DEF Carries, Base, Sub, InWake, InEnqueue, Carriers, Carrying, InDispatch, InThread
  <1>3. "picked" \in Carrying /\ "picked" \notin Sub
    BY CarryLabels
  <1>4. CASE queue' = queue
    <2>1. \A t \in Threads : Linked(t) => Linked(t)'
      BY <1>4 DEF Linked
    <2> QED
      BY <1>1, <1>2, <2>1, CarriedKept
  <1>5. ASSUME NEW x \in Threads, cpu'[c].pc = "picked", cpu'[c].thread = x,
               \A y \in Threads : Linked(y)' <=> Linked(y) /\ y # x
        PROVE  Carried'
    <2>1. \A t \in Threads : t = x => Carries(c, t)'
      BY <1>3, <1>5 DEF Carries, Base
    <2> QED
      BY <1>1, <1>2, <1>5, <2>1, CarriedKept
  <1> QED
    BY <1>4, <1>5, TakeMoves

\* The steps of a dispatch that write a state or take a debt: what they leave READY
\* they enqueue, or will.
LEMMA WorkCarries ==
    ASSUME TypeOK, Shape, Carried, NEW c \in CPUs, OnlyCpu(c),
           \/ DroppedPick(c) \/ ClaimForDispatch(c) \/ SetRunning(c) \/ Blocked(c) \/ BlockOnExit(c)
           \/ SettleTake(c)
           \/ Promote(c) \/ Requeue(c) \/ RequeueRunning(c) \/ YieldRequeue(c)
    PROVE  Carried'
  <1>1. /\ queue' = queue
        /\ cpu[c].pc \in {"dropped", "ready", "set_running", "block", "run", "take", "promote", "requeue",
                          "requeue_running", "yielded"}
    BY DEF DroppedPick, ClaimForDispatch, SetRunning, Blocked, BlockOnExit, SettleTake, Promote, Requeue,
       RequeueRunning, YieldRequeue, At
  <1>2. cpu[c].pc \in Running \cup Held \cup {"dropped"} /\ cpu[c].pc \notin Carriers /\ cpu[c].pc \notin Sub
    BY <1>1 DEF Running, Held, InDispatch, Carriers, Sub, InWake, InEnqueue
  <1>3. cpu[c].thread \in Threads
    BY <1>2, Indices
  <1>4. PICK t \in Threads : t = cpu[c].thread
    BY <1>3
  <1>5. \A x \in Threads : x # t => ~Carries(c, x)
    BY <1>2, <1>4 DEF Carries
  <1>6. \A x \in Threads : Linked(x) => Linked(x)'
    BY <1>1 DEF Linked
  <1>7. \A x \in Threads : x # t => state'[x] = state[x] /\ enqueue_owed'[x] = enqueue_owed[x] /\ loose'[x] = loose[x]
    BY <1>4 DEF DroppedPick, ClaimForDispatch, SetRunning, Blocked, BlockOnExit, SettleTake, Promote, Requeue,
       RequeueRunning, YieldRequeue, TypeOK, threadVars
  <1>8. /\ \A l \in Labels : Goto(c, l) => cpu'[c].pc = l /\ cpu'[c].thread = t
        /\ \A b \in Labels : Call(c, "enqueue", t, b) => cpu'[c].pc = "enqueue" /\ cpu'[c].target = t
    BY <1>4, GotoMoves, CallMoves, CarryLabels DEF KeepsWork, Carriers
  <1>9. /\ {"requeue", "complete", "unlink", "clear"} \subseteq Carrying
        /\ {"switch", "set_running", "release", "requeue_running", "loop"} \subseteq Labels /\ {"owe", "enqueue"} \subseteq Carriers
        /\ Carrying \subseteq Labels
        /\ Carrying \cap Sub = {}
    BY CarryLabels DEF Labels, InDispatch, Carriers
  <1>10. /\ cpu'[c].pc \in Carriers /\ cpu'[c].target = t => Carries(c, t)'
         /\ cpu'[c].pc \in Carrying /\ cpu'[c].thread = t => Carries(c, t)'
    BY <1>9 DEF Carries, Base
  <1>11. \/ state'[t] # "READY"
         \/ Carries(c, t)'
         \/ /\ state'[t] = state[t] /\ enqueue_owed'[t] = enqueue_owed[t] /\ loose'[t] = loose[t]
            /\ ~Carries(c, t)
    <2>1. CASE DroppedPick(c)
      <3>1. /\ cpu[c] \in Registers /\ state' = state
            /\ cpu'[c] = [cpu[c] EXCEPT !.pc = IF state[t] = "READY" THEN "owe" ELSE "sweep",
                                        !.target = IF state[t] = "READY" THEN t ELSE NOBODY,
                                        !.ret = IF state[t] = "READY" THEN "sweep" ELSE "loop",
                                        !.thread = NOBODY]
        BY <1>4, <2>1, Parts DEF DroppedPick, threadVars
      <3>2. IF state[t] = "READY" THEN cpu'[c].pc = "owe" /\ cpu'[c].target = t ELSE cpu'[c].pc = "sweep"
        BY <3>1 DEF Registers
      <3> QED
        BY <1>9, <1>10, <3>1, <3>2
    <2>2. CASE ClaimForDispatch(c)
      <3>1. state'[t] # "READY" /\ \E l \in {"set_running", "release"} : Goto(c, l)
        BY <1>4, <2>2 DEF ClaimForDispatch, TypeOK
      <3> QED
        BY <1>8, <1>9, <3>1
    <2>3. CASE SetRunning(c)
      <3>1. state'[t] # "READY" /\ Goto(c, "switch")
        BY <1>4, <2>3 DEF SetRunning, TypeOK
      <3> QED
        BY <1>8, <1>9, <3>1
    <2>4. CASE Blocked(c) \/ BlockOnExit(c)
      BY <1>4, <2>4 DEF Blocked, BlockOnExit, TypeOK
    <2>5. CASE SettleTake(c)
      <3>1. PICK l \in {"complete", "unlink"} : Call(c, "enqueue", t, l) \/ Goto(c, l)
        BY <1>4, <2>5 DEF SettleTake, Handling
      <3>2. Call(c, "enqueue", t, l) => cpu'[c].pc = "enqueue" /\ cpu'[c].target = t
        BY <1>8, <1>9
      <3>3. Goto(c, l) => cpu'[c].pc = l /\ cpu'[c].thread = t
        BY <1>8, <1>9
      <3> QED
        BY <1>9, <1>10, <3>1, <3>2, <3>3
    <2>6. CASE Promote(c)
      <3>1. cpu' = [cpu EXCEPT ![c] = [@ EXCEPT !.pc = "requeue", !.token = FALSE]]
        BY <2>6 DEF Promote
      <3>2. cpu'[c].pc = "requeue" /\ cpu'[c].thread = t
        BY <1>4, <1>9, <3>1, TokenMoves DEF KeepsWork
      <3> QED
        BY <1>9, <1>10, <3>2
    <2>7. CASE Requeue(c)
      <3>1. /\ state' = state
            /\ IF state[t] = "READY" THEN Call(c, "enqueue", t, "release") ELSE Goto(c, "requeue_running")
        BY <1>4, <2>7 DEF Requeue, threadVars
      <3> QED
        BY <1>8, <1>9, <1>10, <3>1
    <2>8. CASE RequeueRunning(c)
      <3>1. /\ cpu[c].pc = "requeue_running"
            /\ \/ Call(c, "enqueue", t, "release")
               \/ state' = state /\ enqueue_owed' = enqueue_owed /\ loose' = loose /\ Goto(c, "release")
        BY <1>4, <2>8 DEF RequeueRunning, At
      <3>2. ~Carries(c, t)
        BY <1>2, <3>1 DEF Carries, Base, Carrying, InDispatch, InThread
      <3> QED
        BY <1>8, <1>9, <1>10, <3>1, <3>2
    <2>9. CASE YieldRequeue(c)
      <3>1. Call(c, "enqueue", t, "release")
        BY <1>4, <2>9 DEF YieldRequeue
      <3> QED
        BY <1>8, <1>9, <1>10, <3>1
    <2> QED
      BY <2>1, <2>2, <2>3, <2>4, <2>5, <2>6, <2>7, <2>8, <2>9
  <1>12. \A x \in Threads : x = t => (state'[x] = "READY" /\ ~loose'[x] =>
              \/ Carries(c, x)' \/ Linked(x)' \/ enqueue_owed'[x]
              \/ /\ state[x] = "READY" /\ ~loose[x] /\ ~Carries(c, x)
                 /\ Linked(x) => Linked(x)'
                 /\ enqueue_owed[x] => enqueue_owed'[x])
    BY <1>6, <1>11
  <1>13. \A x \in Threads : x # t => (state'[x] = "READY" /\ ~loose'[x] =>
                 /\ state[x] = "READY" /\ ~loose[x] /\ ~Carries(c, x)
                 /\ Linked(x) => Linked(x)'
                 /\ enqueue_owed[x] => enqueue_owed'[x])
    BY <1>5, <1>6, <1>7
  <1> QED
    BY <1>12, <1>13, CarriedKept

\* The steps of a wake or an enqueue: it ends with the thread queued, owed an enqueue
\* or not READY.
LEMMA SubCarries ==
    ASSUME TypeOK, Shape, LinkedOnce, Affine, Flagged, Carried, NEW c \in CPUs, OnlyCpu(c), SubStep(c)
    PROVE  Carried'
  <1>1. cpu[c].pc \in Sub
    BY DEF SubStep, EnqueueScan, EnqueueCheck, Link, Insert, Owe, OweFirst, MarkLoad, MarkCas, TimeoutFire,
       WakePublish, WakeTransition, WakeClaim, WakeIfBlocked, WakePromote, At, Sub, InWake, InEnqueue
  <1>2. cpu[c].target \in Threads /\ cpu[c].ret \in Rets /\ Base(c) = cpu[c].ret
    BY <1>1 DEF Shape, ShapeOf, Base
  <1>3. PICK t \in Threads : t = cpu[c].target
    BY <1>2
  <1>4. /\ Rets \cap Sub = {} /\ Sub \subseteq Labels
    BY Phases, CarryLabels
  <1>5. ASSUME NEW l \in Sub, Goto(c, l)
        PROVE  /\ cpu'[c].pc = l /\ cpu'[c].target = t /\ cpu'[c].thread = cpu[c].thread /\ Base(c)' = Base(c)
    BY <1>2, <1>3, <1>4, <1>5, GotoMoves DEF Base, KeepsWork
  <1>6. ASSUME Return(c)
        PROVE  /\ cpu'[c].pc \in Rets /\ cpu'[c].thread = cpu[c].thread /\ Base(c)' = Base(c)
    BY <1>2, <1>4, <1>6, ReturnMoves DEF Base, KeepsWork
  <1>7. state[t] \in States
    BY DEF TypeOK
  <1>8. ASSUME cpu'[c].thread = cpu[c].thread, Base(c)' = Base(c),
               state' = state, queue' = queue, enqueue_owed' = enqueue_owed, loose' = loose,
               cpu[c].pc \in Carriers => cpu'[c].pc \in Carriers /\ cpu'[c].target = t
        PROVE  Carried'
    BY <1>3, <1>8, CarriesOn
  <1>9. ASSUME cpu'[c].thread = cpu[c].thread, Base(c)' = Base(c),
               \A x \in Threads : x # t => /\ state'[x] = state[x] /\ enqueue_owed'[x] = enqueue_owed[x]
                                           /\ loose'[x] = loose[x],
               \A x \in Threads : x # t /\ Linked(x) => Linked(x)',
               \A x \in Threads : x = t => \/ state'[x] # "READY" \/ loose'[x] \/ Carries(c, x)'
                                           \/ Linked(x)' \/ enqueue_owed'[x]
                                           \/ \E d \in CPUs : d # c /\ Carries(d, x)
        PROVE  Carried'
    <2>1. \A x \in Threads : x # t /\ Carries(c, x) => Carries(c, x)'
      BY <1>3, <1>9 DEF Carries
    <2> QED
      BY <1>9, <2>1, CarriedKept
  <1>10. /\ {"mark", "owe", "owe_first", "check", "link", "insert", "mark_cas", "enqueue"}
               \subseteq Carriers \cap Sub
         /\ {"fire", "wake", "transition", "claim_wake", "if_blocked", "late_mark", "late_mark_cas",
             "promoted", "promoted_wake", "promoted_transition", "promoted_claim"} \subseteq Sub \ Carriers
    BY DEF Carriers, Sub, InWake, InEnqueue
  <1>11. CASE EnqueueScan(c)
    <2>1. /\ state' = state /\ queue' = queue /\ enqueue_owed' = enqueue_owed /\ loose' = loose
          /\ \E l \in {"mark", "owe_first", "check"} : Goto(c, l)
      BY <1>11 DEF EnqueueScan, threadVars
    <2> QED
      BY <1>5, <1>8, <1>10, <2>1
  <1>12. CASE EnqueueCheck(c)
    <2>1. /\ state' = state /\ queue' = queue /\ enqueue_owed' = enqueue_owed /\ loose' = loose
          /\ IF state[t] = "READY" THEN Goto(c, "link") ELSE Return(c)
      BY <1>3, <1>12 DEF EnqueueCheck, threadVars
    <2>2. \A x \in Threads : Linked(x) => Linked(x)'
      BY <2>1 DEF Linked
    <2>3. CASE state[t] = "READY"
      BY <1>5, <1>8, <1>10, <2>1, <2>3
    <2>4. CASE state[t] # "READY"
      BY <1>6, <1>9, <2>1, <2>2, <2>4
    <2> QED
      BY <2>3, <2>4
  <1>13. CASE Link(c)
    <2>1. /\ state' = state /\ queue' = queue /\ enqueue_owed' = enqueue_owed /\ loose' = loose
          /\ cpu[c].pc = "link"
      BY <1>13 DEF Link, threadVars, At
    <2>2. \A x \in Threads : Linked(x) => Linked(x)'
      BY <2>1 DEF Linked
    <2>3. CASE on_rq[t]
      <3>1. Return(c)
        BY <1>3, <1>13, <2>3 DEF Link, ClaimsOnRq
      <3>2. Linked(t) \/ \E d \in CPUs : d # c /\ Carries(d, t)
        BY <2>1, <2>3, ClaimCarries
      <3> QED
        BY <1>6, <1>9, <2>1, <2>2, <3>1, <3>2
    <2>4. CASE ~on_rq[t]
      <3>1. PICK d \in EnqueueTarget(c, t) : cpu' = [cpu EXCEPT ![c] = [@ EXCEPT !.pc = "insert", !.rq = d]]
        BY <1>3, <1>13, <2>4 DEF Link, ClaimsOnRq
      <3>2. d \in CPUs /\ "insert" \in Labels
        BY <1>4, <1>10, SchedAssumption DEF EnqueueTarget
      <3>3. /\ cpu'[c].pc = "insert" /\ cpu'[c].target = t /\ cpu'[c].ret = cpu[c].ret
            /\ cpu'[c].thread = cpu[c].thread
        BY <1>3, <3>1, <3>2, LockMoves DEF KeepsWork
      <3>4. Base(c)' = Base(c)
        BY <1>2, <1>10, <3>3 DEF Base
      <3> QED
        BY <1>8, <1>10, <2>1, <3>3, <3>4
    <2> QED
      BY <2>3, <2>4
  <1>20. CASE Insert(c)
    <2>1. /\ Return(c) /\ state' = state /\ enqueue_owed' = enqueue_owed /\ cpu[c].pc = "insert"
          /\ loose' = [loose EXCEPT ![t] = FALSE]
      BY <1>3, <1>20 DEF Insert, At
    <2>2. \A x \in Threads : x # t => loose'[x] = loose[x]
      BY <2>1 DEF TypeOK
    <2>3. Touches(c, t)
      BY <1>3, <2>1 DEF Touches
    <2>4. ~Linked(t)
      BY <2>3 DEF Flagged
    <2>5. \A x \in Threads : Linked(x)' <=> Linked(x) \/ x = t
      BY <1>3, <1>20, <2>4, Inserted
    <2> QED
      BY <1>6, <1>9, <2>1, <2>2, <2>5
  <1>14. CASE Owe(c)
    <2>1. /\ Return(c) /\ state' = state /\ queue' = queue
          /\ enqueue_owed' = [enqueue_owed EXCEPT ![t] = TRUE] /\ loose' = [loose EXCEPT ![t] = FALSE]
      BY <1>3, <1>14 DEF Owe
    <2>2. /\ enqueue_owed'[t]
          /\ \A x \in Threads : x # t => enqueue_owed'[x] = enqueue_owed[x] /\ loose'[x] = loose[x]
      BY <2>1, Zenon DEF TypeOK
    <2>3. \A x \in Threads : Linked(x) => Linked(x)'
      BY <2>1 DEF Linked
    <2> QED
      BY <1>6, <1>9, <2>1, <2>2, <2>3
  <1>15. CASE MarkLoad(c)
    <2>1. /\ state' = state /\ queue' = queue /\ enqueue_owed' = enqueue_owed /\ loose' = loose
          /\ \/ /\ cpu[c].pc = "mark"
                /\ \/ Goto(c, "owe")
                   \/ cpu' = [cpu EXCEPT ![c] = [@ EXCEPT !.pc = "mark_cas", !.seen = state[t]]]
             \/ /\ cpu[c].pc = "late_mark"
                /\ \/ Return(c)
                   \/ cpu' = [cpu EXCEPT ![c] = [@ EXCEPT !.pc = "late_mark_cas", !.seen = state[t]]]
      BY <1>3, <1>15 DEF MarkLoad, At, threadVars
    <2>2. CASE Goto(c, "owe")
      BY <1>5, <1>8, <1>10, <2>1, <2>2
    <2>3. CASE cpu[c].pc = "late_mark" /\ Return(c)
      BY <1>6, <1>8, <1>10, <2>1, <2>3
    <2>4. ASSUME NEW l \in {"mark_cas", "late_mark_cas"},
                 cpu' = [cpu EXCEPT ![c] = [@ EXCEPT !.pc = l, !.seen = state[t]]]
          PROVE  /\ cpu'[c].pc = l /\ cpu'[c].target = t
                 /\ cpu'[c].thread = cpu[c].thread /\ Base(c)' = Base(c)
      <3>1. l \in Sub /\ l \in Labels
        BY <1>4, <1>10
      <3>2. /\ cpu'[c].pc = l /\ cpu'[c].target = t /\ cpu'[c].ret = cpu[c].ret
            /\ cpu'[c].thread = cpu[c].thread
        BY <1>3, <1>7, <2>4, <3>1, SeenMoves DEF KeepsWork
      <3> QED
        BY <1>2, <3>1, <3>2 DEF Base
    <2>5. CASE cpu' = [cpu EXCEPT ![c] = [@ EXCEPT !.pc = "mark_cas", !.seen = state[t]]]
      BY <1>8, <1>10, <2>1, <2>4, <2>5
    <2>6. CASE /\ cpu[c].pc = "late_mark"
               /\ cpu' = [cpu EXCEPT ![c] = [@ EXCEPT !.pc = "late_mark_cas", !.seen = state[t]]]
      BY <1>8, <1>10, <2>1, <2>4, <2>6
    <2> QED
      BY <2>1, <2>2, <2>3, <2>5, <2>6
  <1>16. CASE MarkCas(c)
    <2>1. /\ queue' = queue /\ enqueue_owed' = enqueue_owed
          /\ \A x \in Threads : x # t => state'[x] = state[x] /\ loose'[x] = loose[x]
      BY <1>3, <1>16 DEF MarkCas, TypeOK
    <2>2. \A x \in Threads : Linked(x) => Linked(x)'
      BY <2>1 DEF Linked
    <2>3. CASE cpu[c].pc = "mark_cas"
      <3>1. Goto(c, "owe")
        BY <1>16, <2>3 DEF MarkCas, At
      <3>2. \A x \in Threads : x = t => Carries(c, x)'
        BY <1>5, <1>10, <3>1 DEF Carries
      <3> QED
        BY <1>5, <1>9, <1>10, <2>1, <2>2, <3>1, <3>2
    <2>4. CASE cpu[c].pc = "late_mark_cas"
      <3>1. /\ Return(c)
            /\ state' = IF state[t] = cpu[c].seen THEN [state EXCEPT ![t] = "READY"] ELSE state
            /\ loose' = IF state[t] = cpu[c].seen THEN [loose EXCEPT ![t] = TRUE] ELSE loose
        BY <1>3, <1>16, <2>4 DEF MarkCas, At
      <3>2. CASE state[t] = cpu[c].seen
        <4>1. loose' = [loose EXCEPT ![t] = TRUE] /\ loose \in [Threads -> BOOLEAN]
          BY <3>1, <3>2 DEF TypeOK
        <4>2. loose'[t]
          BY <4>1, Zenon
        <4> QED
          BY <1>6, <1>9, <2>1, <2>2, <3>1, <4>2
      <3>3. CASE state[t] # cpu[c].seen
        BY <1>6, <1>8, <1>10, <2>1, <2>4, <3>1, <3>3
      <3> QED
        BY <3>2, <3>3
    <2> QED
      BY <1>16, <2>3, <2>4 DEF MarkCas, At
  <1>17. CASE TimeoutFire(c) \/ WakePublish(c) \/ WakeTransition(c)
    <2>1. /\ state' = state /\ queue' = queue /\ enqueue_owed' = enqueue_owed /\ loose' = loose
          /\ cpu[c].pc \in {"fire", "wake", "transition", "promoted_wake", "promoted_transition"}
          /\ Return(c) \/ \E l \in {"wake", "transition", "mark", "claim_wake", "promoted_transition",
                                   "promoted_claim"} : Goto(c, l)
      BY <1>17 DEF TimeoutFire, WakePublish, WakeTransition, At, threadVars
    <2> QED
      BY <1>5, <1>6, <1>8, <1>10, <2>1
  <1>21. CASE WakeClaim(c)
    <2>1. /\ state' = state /\ queue' = queue /\ enqueue_owed' = enqueue_owed /\ loose' = loose
          /\ cpu[c].pc \in {"claim_wake", "promoted_claim"}
          /\ Return(c) \/ \E l \in {"if_blocked", "mark", "enqueue"} : Goto(c, l)
      BY <1>21 DEF WakeClaim, At
    <2> QED
      BY <1>5, <1>6, <1>8, <1>10, <2>1
  <1>18. CASE WakeIfBlocked(c)
    <2>1. queue' = queue /\ enqueue_owed' = enqueue_owed /\ loose' = loose /\ cpu[c].pc = "if_blocked"
      BY <1>18 DEF WakeIfBlocked, At
    <2>2. CASE state[t] = "BLOCKED"
      <3>1. Goto(c, "enqueue") /\ \A x \in Threads : x # t => state'[x] = state[x]
        BY <1>3, <1>18, <2>2 DEF WakeIfBlocked, TypeOK
      <3>2. \A x \in Threads : x = t => Carries(c, x)'
        BY <1>5, <1>10, <3>1 DEF Carries
      <3>3. \A x \in Threads : Linked(x) => Linked(x)'
        BY <2>1 DEF Linked
      <3> QED
        BY <1>5, <1>9, <1>10, <2>1, <3>1, <3>2, <3>3
    <2>3. CASE state[t] # "BLOCKED"
      <3>1. Return(c) /\ state' = state
        BY <1>3, <1>18, <2>3 DEF WakeIfBlocked
      <3> QED
        BY <1>6, <1>8, <1>10, <2>1, <3>1
    <2> QED
      BY <2>2, <2>3
  <1>19. CASE OweFirst(c)
    <2>1. /\ Goto(c, "late_mark") /\ state' = state /\ queue' = queue /\ loose' = loose
          /\ enqueue_owed' = [enqueue_owed EXCEPT ![t] = TRUE]
      BY <1>3, <1>19 DEF OweFirst
    <2>2. enqueue_owed'[t] /\ \A x \in Threads : x # t => enqueue_owed'[x] = enqueue_owed[x]
      BY <2>1, Zenon DEF TypeOK
    <2>3. \A x \in Threads : Linked(x) => Linked(x)'
      BY <2>1 DEF Linked
    <2> QED
      BY <1>5, <1>9, <1>10, <2>1, <2>2, <2>3
  <1>22. CASE WakePromote(c)
    <2>1. /\ Goto(c, "promoted_wake") /\ queue' = queue /\ enqueue_owed' = enqueue_owed
          /\ state' = IF state[t] = "BLOCKED" THEN [state EXCEPT ![t] = "READY"] ELSE state
          /\ loose' = IF state[t] = "BLOCKED" THEN [loose EXCEPT ![t] = TRUE] ELSE loose
          /\ cpu[c].pc = "promoted"
      BY <1>3, <1>22 DEF WakePromote, At
    <2>2. \A x \in Threads : Linked(x) => Linked(x)'
      BY <2>1 DEF Linked
    <2>3. \A x \in Threads : x # t => state'[x] = state[x] /\ loose'[x] = loose[x]
      BY <2>1 DEF TypeOK
    <2>4. CASE state[t] = "BLOCKED"
      <3>1. loose' = [loose EXCEPT ![t] = TRUE] /\ loose \in [Threads -> BOOLEAN]
        BY <2>1, <2>4 DEF TypeOK
      <3>2. loose'[t]
        BY <3>1, Zenon
      <3> QED
        BY <1>5, <1>9, <1>10, <2>1, <2>2, <2>3, <3>2
    <2>5. CASE state[t] # "BLOCKED"
      BY <1>5, <1>8, <1>10, <2>1, <2>5
    <2> QED
      BY <2>4, <2>5
  <1> QED
    BY <1>11, <1>12, <1>13, <1>14, <1>15, <1>16, <1>17, <1>18, <1>19, <1>20, <1>21, <1>22 DEF SubStep

\* The sweep: a debt it takes it turns into an enqueue, unless the thread is queued or
\* not READY.
LEMMA SweepCarries ==
    ASSUME TypeOK, Shape, Flagged, Carried, NEW c \in CPUs, OnlyCpu(c),
           Sweep(c) \/ SweepTake(c) \/ SweepCheck(c) \/ SweepRelease(c)
    PROVE  Carried'
  <1>1. /\ state' = state /\ queue' = queue /\ loose' = loose
        /\ cpu[c].pc \in {"sweep", "sweep_take", "sweep_check", "sweep_release"}
    BY DEF Sweep, SweepTake, SweepCheck, SweepRelease, At, threadVars
  <1>2. /\ {"sweep", "sweep_take", "sweep_check", "sweep_release"} \cap (Carrying \cup Sub) = {}
        /\ {"sweep_take", "sweep_check", "sweep_release", "loop", "enqueue"} \subseteq Labels
        /\ {"sweep", "sweep_take", "sweep_release"} \cap Carriers = {} /\ "enqueue" \in Carriers
    BY DEF Carrying, Carriers, Sub, Labels, InDispatch, InThread, InWake, InEnqueue, InSweep
  <1>3. Base(c) \notin Carrying
    BY <1>1, <1>2 DEF Base
  <1>4. \A x \in Threads : Linked(x) => Linked(x)'
    BY <1>1 DEF Linked
  <1>5. CASE Sweep(c) \/ SweepRelease(c)
    <2>1. enqueue_owed' = enqueue_owed /\ cpu[c].pc \in {"sweep", "sweep_release"} /\ cpu[c].slot \in Threads
      BY <1>5, Indices DEF Sweep, SweepRelease, At
    <2>2. cpu'[c].pc \in {"sweep", "sweep_take"}
      BY <1>2, <1>5, <2>1, CallMoves, OuterMoves DEF Sweep, SweepRelease
    <2> QED
      BY <1>1, <1>2, <1>3, <2>1, <2>2, CarriesOn
  <1>6. CASE SweepTake(c)
    <2>1. PICK t \in Threads : t = cpu[c].target
      BY <1>6, Indices DEF SweepTake, At
    <2>2. /\ enqueue_owed' = [enqueue_owed EXCEPT ![t] = FALSE] /\ cpu[c].pc = "sweep_take"
          /\ Goto(c, IF enqueue_owed[t] THEN "sweep_check" ELSE "sweep_release")
      BY <1>6, <2>1 DEF SweepTake, At
    <2>3. /\ cpu'[c].pc = IF enqueue_owed[t] THEN "sweep_check" ELSE "sweep_release"
          /\ cpu'[c].target = t
      BY <1>2, <2>1, <2>2, GotoMoves
    <2>4. \A x \in Threads : x = t => (enqueue_owed[x] => Carries(c, x)')
      BY <2>3 DEF Carries, Carriers
    <2>5. \A x \in Threads : x # t => enqueue_owed'[x] = enqueue_owed[x]
      BY <2>2, Zenon DEF TypeOK
    <2>6. \A x \in Threads : ~Carries(c, x)
      BY <1>2, <1>3, <2>2 DEF Carries
    <2> QED
      BY <1>1, <1>4, <2>4, <2>5, <2>6, CarriedKept
  <1>7. CASE SweepCheck(c)
    <2>1. PICK t \in Threads : t = cpu[c].target
      BY <1>7, Indices DEF SweepCheck, At
    <2>2. enqueue_owed' = enqueue_owed /\ cpu[c].pc = "sweep_check"
      BY <1>7 DEF SweepCheck, At, threadVars
    <2>3. CASE state[t] = "READY" /\ ~on_rq[t]
      <3>1. Call(c, "enqueue", t, "sweep_release")
        BY <1>7, <2>1, <2>3 DEF SweepCheck
      <3>2. cpu'[c].pc = "enqueue" /\ cpu'[c].target = t
        BY <1>2, <3>1, CallMoves
      <3> QED
        BY <1>1, <1>2, <1>3, <2>1, <2>2, <3>2, CarriesOn
    <2>4. CASE ~(state[t] = "READY" /\ ~on_rq[t])
      <3>1. Goto(c, "sweep_release")
        BY <1>7, <2>1, <2>4 DEF SweepCheck
      <3>2. cpu'[c].pc = "sweep_release"
        BY <1>2, <3>1, GotoMoves
      <3>3. \A x \in Threads : x # t => ~Carries(c, x)
        BY <1>3, <2>1 DEF Carries
      <3>4. state[t] = "READY" => Linked(t) \/ \E d \in CPUs : d # c /\ Carries(d, t)
        BY <2>2, <2>4, ClaimCarries
      <3> QED
        BY <1>1, <1>4, <2>2, <3>3, <3>4, CarriedKept
    <2> QED
      BY <2>3, <2>4
  <1> QED
    BY <1>5, <1>6, <1>7

\* A wake or a timeout begins: a thread that wakes another goes on carrying itself.
LEMMA WakeCarries ==
    ASSUME TypeOK, Shape, Carried, NEW c \in CPUs, OnlyCpu(c), NEW t \in Threads,
           WakeFromEvent(c, t) \/ TimeoutDue(c, t) \/ WakeFromExit(c, t)
    PROVE  Carried'
  <1>1. /\ state' = state /\ queue' = queue /\ enqueue_owed' = enqueue_owed /\ loose' = loose
        /\ cpu[c].pc \in {"run", "idle", "loop"}
        /\ \E l \in {"wake", "fire", "promoted"} : Call(c, l, t, cpu[c].pc)
    BY DEF WakeFromEvent, TimeoutDue, WakeFromExit, At, threadVars
  <1>2. /\ {"wake", "fire", "promoted"} \subseteq Sub /\ Sub \subseteq Labels
        /\ {"run", "idle", "loop"} \cap (Sub \cup Carriers) = {}
    BY Phases DEF Sub, InWake, InEnqueue, Carriers
  <1>3. cpu[c].pc \in Labels
    BY Parts
  <1>4. /\ cpu'[c].pc \in {"wake", "fire", "promoted"} /\ cpu'[c].ret = cpu[c].pc
        /\ cpu'[c].thread = cpu[c].thread
    BY <1>1, <1>2, <1>3, CallMoves DEF KeepsWork
  <1>5. Base(c) = cpu[c].pc /\ Base(c)' = cpu[c].pc
    BY <1>1, <1>2, <1>4 DEF Base
  <1> QED
    BY <1>1, <1>2, <1>4, <1>5, CarriesOn

\* Where a runnable thread ends up on no queue and with no debt, one of two promotions
\* made it READY: the mark of a deferred enqueue whose debt was taken before the mark,
\* or that of a thread which waited for an exit.  What any other waker, completion path,
\* sweep, thief or dropped pick takes over it passes on, for any CPUs and threads.
THEOREM HandoffsAreKept == Spec => []HandoffKept
  <1>1. Init => Carried
    BY SchedAssumption DEF Init, Carried, Linked
  <1>2. IInv /\ Carried /\ [Next]_vars => Carried'
    <2>1. ASSUME IInv, Carried, UNCHANGED vars
          PROVE  Carried'
      BY <2>1 DEF Carried, Carries, Base, Linked, vars, threadVars
    <2>2. ASSUME IInv, Carried, Next
          PROVE  Carried'
      <3>1. PICK c \in CPUs : Step(c)
        BY <2>2 DEF Next, Step
      <3>2. TypeOK /\ Shape /\ LinkedOnce /\ Exclusive /\ Affine /\ Flagged
        BY <2>2 DEF IInv
      <3>3. OnlyCpu(c)
        BY <3>1, <3>2, StepKeeps
      <3> QED
        BY <2>2, <3>1, <3>2, <3>3, JumpCarries, PickCarries, WorkCarries, SubCarries, SweepCarries,
           WakeCarries DEF Step, Dispatching, Chosen, SubStep
    <2> QED
      BY <2>1, <2>2
  <1>3. ASSUME Carried
        PROVE  HandoffKept
    <2>1. \A c \in CPUs, t \in Threads : Carries(c, t) => InHand(t)
      BY DEF Carries, Carriers, InHand
    <2> QED
      BY <1>3, <2>1 DEF Carried, HandoffKept, Stranded
  <1> QED
    BY <1>1, <1>2, <1>3, Invariance, PTL DEF Spec
=============================================================================
