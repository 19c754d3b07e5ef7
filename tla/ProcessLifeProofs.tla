------------------------- MODULE ProcessLifeProofs --------------------------
(***************************************************************************)
(* Theorems of ProcessLife for processes that their parent collects        *)
(* (auto_reap off), for any number of CPUs, thread slots, processes and    *)
(* reap passes.  With auto_reap on, DispatchKeepsSlot fails: see run       *)
(* ProcessReap.  All of them but TypeCorrect hold until a reap gives up    *)
(* after THREAD_REAP_OWNER_PASSES with thread slots left behind: from then *)
(* on a dispatch may outlive its process, and only the types are kept.     *)
(***************************************************************************)
EXTENDS ProcessLife, TLAPS

\* Where a CPU holds the slot claim of its thread.
Holding == {"claimed", "release"} \cup Resolved \cup Exiting

\* Where an actor has the one reap of the process, and where it has claimed it.
ReapToken == Reaping \ {"auto_reap"}
ReapOwned == {"reap_threads", "reap_reset", "reap_dead"}

\* Where a thread runs, or comes back to run, and where its state is RUNNING unless a
\* kill made it a ZOMBIE.
OnStack   == {"running", "spawn_thread", "spawn_built", "spawn_counted", "spawn_reap",
              "join_arm", "join_block"}
Executing == OnStack \cup {"claimed_run", "validated", "result_exit"}

\* Where an actor has a thread slot in hand that it took or is to reap.
Walking == {"spawn_built", "spawn_counted", "spawn_reap"} \cup ReapOwned

\* The claim is dispatch_ref, and one CPU has it.
Claims == /\ \A c \in Cpus : at[c] \in Holding => dispatch_ref[job[c].th]
          /\ \A c, d \in Cpus : at[c] \in Holding /\ at[d] \in Holding /\ job[c].th = job[d].th => c = d

\* A dispatch that resolved its process works for the one in the slot.
Kept == \A c \in Cpus : at[c] \in Resolved \cup Exiting =>
           pid # 0 /\ job[c].pid = pid /\ tstate[job[c].th] # "UNUSED"

\* The thread slots in use belong to the process in the slot.
Owned == /\ \A th \in Threads : IF tstate[th] = "UNUSED" THEN owner[th] = 0 ELSE owner[th] = pid /\ pid # 0
         /\ state \in {"UNUSED", "DEAD"} => pid = 0
         /\ state \in {"NEW", "LIVE", "ZOMBIE"} => pid # 0
         /\ auto_reap = FALSE

\* One actor, or reap_requested, has the reap of a process that its parent is done with.
Token == /\ \A a, b \in Actors : at[a] \in ReapToken /\ at[b] \in ReapToken => a = b
         /\ reap_requested => \A a \in Actors : at[a] \notin ReapToken
         /\ reap_requested => state = "ZOMBIE" /\ Target = 0
         /\ \A a \in Actors : at[a] \in ReapToken =>
               state = (IF at[a] \in ReapOwned THEN "REAPING" ELSE "ZOMBIE") /\ Target = 0
         /\ \A a \in Actors : at[a] = "reap_reset" => \A th \in Threads : tstate[th] = "UNUSED"
         /\ \A a \in Actors : at[a] = "reap_dead" => pid = 0

\* A reap pass starts at the first slot, and has freed those behind it unless it was
\* refused one.
Walks == /\ \A a \in Actors : at[a] \notin Walking => job[a].slot = 1
         /\ \A a \in Actors : at[a] = "reap_threads" /\ job[a].refused = FALSE =>
               \A th \in Threads : th < job[a].slot => tstate[th] = "UNUSED"

\* Until it has collected its process, the parent's pid names the one in the slot.
Parent == /\ Target # 0 => Target = pid /\ state \in {"NEW", "LIVE", "ZOMBIE"}
          /\ at[Collector] \notin {"idle"} \cup ReapToken => Target # 0
          /\ at[Collector] = "wait_status" => state = "ZOMBIE"
          /\ at[Collector] = "publish" =>
                state = "NEW" /\ \A th \in Threads : tstate[th] = "UNUSED"

\* A process that is marked has recorded its status.
Marked == /\ exiting => pid # 0 /\ exit_status \in wrote
          /\ state = "ZOMBIE" => exiting
          /\ \A a \in Actors : at[a] \in {"mark_zombie", "mark_threads", "mark_wake",
                                          "reap_threads", "reap_reset"} => exiting

\* No thread runs once a reap found none running.
Quiet == /\ \A c \in Cpus : at[c] \in OnStack => state \in {"LIVE", "ZOMBIE"}
         /\ \A a \in Actors : at[a] \in {"reap_claim"} \cup ReapOwned =>
               \A c \in Cpus : at[c] \notin OnStack

\* The states of threads under a dispatch.
Runners == /\ \A c \in Cpus : at[c] \in Executing => tstate[job[c].th] \in {"RUNNING", "ZOMBIE"}
           /\ \A c \in Cpus : at[c] = "joiner" => tstate[job[c].th] = "ZOMBIE"
           /\ \A c \in Cpus : at[c] \in OnStack \ {"running"} => job[c].th = 1
           /\ \A th \in Threads : joining[th] => th = 1

\* The parent is registered while it is parked.
Registered ==
    /\ wait_target # 0 => at[Collector] = "parked" /\ wait_state = "BLOCKED"
    /\ at[Collector] = "wait_target" => wait_state = "BLOCKED"
    /\ at[Collector] = "parked" /\ wait_state = "BLOCKED" => wait_target = Target
    /\ at[Collector] = "parked" /\ wait_state = "BLOCKED" /\ ~late.wait /\ state # "LIVE" =>
          \E a \in Actors : at[a] \in {"mark_threads", "mark_wake"}

\* The threads whose exit has yet to reach their joiner.
ToReport == {th \in Threads : \/ tstate[th] \notin {"UNUSED", "ZOMBIE"}
                              \/ \E c \in Cpus : at[c] = "joiner" /\ job[c].th = th}

\* The joiner is registered while its target can still exit.
JoinArmed ==
    2 \in Threads /\ ~OwnerGone =>
        /\ \A c \in Cpus : at[c] = "join_block" => join_waiter[2] \/ tstate[2] \in {"UNUSED", "ZOMBIE"}
        /\ joining[1] /\ tstate[1] = "BLOCKED" /\ ~late.join => join_waiter[2] /\ 2 \in ToReport

\* What holds until a reap gives up with threads left behind.
Safe == /\ Claims /\ Kept /\ Owned /\ Token /\ Walks /\ Parent /\ Marked /\ Quiet /\ Runners
        /\ Registered /\ JoinArmed /\ RefusedReapIsRetried

IInv == TypeOK /\ (leftovers = FALSE => Safe)

-----------------------------------------------------------------------------
(* One actor moves. *)

\* A step of actor a.
Step(a) == \/ a = Collector /\ CollectorStep
           \/ a \in Cpus /\ DispatchStep(a)
           \/ ExitStep(a) \/ ReapStep(a)

OnlyAt(a)  == at' \in [Actors -> Labels] /\ \A b \in Actors : b # a => at'[b] = at[b]
OnlyJob(a) == \A b \in Actors : b # a => job'[b] = job[b]

\* The actors.
LEMMA Who ==
    /\ Collector \in Actors /\ Collector \notin Cpus /\ Cpus \subseteq Actors
    /\ \A a \in Actors : a # Collector => a \in Cpus
  BY CollectorAssumption DEF Actors

\* A step of the system is one of an actor.
LEMMA Stepping ==
    ASSUME Next
    PROVE  \E a \in Actors : Step(a)
  BY Who DEF Next, Step

\* The label sets.
LEMMA LabelSets ==
    /\ Holding \subseteq Labels /\ ReapToken \subseteq Labels /\ Executing \subseteq Labels
    /\ Resolved \subseteq Labels /\ Exiting \subseteq Labels /\ Reaping \subseteq Labels
    /\ OnStack \subseteq Executing /\ Executing \subseteq Resolved /\ ReapOwned \subseteq ReapToken
    /\ ReapToken \cap Holding = {} /\ Resolved \cap Exiting = {}
  BY DEF Holding, ReapToken, Executing, OnStack, ReapOwned, Labels, Resolved, Exiting, Reaping

\* An actor goes to a label.
LEMMA StepMoves ==
    ASSUME TypeOK, NEW a \in Actors, Step(a)
    PROVE  OnlyAt(a)
  <1>1. at \in [Actors -> Labels]
    BY DEF TypeOK
  <1>2. \A l \in Labels : Goto(a, l) => OnlyAt(a)
    BY <1>1 DEF Goto, OnlyAt
  <1>3. at' = at => OnlyAt(a)
    BY <1>1 DEF OnlyAt
  <1>4. /\ \A l \in {"idle", "publish", "wait_test", "wait_status", "wait_block", "wait_target", "parked",
                     "mark_status", "mark_zombie", "mark_threads", "mark_wake", "reap_active",
                     "reap_request", "reap_claim", "reap_threads", "reap_reset", "reap_dead",
                     "auto_reap", "picked", "claimed", "resolved", "claimed_run", "validated", "running",
                     "release", "retry", "spawn_thread", "spawn_built", "spawn_counted", "spawn_reap",
                     "join_arm", "join_block", "joiner", "count_out", "last_test",
                     "result_exit", "result_blocked"} :
              l \in Labels /\ (Goto(a, l) => OnlyAt(a))
    BY <1>2 DEF Labels, Resolved, Exiting, Reaping
  <1>5. CASE a = Collector /\ CollectorStep
    BY <1>4, <1>5 DEF CollectorStep, SpawnClaim, SpawnPublish, SpawnFails, Kill, Wait, WaitTest, WaitStatus,
       WaitBlock, WaitTarget, WaitResume
  <1>6. CASE a \in Cpus /\ DispatchStep(a)
    BY <1>3, <1>4, <1>6 DEF DispatchStep, Pick, ClaimSlot, Resolve, ClaimRun, Validate, SetRunning, Unclaim,
       Return, ExitProcess, SpawnThread, TakeThreadSlot, SpawnCount, SpawnWake, SpawnReap, JoinTest, JoinArm,
       JoinBlock, ResultDropped, ResultReady, ResultExit, ResultThreadExit, WakeJoiner, CountOut, LastTest,
       Release, Retry
  <1>7. CASE ExitStep(a)
    BY <1>4, <1>7 DEF ExitStep, AfterMark, MarkStatus, MarkZombie, MarkThreads, MarkWake
  <1>8. CASE ReapStep(a)
    BY <1>3, <1>4, <1>8 DEF ReapStep, Return, TryAutoReap, ReapActive, ReapRequest, ReapClaim, ReapSlot,
       ReapPass, ReapReset, ReapDead
  <1> QED
    BY <1>5, <1>6, <1>7, <1>8 DEF Step

\* The locals of an actor with nothing in hand.
LEMMA FreshJob ==
    NoJob \in Jobs /\ NoJob.slot = 1 /\ NoJob.pid = 0
  <1>1. 1 \in Threads /\ 1 \in Walk /\ 0 \in 0 .. ReapPasses /\ 0 \in Pids \cup {0}
    BY ThreadsAssumption, PassesAssumption DEF Threads, Walk
  <1>2. NoJob \in Jobs
    BY <1>1, Zenon DEF NoJob, Jobs
  <1> QED
    BY <1>2 DEF NoJob

\* Where an actor goes back to idle and forgets its locals.
LEMMA Returns ==
    ASSUME TypeOK, NEW a \in Actors, Return(a)
    PROVE  /\ job' \in [Actors -> Jobs] /\ OnlyJob(a) /\ at'[a] = "idle" /\ job'[a].slot = 1
           /\ a = Collector => job'[a].pid = job[a].pid
           /\ a # Collector => job'[a].pid = 0
  <1>0. /\ job \in [Actors -> Jobs] /\ at \in [Actors -> Labels] /\ 1 \in Threads /\ 1 \in Walk
        /\ 0 \in 0 .. ReapPasses
    BY ThreadsAssumption, PassesAssumption DEF TypeOK, Threads, Walk
  <1> DEFINE p == IF a = Collector THEN job[a].pid ELSE 0
             r == [NoJob EXCEPT !.pid = p]
  <1>1. p \in Pids \cup {0}
    BY <1>0 DEF Jobs
  <1>2. NoJob \in Jobs /\ NoJob.slot = 1
    BY FreshJob
  <1>3. job' = [job EXCEPT ![a] = r] /\ at' = [at EXCEPT ![a] = "idle"]
    BY DEF Return, Goto
  <1> HIDE DEF p
  <1>4. r \in Jobs /\ r.pid = p /\ r.slot = 1
    BY <1>1, <1>2 DEF Jobs
  <1> HIDE DEF r
  <1>5. job' \in [Actors -> Jobs] /\ job'[a] = r /\ OnlyJob(a) /\ at'[a] = "idle"
    BY <1>0, <1>3, <1>4 DEF OnlyJob
  <1> QED
    BY <1>4, <1>5 DEF p

\* The steps that change the slot, the pass or the refusals an actor carries.
SlotStep(a) ==
    \/ ReapSlot(a) \/ ReapPass(a)
    \/ a \in Cpus /\ (TakeThreadSlot(a) \/ SpawnWake(a) \/ SpawnReap(a))

\* The carried thread and pid change where a thread is picked, its process resolved, a
\* process spawned or collected, and at the end of a dispatch or a reap.
LEMMA StepJobs ==
    ASSUME TypeOK, NEW a \in Actors, Step(a)
    PROVE  /\ job' \in [Actors -> Jobs]
           /\ OnlyJob(a)
           /\ \/ job'[a].pid = job[a].pid /\ job'[a].th = job[a].th
              \/ a = Collector /\ job'[a].pid = job[a].pid
              \/ a \in Cpus /\ at'[a] \in {"idle", "picked"} /\ job'[a].pid = 0
              \/ /\ a \in Cpus /\ at[a] = "claimed" /\ at'[a] = "resolved" /\ job'[a].th = job[a].th
                 /\ job'[a].pid = pid /\ pid # 0 /\ job'[a].pid \in Pids
              \/ a = Collector /\ SpawnClaim /\ job'[a].pid = next_pid
              \/ a = Collector /\ (WaitStatus \/ SpawnFails) /\ job'[a].pid = 0
           /\ at'[a] \notin Walking => job'[a].slot = 1 \/ (job'[a].slot = job[a].slot /\ at[a] \notin Walking)
  <1>0. /\ job \in [Actors -> Jobs] /\ at \in [Actors -> Labels] /\ MaxPid \in Nat /\ a \in Actors
        /\ owner \in [Threads -> Pids \cup {0}] /\ pid \in Pids \cup {0} /\ next_pid \in 1 .. MaxPid + 1
        /\ tstate \in [Threads -> {"UNUSED", "READY", "RUNNING", "BLOCKED", "ZOMBIE"}]
    BY MaxPidAssumption DEF TypeOK
  <1>a. 1 \in Walk /\ Threads \subseteq Walk /\ 1 \in Threads /\ 0 \in 0 .. ReapPasses /\ NThreads \in Nat
    BY ThreadsAssumption, PassesAssumption DEF Walk, Threads
  <1>1. ASSUME NEW p \in Pids \cup {0}, job' = [job EXCEPT ![a].pid = p]
        PROVE  /\ job' \in [Actors -> Jobs] /\ OnlyJob(a) /\ job'[a].th = job[a].th /\ job'[a].pid = p
               /\ job'[a].slot = job[a].slot
    BY <1>0, <1>1 DEF OnlyJob, Jobs
  <1>b. ASSUME NEW x \in Walk, job' = [job EXCEPT ![a].slot = x]
        PROVE  /\ job' \in [Actors -> Jobs] /\ OnlyJob(a) /\ job'[a].th = job[a].th
               /\ job'[a].pid = job[a].pid /\ job'[a].slot = x
    BY <1>0, <1>b DEF OnlyJob, Jobs
  <1>2. CASE \E th \in Threads : a \in Cpus /\ Pick(a, th)
    <2>1. PICK th \in Threads : a \in Cpus /\ Pick(a, th)
      BY <1>2
    <2> DEFINE r == [NoJob EXCEPT !.th = th, !.tid = owner[th]]
    <2>2. NoJob \in Jobs /\ NoJob.slot = 1 /\ NoJob.pid = 0
      BY FreshJob
    <2>3. job' = [job EXCEPT ![a] = r] /\ at[a] = "idle" /\ at' = [at EXCEPT ![a] = "picked"]
      BY <2>1 DEF Pick, Goto
    <2>4. r \in Jobs /\ r.pid = 0 /\ r.slot = 1
      BY <1>0, <2>2 DEF Jobs
    <2> HIDE DEF r
    <2> QED
      BY <1>0, <2>1, <2>3, <2>4 DEF OnlyJob
  <1>3. CASE a \in Cpus /\ Resolve(a)
    <2>1. CASE Found(owner[job[a].th])
      <3>1. /\ pid \in Pids /\ pid # 0 /\ job' = [job EXCEPT ![a].pid = pid]
            /\ at[a] = "claimed" /\ at' = [at EXCEPT ![a] = "resolved"]
        BY <1>0, <1>3, <2>1 DEF Resolve, Found, Pids, Goto
      <3> QED
        BY <1>0, <1>1, <1>3, <3>1 DEF Walking, ReapOwned
    <2>2. CASE ~Found(owner[job[a].th])
      BY <1>0, <1>3, <2>2 DEF Resolve, OnlyJob, Walking, ReapOwned
    <2> QED
      BY <2>1, <2>2
  <1>4. CASE a = Collector /\ (SpawnClaim \/ WaitStatus \/ SpawnFails)
    <2>1. next_pid <= MaxPid => next_pid \in Pids \cup {0}
      BY <1>0 DEF Pids
    <2>2. at[a] \notin Walking
      BY <1>4 DEF SpawnClaim, WaitStatus, SpawnFails, Walking, ReapOwned
    <2> QED
      BY <1>1, <1>4, <2>1, <2>2 DEF SpawnClaim, WaitStatus, SpawnFails
  <1>5. CASE Return(a)
    <2>1. /\ job' \in [Actors -> Jobs] /\ OnlyJob(a) /\ at'[a] = "idle" /\ job'[a].slot = 1
          /\ a = Collector => job'[a].pid = job[a].pid
          /\ a # Collector => job'[a].pid = 0
      BY <1>5, Returns
    <2> QED
      BY <2>1, Who
  <1>6. CASE SlotStep(a)
    <2>1. CASE ReapSlot(a)
      <3> DEFINE s == job[a].slot + 1
                 f == job[a].refused \/ (Own(job[a].slot) /\ ~Resettable(job[a].slot))
      <3>1. job' = [job EXCEPT ![a].slot = s, ![a].refused = f] /\ at' = at /\ at[a] \in Walking
        BY <2>1 DEF ReapSlot, Walking, ReapOwned
      <3>2. s \in Walk /\ f \in BOOLEAN
        BY <1>0, <1>a, <2>1 DEF ReapSlot, Walk, Jobs
      <3> HIDE DEF s, f
      <3>3. [job EXCEPT ![a].slot = s, ![a].refused = f] \in [Actors -> Jobs]
        BY <1>0, <3>2 DEF Jobs
      <3>4. job'[a].pid = job[a].pid /\ job'[a].th = job[a].th /\ OnlyJob(a)
        BY <1>0, <3>1 DEF OnlyJob, Jobs
      <3> QED
        BY <3>1, <3>3, <3>4
    <2>2. CASE ReapPass(a)
      <3>1. at[a] = "reap_threads"
        BY <2>2 DEF ReapPass
      <3>2. at'[a] \in {"reap_threads", "reap_reset"}
        BY <1>0, <2>2, <3>1 DEF ReapPass, Goto
      <3>3. CASE PassAgain(a) /\ job' = [job EXCEPT ![a].slot = 1, ![a].refused = FALSE, ![a].pass = job[a].pass + 1]
        <4>1. job[a].pass + 1 \in 0 .. ReapPasses
          BY <1>0, <3>3, PassesAssumption DEF PassAgain, Jobs
        <4> QED
          BY <1>0, <1>a, <3>2, <3>3, <4>1 DEF OnlyJob, Jobs, Walking, ReapOwned
      <3>4. CASE job' = job
        BY <1>0, <3>2, <3>4 DEF OnlyJob, Walking, ReapOwned
      <3> QED
        BY <2>2, <3>3, <3>4 DEF ReapPass
    <2>3. CASE a \in Cpus /\ TakeThreadSlot(a)
      <3>1. CASE job' = job
        <4>1. at[a] \notin Walking
          BY <2>3 DEF TakeThreadSlot, Walking, ReapOwned
        <4> QED
          BY <1>0, <3>1, <4>1 DEF OnlyJob
      <3>2. CASE \E x \in Threads : job' = [job EXCEPT ![a].slot = x] /\ Goto(a, "spawn_built")
        <4>1. PICK x \in Threads : job' = [job EXCEPT ![a].slot = x] /\ Goto(a, "spawn_built")
          BY <3>2
        <4>2. at'[a] = "spawn_built"
          BY <1>0, <4>1 DEF Goto
        <4> QED
          BY <1>a, <1>b, <4>1, <4>2 DEF Walking
      <3> QED
        BY <2>3, <3>1, <3>2 DEF TakeThreadSlot, FreeSlots
    <2>4. CASE a \in Cpus /\ SpawnReap(a)
      BY <1>a, <1>b, <2>4 DEF SpawnReap
    <2>5. CASE a \in Cpus /\ SpawnWake(a)
      <3>1. CASE job' = [job EXCEPT ![a].slot = 1]
        BY <1>a, <1>b, <3>1
      <3>2. CASE job' = job /\ Goto(a, "spawn_reap")
        <4>1. at'[a] = "spawn_reap"
          BY <1>0, <3>2 DEF Goto
        <4> QED
          BY <1>0, <3>2, <4>1 DEF OnlyJob, Walking
      <3> QED
        BY <2>5, <3>1, <3>2 DEF SpawnWake
    <2> QED
      BY <1>6, <2>1, <2>2, <2>3, <2>4, <2>5 DEF SlotStep
  <1>7. CASE job' = job /\ at[a] \notin Walking
    BY <1>0, <1>7 DEF OnlyJob
  <1>8. CASE job' = job /\ at'[a] \in Walking
    BY <1>0, <1>8 DEF OnlyJob
  <1> DEFINE Goal == \/ \E th \in Threads : a \in Cpus /\ Pick(a, th)
                     \/ a \in Cpus /\ Resolve(a)
                     \/ a = Collector /\ (SpawnClaim \/ WaitStatus \/ SpawnFails)
                     \/ Return(a) \/ SlotStep(a)
                     \/ job' = job /\ (at[a] \notin Walking \/ at'[a] \in Walking)
  <1>9. CASE a = Collector /\ CollectorStep
    <2>1. Goal
      BY <1>9 DEF CollectorStep, SpawnPublish, Kill, Wait, WaitTest, WaitBlock, WaitTarget, WaitResume, Walking,
         ReapOwned
    <2> QED
      BY <1>2, <1>3, <1>4, <1>5, <1>6, <1>7, <1>8, <2>1
  <1>10. CASE ExitStep(a)
    <2>1. Goal
      BY <1>10 DEF ExitStep, MarkStatus, MarkZombie, MarkThreads, MarkWake, Walking, ReapOwned
    <2> QED
      BY <1>2, <1>3, <1>4, <1>5, <1>6, <1>7, <1>8, <2>1
  <1>11. CASE ReapStep(a)
    <2>1. Goal
      BY <1>0, <1>11 DEF ReapStep, TryAutoReap, ReapActive, ReapRequest, ReapClaim, ReapReset, ReapDead, SlotStep,
         Goto, Walking, ReapOwned
    <2> QED
      BY <1>2, <1>3, <1>4, <1>5, <1>6, <1>7, <1>8, <2>1
  <1>12. CASE a \in Cpus /\ DispatchStep(a)
    <2>1. CASE ClaimSlot(a) \/ Release(a) \/ Retry(a)
      BY <1>5, <1>7, <2>1 DEF ClaimSlot, Release, Retry, Walking, ReapOwned
    <2>2. CASE SpawnCount(a)
      <3>1. job' = job /\ at'[a] \in Walking
        BY <1>0, <2>2 DEF SpawnCount, Goto, Walking
      <3> QED
        BY <1>8, <3>1
    <2>3. CASE \/ ClaimRun(a) \/ Validate(a) \/ SetRunning(a) \/ ExitProcess(a) \/ SpawnThread(a)
               \/ JoinTest(a) \/ JoinArm(a) \/ JoinBlock(a) \/ ResultDropped(a) \/ ResultReady(a)
               \/ ResultExit(a) \/ ResultThreadExit(a) \/ WakeJoiner(a) \/ CountOut(a) \/ LastTest(a)
      <3>1. job' = job /\ at[a] \notin Walking
        BY <2>3 DEF ClaimRun, Validate, SetRunning, ExitProcess, SpawnThread, JoinTest, JoinArm, JoinBlock,
           ResultDropped, ResultReady, ResultExit, ResultThreadExit, WakeJoiner, CountOut, LastTest,
           Runs, Back, Walking, ReapOwned
      <3> QED
        BY <1>7, <3>1
    <2> QED
      BY <1>2, <1>3, <1>6, <1>12, <2>1, <2>2, <2>3 DEF DispatchStep, SlotStep
  <1> QED
    BY <1>9, <1>10, <1>11, <1>12 DEF Step

-----------------------------------------------------------------------------
(* The slot claim. *)

\* Only ClaimSlot starts to hold one.
LEMMA HoldersStay ==
    ASSUME TypeOK, NEW a \in Cpus, Step(a), ~ClaimSlot(a), at'[a] \in Holding
    PROVE  at[a] \in Holding
  <1>1. at \in [Actors -> Labels] /\ a \in Actors /\ a # Collector
    BY Who DEF TypeOK
  <1>2. CASE DispatchStep(a)
    <2>1. CASE \/ Retry(a) \/ \E th \in Threads : Pick(a, th)
      BY <1>1, <2>1 DEF Retry, Return, Pick, Goto, Holding, Resolved, Exiting
    <2>2. CASE ~(\/ Retry(a) \/ \E th \in Threads : Pick(a, th))
      BY <1>2, <2>2 DEF DispatchStep, Runs, Back, Holding, Resolved, Resolve, ClaimRun, Validate, SetRunning,
         ExitProcess, SpawnThread, TakeThreadSlot, SpawnCount, SpawnWake, SpawnReap, JoinTest, JoinArm, JoinBlock,
         ResultDropped, ResultReady, ResultExit, ResultThreadExit, WakeJoiner, CountOut, LastTest, Release
    <2> QED
      BY <2>1, <2>2
  <1>3. CASE ExitStep(a)
    BY <1>3 DEF ExitStep, MarkStatus, MarkZombie, MarkThreads, MarkWake, Holding, Exiting
  <1>4. CASE ReapStep(a)
    BY <1>1, <1>4 DEF ReapStep, Return, Goto, TryAutoReap, ReapActive, ReapRequest, ReapClaim, ReapSlot, ReapPass,
       ReapReset, ReapDead, Holding, Resolved, Exiting
  <1> QED
    BY <1>1, <1>2, <1>3, <1>4 DEF Step

\* What becomes of dispatch_ref.
LEMMA RefMoves ==
    ASSUME TypeOK, NEW a \in Actors, Step(a)
    PROVE  \/ dispatch_ref' = dispatch_ref /\ ~(a \in Cpus /\ at[a] = "release")
           \/ /\ a \in Cpus /\ ClaimSlot(a) /\ job' = job /\ at'[a] = "claimed"
              /\ ~dispatch_ref[job[a].th] /\ dispatch_ref' = [dispatch_ref EXCEPT ![job[a].th] = TRUE]
           \/ /\ a \in Cpus /\ at[a] = "release" /\ at'[a] \notin Holding
              /\ dispatch_ref' = [dispatch_ref EXCEPT ![job[a].th] = FALSE]
  <1>0. at \in [Actors -> Labels] /\ dispatch_ref \in [Threads -> BOOLEAN]
    BY DEF TypeOK
  <1>1. CASE a \in Cpus /\ ClaimSlot(a)
    BY <1>0, <1>1 DEF ClaimSlot, Return, Goto
  <1>2. CASE a \in Cpus /\ Release(a)
    BY <1>0, <1>2 DEF Release, Return, Goto, Holding, Resolved, Exiting
  <1>3. CASE a \in Cpus /\ DispatchStep(a) /\ ~ClaimSlot(a) /\ ~Release(a)
    <2>1. dispatch_ref' = dispatch_ref /\ at[a] # "release"
      BY <1>3 DEF DispatchStep, Runs, Back, threadVars, Pick, Resolve, ClaimRun, Validate, SetRunning, ExitProcess,
         SpawnThread, TakeThreadSlot, SpawnCount, SpawnWake, SpawnReap, JoinTest, JoinArm, JoinBlock,
         ResultDropped, ResultReady, ResultExit, ResultThreadExit, WakeJoiner, CountOut, LastTest, Retry
    <2> QED
      BY <2>1
  <1>4. CASE ExitStep(a) \/ ReapStep(a)
    <2>1. dispatch_ref' = dispatch_ref /\ at[a] # "release"
      BY <1>4 DEF ExitStep, ReapStep, threadVars, MarkStatus, MarkZombie, MarkThreads, MarkWake, TryAutoReap,
         ReapActive, ReapRequest, ReapClaim, ReapSlot, ReapPass, ReapReset, ReapDead
    <2> QED
      BY <2>1
  <1>5. CASE a = Collector /\ CollectorStep
    <2>1. dispatch_ref' = dispatch_ref
      BY <1>5 DEF CollectorStep, threadVars, SpawnClaim, SpawnPublish, SpawnFails, Kill, Wait, WaitTest, WaitStatus,
         WaitBlock, WaitTarget, WaitResume
    <2> QED
      BY <1>5, <2>1, Who
  <1> QED
    BY <1>1, <1>2, <1>3, <1>4, <1>5 DEF Step

\* The claims stay exclusive.
LEMMA ClaimsStep ==
    ASSUME TypeOK, Claims, NEW a \in Actors, Step(a)
    PROVE  Claims'
  <1>0. /\ \A c \in Cpus : c # a => at'[c] = at[c] /\ job'[c] = job[c]
        /\ dispatch_ref \in [Threads -> BOOLEAN] /\ \A c \in Cpus : job[c].th \in Threads
    BY StepMoves, StepJobs, Who DEF OnlyAt, OnlyJob, TypeOK, Jobs
  <1>1. CASE /\ a \in Cpus /\ ClaimSlot(a) /\ job' = job /\ at'[a] = "claimed" /\ ~dispatch_ref[job[a].th]
             /\ dispatch_ref' = [dispatch_ref EXCEPT ![job[a].th] = TRUE]
    <2>1. \A c \in Cpus : c # a /\ at[c] \in Holding => job[c].th # job[a].th
      BY <1>1 DEF Claims
    <2>2. \A c \in Cpus : c # a => (at'[c] \in Holding <=> at[c] \in Holding)
      BY <1>0
    <2>3. \A x \in Threads : dispatch_ref[x] => dispatch_ref'[x]
      BY <1>0, <1>1
    <2> QED
      BY <1>0, <1>1, <2>1, <2>2, <2>3 DEF Claims
  <1>2. CASE /\ a \in Cpus /\ at[a] = "release" /\ at'[a] \notin Holding
             /\ dispatch_ref' = [dispatch_ref EXCEPT ![job[a].th] = FALSE]
    <2>1. "release" \in Holding
      BY DEF Holding
    <2>2. \A c \in Cpus : c # a /\ at[c] \in Holding => job[c].th # job[a].th
      BY <1>2, <2>1 DEF Claims
    <2> QED
      BY <1>0, <1>2, <2>2 DEF Claims
  <1>3. CASE dispatch_ref' = dispatch_ref /\ ~(a \in Cpus /\ ClaimSlot(a))
    <2>1. \A c \in Cpus : at'[c] \in Holding => at[c] \in Holding /\ job'[c].th = job[c].th
      <3>1. ASSUME a \in Cpus, at'[a] \in Holding
            PROVE  at[a] \in Holding /\ job'[a].th = job[a].th
        <4>1. at[a] \in Holding
          BY <1>3, <3>1, HoldersStay
        <4>2. at'[a] \notin {"idle", "picked"}
          BY <3>1 DEF Holding, Resolved, Exiting
        <4> QED
          BY <3>1, <4>1, <4>2, StepJobs, Who
      <3> QED
        BY <1>0, <3>1
    <2> QED
      BY <1>3, <2>1 DEF Claims
  <1>4. CASE dispatch_ref' = dispatch_ref /\ a \in Cpus /\ ClaimSlot(a)
    <2>1. dispatch_ref[job[a].th]
      BY <1>0, <1>4 DEF ClaimSlot
    <2>2. at'[a] = "idle" /\ "idle" \notin Holding
      BY <1>4, <2>1, Who DEF ClaimSlot, Return, Goto, TypeOK, Holding, Resolved, Exiting
    <2> QED
      BY <1>0, <1>4, <2>2 DEF Claims
  <1> QED
    BY <1>1, <1>2, <1>3, <1>4, RefMoves

-----------------------------------------------------------------------------
(* The thread slots. *)

TStates == {"UNUSED", "READY", "RUNNING", "BLOCKED", "ZOMBIE"}

\* What a step does to the thread slots: it takes a free one for the process in the
\* process slot, resets one that no dispatch holds, or moves one in use.
Moved(th) == \/ tstate[th] = "UNUSED" /\ tstate'[th] = "UNUSED" /\ owner'[th] = owner[th]
             \/ tstate[th] # "UNUSED" /\ tstate'[th] # "UNUSED" /\ owner'[th] = owner[th]
Taken(th) == tstate[th] = "UNUSED" /\ tstate'[th] \in {"READY", "BLOCKED"} /\ owner'[th] = pid /\ pid # 0

Freed(th) == tstate[th] # "UNUSED" /\ tstate'[th] = "UNUSED" /\ owner'[th] = 0 /\ ~dispatch_ref[th]

\* The steps that touch a thread's state.
ThreadStep(a) ==
    \/ a = Collector /\ SpawnPublish
    \/ MarkThreads(a) \/ ReapSlot(a)
    \/ /\ a \in Cpus
       /\ \/ ClaimRun(a) \/ Validate(a) \/ SetRunning(a) \/ TakeThreadSlot(a) \/ SpawnWake(a) \/ SpawnReap(a)
          \/ JoinTest(a) \/ JoinBlock(a) \/ ResultReady(a) \/ ResultThreadExit(a) \/ WakeJoiner(a)

\* The others leave the thread slots alone.
LEMMA ThreadsUntouched ==
    ASSUME NEW a \in Actors, Step(a), ~ThreadStep(a)
    PROVE  tstate' = tstate /\ owner' = owner
  BY DEF ThreadStep, Step, CollectorStep, DispatchStep, ExitStep, ReapStep, threadVars, SpawnClaim, SpawnFails, Kill,
     Wait, WaitTest, WaitStatus, WaitBlock, WaitTarget, WaitResume, Pick, ClaimSlot, Resolve, ExitProcess,
     SpawnThread, SpawnCount, JoinArm, ResultDropped, ResultExit, CountOut, LastTest, Release, Retry, MarkStatus,
     MarkZombie, MarkWake, TryAutoReap, ReapActive, ReapRequest, ReapClaim, ReapPass, ReapReset, ReapDead

\* A slot that is taken was free.
LEMMA SlotTaken ==
    ASSUME NEW a \in Cpus, TakeThreadSlot(a)
    PROVE  \/ tstate' = tstate /\ owner' = owner
           \/ \E x \in Threads : /\ tstate[x] = "UNUSED" /\ tstate' = [tstate EXCEPT ![x] = "BLOCKED"]
                                 /\ owner' = [owner EXCEPT ![x] = pid]
  BY DEF TakeThreadSlot, FreeSlots

\* A slot that is reset was claimed by nobody.
LEMMA SlotReset ==
    ASSUME NEW a \in Actors, ReapSlot(a) \/ SpawnReap(a)
    PROVE  \/ tstate' = tstate /\ owner' = owner
           \/ /\ ~dispatch_ref[job[a].slot] /\ tstate' = [tstate EXCEPT ![job[a].slot] = "UNUSED"]
              /\ owner' = [owner EXCEPT ![job[a].slot] = 0]
  BY DEF ReapSlot, SpawnReap, ResetSlot, Resettable

\* The thread slots keep their types.
LEMMA ThreadTypes ==
    ASSUME TypeOK, NEW a \in Actors, Step(a)
    PROVE  tstate' \in [Threads -> TStates] /\ owner' \in [Threads -> Pids \cup {0}]
  <1>0. /\ tstate \in [Threads -> TStates] /\ owner \in [Threads -> Pids \cup {0}] /\ pid \in Pids \cup {0}
    BY DEF TypeOK, TStates
  <1>1. CASE ~ThreadStep(a)
    BY <1>0, <1>1, ThreadsUntouched
  <1>2. CASE (a = Collector /\ SpawnPublish) \/ MarkThreads(a)
    BY <1>0, <1>2 DEF SpawnPublish, MarkThreads, TStates
  <1>3. CASE ReapSlot(a) \/ (a \in Cpus /\ SpawnReap(a))
    BY <1>0, <1>3, SlotReset DEF TStates
  <1>4. CASE a \in Cpus /\ TakeThreadSlot(a)
    BY <1>0, <1>4, SlotTaken DEF TStates
  <1>5. CASE a \in Cpus /\ (ClaimRun(a) \/ Validate(a) \/ SetRunning(a) \/ SpawnWake(a))
    BY <1>0, <1>5 DEF ClaimRun, Validate, SetRunning, Unclaim, SpawnWake, TStates
  <1>6. CASE a \in Cpus /\ (JoinTest(a) \/ JoinBlock(a) \/ ResultReady(a) \/ ResultThreadExit(a) \/ WakeJoiner(a))
    BY <1>0, <1>6 DEF JoinTest, JoinBlock, ResultReady, ResultThreadExit, WakeJoiner, TStates
  <1> QED
    BY <1>1, <1>2, <1>3, <1>4, <1>5, <1>6 DEF ThreadStep

\* Where the steps that touch them are.
LEMMA ThreadSteps ==
    ASSUME TypeOK, Kept, Owned, Runners, NEW a \in Actors, ThreadStep(a)
    PROVE  /\ \A th \in Threads : Moved(th) \/ Taken(th) \/ Freed(th)
           /\ \A th \in Threads : Taken(th) =>
                 (a = Collector /\ SpawnPublish) \/ (a \in Cpus /\ TakeThreadSlot(a))
  <1>0. /\ tstate \in [Threads -> TStates] /\ owner \in [Threads -> Pids \cup {0}] /\ pid \in Pids \cup {0}
        /\ dispatch_ref \in [Threads -> BOOLEAN] /\ 1 \in Threads
        /\ \A c \in Cpus : job[c].th \in Threads
        /\ \A th \in Threads : tstate[th] = "UNUSED" => owner[th] = 0
    BY ThreadsAssumption, Who DEF TypeOK, TStates, Threads, Jobs, Owned
  <1>1. CASE a = Collector /\ SpawnPublish
    <2>1. pid # 0
      BY <1>1 DEF SpawnPublish, Owned
    <2> QED
      BY <1>0, <1>1, <2>1 DEF SpawnPublish, Moved, Taken, Freed, TStates
  <1>2. CASE MarkThreads(a)
    <2>1. /\ owner' = owner
          /\ \A th \in Threads : tstate'[th] = tstate[th] \/ (tstate[th] # "UNUSED" /\ tstate'[th] = "ZOMBIE")
      BY <1>0, <1>2 DEF MarkThreads, Own, TStates
    <2> QED
      BY <1>0, <2>1 DEF Moved, Taken, Freed
  <1>3. CASE ReapSlot(a) \/ (a \in Cpus /\ SpawnReap(a))
    BY <1>0, <1>3, SlotReset DEF Moved, Taken, Freed, TStates
  <1>4. CASE a \in Cpus /\ TakeThreadSlot(a)
    <2>1. pid # 0
      BY <1>4 DEF TakeThreadSlot, Kept, Resolved
    <2> QED
      BY <1>0, <1>4, <2>1, SlotTaken DEF Moved, Taken, Freed, TStates
  <1>5. CASE a \in Cpus /\ JoinTest(a)
    <2>1. CASE tstate' = tstate /\ owner' = owner
      BY <1>0, <2>1 DEF Moved, Taken, Freed
    <2>2. CASE /\ tstate[2] = "ZOMBIE" /\ Resettable(2) /\ tstate' = [tstate EXCEPT ![2] = "UNUSED"]
               /\ owner' = [owner EXCEPT ![2] = 0]
      BY <1>0, <1>5, <2>2 DEF Resettable, Moved, Taken, Freed, TStates
    <2> QED
      BY <1>5, <2>1, <2>2 DEF JoinTest
  <1>6. CASE a \in Cpus /\ (ClaimRun(a) \/ Validate(a) \/ SetRunning(a) \/ ResultReady(a) \/ ResultThreadExit(a))
    <2>1. /\ owner' = owner /\ job[a].th \in Threads
          /\ \/ tstate' = tstate
             \/ /\ tstate[job[a].th] # "UNUSED"
                /\ \E v \in {"READY", "RUNNING", "ZOMBIE"} : tstate' = [tstate EXCEPT ![job[a].th] = v]
      <3>1. CASE Validate(a) \/ SetRunning(a)
        BY <1>0, <1>6, <3>1 DEF Validate, SetRunning, Unclaim
      <3>2. CASE ResultThreadExit(a)
        BY <1>0, <1>6, <3>2 DEF ResultThreadExit, Runs, Kept, Resolved
      <3> QED
        BY <1>0, <1>6, <3>1, <3>2 DEF ClaimRun, ResultReady
    <2> QED
      BY <1>0, <2>1 DEF Moved, Taken, Freed, TStates
  <1>7. CASE a \in Cpus /\ (JoinBlock(a) \/ WakeJoiner(a))
    <2>1. /\ owner' = owner
          /\ \/ tstate' = tstate
             \/ /\ tstate[1] # "UNUSED"
                /\ \E v \in {"READY", "BLOCKED"} : tstate' = [tstate EXCEPT ![1] = v]
      <3>1. CASE JoinBlock(a)
        <4>1. job[a].th = 1 /\ tstate[1] # "UNUSED"
          <5>1. at[a] = "join_block"
            BY <3>1 DEF JoinBlock
          <5>2. at[a] \in OnStack \ {"running"} /\ at[a] \in Resolved
            BY <5>1 DEF OnStack, Resolved
          <5> QED
            BY <1>7, <5>2 DEF Runners, Kept
        <4> QED
          BY <3>1, <4>1 DEF JoinBlock
      <3>2. CASE WakeJoiner(a)
        BY <3>2 DEF WakeJoiner, JoinerWoken
      <3> QED
        BY <1>7, <3>1, <3>2
    <2> QED
      BY <1>0, <2>1 DEF Moved, Taken, Freed, TStates
  <1>8. CASE a \in Cpus /\ SpawnWake(a)
    <2>1. /\ owner' = owner
          /\ \/ tstate' = tstate
             \/ tstate[job[a].slot] = "BLOCKED" /\ tstate' = [tstate EXCEPT ![job[a].slot] = "READY"]
      BY <1>8 DEF SpawnWake
    <2> QED
      BY <1>0, <2>1 DEF Moved, Taken, Freed, TStates
  <1> QED
    BY <1>1, <1>2, <1>3, <1>4, <1>5, <1>6, <1>7, <1>8 DEF ThreadStep

-----------------------------------------------------------------------------
(* Which steps touch which variable. *)

\* The slot's pid changes only when it is claimed for a spawn or reset by a reap.
LEMMA PidFrame ==
    ASSUME NEW a \in Actors, Step(a)
    PROVE  pid' = pid \/ (a = Collector /\ SpawnClaim) \/ ReapReset(a)
  BY DEF Step, CollectorStep, DispatchStep, ExitStep, ReapStep, slotVars, threadVars, waitVars,
     histVars, ResetSlot, Unclaim, Return, SpawnPublish, SpawnFails, Kill, Wait, WaitTest,
     WaitStatus, WaitBlock, WaitTarget, WaitResume, Pick, ClaimSlot, Resolve, ClaimRun, Validate,
     SetRunning, ExitProcess, SpawnThread, TakeThreadSlot, SpawnCount, SpawnWake, SpawnReap,
     JoinTest, JoinArm, JoinBlock, ResultDropped, ResultReady, ResultExit, ResultThreadExit,
     WakeJoiner, CountOut, LastTest, Release, Retry, MarkStatus, MarkZombie, MarkThreads, MarkWake,
     TryAutoReap, ReapActive, ReapRequest, ReapClaim, ReapSlot, ReapPass, ReapDead

\* The slot's state changes in the steps of a spawn, an exit mark and a reap.
LEMMA StateFrame ==
    ASSUME NEW a \in Actors, Step(a)
    PROVE  state' = state \/ (a = Collector /\ (SpawnClaim \/ SpawnPublish)) \/ MarkZombie(a) \/
       ReapClaim(a) \/ ReapDead(a)
  BY DEF Step, CollectorStep, DispatchStep, ExitStep, ReapStep, slotVars, threadVars, waitVars,
     histVars, ResetSlot, Unclaim, Return, SpawnFails, Kill, Wait, WaitTest, WaitStatus, WaitBlock,
     WaitTarget, WaitResume, Pick, ClaimSlot, Resolve, ClaimRun, Validate, SetRunning, ExitProcess,
     SpawnThread, TakeThreadSlot, SpawnCount, SpawnWake, SpawnReap, JoinTest, JoinArm, JoinBlock,
     ResultDropped, ResultReady, ResultExit, ResultThreadExit, WakeJoiner, CountOut, LastTest,
     Release, Retry, MarkStatus, MarkThreads, MarkWake, TryAutoReap, ReapActive, ReapRequest,
     ReapSlot, ReapPass, ReapReset

\* exiting is set by an exit mark and cleared by a spawn or a reap.
LEMMA ExitingFrame ==
    ASSUME NEW a \in Actors, Step(a)
    PROVE  exiting' = exiting \/ (a = Collector /\ SpawnClaim) \/ MarkStatus(a) \/ ReapReset(a)
  BY DEF Step, CollectorStep, DispatchStep, ExitStep, ReapStep, slotVars, threadVars, waitVars,
     histVars, ResetSlot, Unclaim, Return, SpawnPublish, SpawnFails, Kill, Wait, WaitTest,
     WaitStatus, WaitBlock, WaitTarget, WaitResume, Pick, ClaimSlot, Resolve, ClaimRun, Validate,
     SetRunning, ExitProcess, SpawnThread, TakeThreadSlot, SpawnCount, SpawnWake, SpawnReap,
     JoinTest, JoinArm, JoinBlock, ResultDropped, ResultReady, ResultExit, ResultThreadExit,
     WakeJoiner, CountOut, LastTest, Release, Retry, MarkZombie, MarkThreads, MarkWake, TryAutoReap,
     ReapActive, ReapRequest, ReapClaim, ReapSlot, ReapPass, ReapDead

\* The exit status is stored by an exit or a kill and cleared by a spawn or a reap.
LEMMA StatusFrame ==
    ASSUME NEW a \in Actors, Step(a)
    PROVE  exit_status' = exit_status \/ (a = Collector /\ SpawnClaim) \/ MarkStatus(a) \/
       ReapReset(a) \/ (a \in Cpus /\ ExitProcess(a))
  BY DEF Step, CollectorStep, DispatchStep, ExitStep, ReapStep, slotVars, threadVars, waitVars,
     histVars, ResetSlot, Unclaim, Return, SpawnPublish, SpawnFails, Kill, Wait, WaitTest,
     WaitStatus, WaitBlock, WaitTarget, WaitResume, Pick, ClaimSlot, Resolve, ClaimRun, Validate,
     SetRunning, SpawnThread, TakeThreadSlot, SpawnCount, SpawnWake, SpawnReap, JoinTest, JoinArm,
     JoinBlock, ResultDropped, ResultReady, ResultExit, ResultThreadExit, WakeJoiner, CountOut,
     LastTest, Release, Retry, MarkZombie, MarkThreads, MarkWake, TryAutoReap, ReapActive,
     ReapRequest, ReapClaim, ReapSlot, ReapPass, ReapDead

\* The recorded statuses grow when an exit or a kill stores one.
LEMMA WroteFrame ==
    ASSUME NEW a \in Actors, Step(a)
    PROVE  wrote' = wrote \/ (a = Collector /\ SpawnClaim) \/ MarkStatus(a) \/ (a \in Cpus /\
       ExitProcess(a))
  BY DEF Step, CollectorStep, DispatchStep, ExitStep, ReapStep, slotVars, threadVars, waitVars,
     histVars, ResetSlot, Unclaim, Return, SpawnPublish, SpawnFails, Kill, Wait, WaitTest,
     WaitStatus, WaitBlock, WaitTarget, WaitResume, Pick, ClaimSlot, Resolve, ClaimRun, Validate,
     SetRunning, SpawnThread, TakeThreadSlot, SpawnCount, SpawnWake, SpawnReap, JoinTest, JoinArm,
     JoinBlock, ResultDropped, ResultReady, ResultExit, ResultThreadExit, WakeJoiner, CountOut,
     LastTest, Release, Retry, MarkZombie, MarkThreads, MarkWake, TryAutoReap, ReapActive,
     ReapRequest, ReapClaim, ReapSlot, ReapPass, ReapReset, ReapDead

\* A reap is requested by a refused one, and taken up by a dispatch or a reset.
LEMMA RequestFrame ==
    ASSUME NEW a \in Actors, Step(a)
    PROVE  reap_requested' = reap_requested \/ ReapRequest(a) \/ ReapReset(a) \/ (a \in Cpus /\
       Retry(a))
  BY DEF Step, CollectorStep, DispatchStep, ExitStep, ReapStep, slotVars, threadVars, waitVars,
     histVars, ResetSlot, Unclaim, Return, SpawnClaim, SpawnPublish, SpawnFails, Kill, Wait,
     WaitTest, WaitStatus, WaitBlock, WaitTarget, WaitResume, Pick, ClaimSlot, Resolve, ClaimRun,
     Validate, SetRunning, ExitProcess, SpawnThread, TakeThreadSlot, SpawnCount, SpawnWake,
     SpawnReap, JoinTest, JoinArm, JoinBlock, ResultDropped, ResultReady, ResultExit,
     ResultThreadExit, WakeJoiner, CountOut, LastTest, Release, MarkStatus, MarkZombie, MarkThreads,
     MarkWake, TryAutoReap, ReapActive, ReapClaim, ReapSlot, ReapPass, ReapDead

\* auto_reap is set at publication and cleared by a reap.
LEMMA AutoReapFrame ==
    ASSUME NEW a \in Actors, Step(a)
    PROVE  auto_reap' = auto_reap \/ (a = Collector /\ SpawnPublish) \/ ReapReset(a)
  BY DEF Step, CollectorStep, DispatchStep, ExitStep, ReapStep, slotVars, threadVars, waitVars,
     histVars, ResetSlot, Unclaim, Return, SpawnClaim, SpawnFails, Kill, Wait, WaitTest, WaitStatus,
     WaitBlock, WaitTarget, WaitResume, Pick, ClaimSlot, Resolve, ClaimRun, Validate, SetRunning,
     ExitProcess, SpawnThread, TakeThreadSlot, SpawnCount, SpawnWake, SpawnReap, JoinTest, JoinArm,
     JoinBlock, ResultDropped, ResultReady, ResultExit, ResultThreadExit, WakeJoiner, CountOut,
     LastTest, Release, Retry, MarkStatus, MarkZombie, MarkThreads, MarkWake, TryAutoReap,
     ReapActive, ReapRequest, ReapClaim, ReapSlot, ReapPass, ReapDead

\* The count changes when a thread is added or exits, or the process is marked or reset.
LEMMA CountFrame ==
    ASSUME NEW a \in Actors, Step(a)
    PROVE  live_threads' = live_threads \/ (a = Collector /\ SpawnPublish) \/ MarkThreads(a) \/
       ReapReset(a) \/ (a \in Cpus /\ (SpawnCount(a) \/ SpawnWake(a) \/ CountOut(a)))
  BY DEF Step, CollectorStep, DispatchStep, ExitStep, ReapStep, slotVars, threadVars, waitVars,
     histVars, ResetSlot, Unclaim, Return, SpawnClaim, SpawnFails, Kill, Wait, WaitTest, WaitStatus,
     WaitBlock, WaitTarget, WaitResume, Pick, ClaimSlot, Resolve, ClaimRun, Validate, SetRunning,
     ExitProcess, SpawnThread, TakeThreadSlot, SpawnReap, JoinTest, JoinArm, JoinBlock,
     ResultDropped, ResultReady, ResultExit, ResultThreadExit, WakeJoiner, LastTest, Release, Retry,
     MarkStatus, MarkZombie, MarkWake, TryAutoReap, ReapActive, ReapRequest, ReapClaim, ReapSlot,
     ReapPass, ReapDead

\* A pid is drawn only by a spawn.
LEMMA NextPidFrame ==
    ASSUME NEW a \in Actors, Step(a)
    PROVE  next_pid' = next_pid \/ (a = Collector /\ SpawnClaim)
  BY DEF Step, CollectorStep, DispatchStep, ExitStep, ReapStep, slotVars, threadVars, waitVars,
     histVars, ResetSlot, Unclaim, Return, SpawnPublish, SpawnFails, Kill, Wait, WaitTest,
     WaitStatus, WaitBlock, WaitTarget, WaitResume, Pick, ClaimSlot, Resolve, ClaimRun, Validate,
     SetRunning, ExitProcess, SpawnThread, TakeThreadSlot, SpawnCount, SpawnWake, SpawnReap,
     JoinTest, JoinArm, JoinBlock, ResultDropped, ResultReady, ResultExit, ResultThreadExit,
     WakeJoiner, CountOut, LastTest, Release, Retry, MarkStatus, MarkZombie, MarkThreads, MarkWake,
     TryAutoReap, ReapActive, ReapRequest, ReapClaim, ReapSlot, ReapPass, ReapReset, ReapDead

\* A joiner is registered by a join and dropped by an exit, a join or a reap.
LEMMA JoinWaiterFrame ==
    ASSUME NEW a \in Actors, Step(a)
    PROVE  join_waiter' = join_waiter \/ ReapSlot(a) \/ (a \in Cpus /\ (SpawnReap(a) \/ JoinTest(a)
       \/ JoinArm(a) \/ WakeJoiner(a)))
  BY DEF Step, CollectorStep, DispatchStep, ExitStep, ReapStep, slotVars, threadVars, waitVars,
     histVars, ResetSlot, Unclaim, Return, SpawnClaim, SpawnPublish, SpawnFails, Kill, Wait,
     WaitTest, WaitStatus, WaitBlock, WaitTarget, WaitResume, Pick, ClaimSlot, Resolve, ClaimRun,
     Validate, SetRunning, ExitProcess, SpawnThread, TakeThreadSlot, SpawnCount, SpawnWake,
     JoinBlock, ResultDropped, ResultReady, ResultExit, ResultThreadExit, CountOut, LastTest,
     Release, Retry, MarkStatus, MarkZombie, MarkThreads, MarkWake, TryAutoReap, ReapActive,
     ReapRequest, ReapClaim, ReapPass, ReapReset, ReapDead

\* A thread is inside a join from its arming to its last test.
LEMMA JoiningFrame ==
    ASSUME NEW a \in Actors, Step(a)
    PROVE  joining' = joining \/ ReapSlot(a) \/ (a \in Cpus /\ (SpawnReap(a) \/ JoinTest(a) \/
       JoinArm(a)))
  BY DEF Step, CollectorStep, DispatchStep, ExitStep, ReapStep, slotVars, threadVars, waitVars,
     histVars, ResetSlot, Unclaim, Return, SpawnClaim, SpawnPublish, SpawnFails, Kill, Wait,
     WaitTest, WaitStatus, WaitBlock, WaitTarget, WaitResume, Pick, ClaimSlot, Resolve, ClaimRun,
     Validate, SetRunning, ExitProcess, SpawnThread, TakeThreadSlot, SpawnCount, SpawnWake,
     JoinBlock, ResultDropped, ResultReady, ResultExit, ResultThreadExit, WakeJoiner, CountOut,
     LastTest, Release, Retry, MarkStatus, MarkZombie, MarkThreads, MarkWake, TryAutoReap,
     ReapActive, ReapRequest, ReapClaim, ReapPass, ReapReset, ReapDead

\* The parent's state changes in its own wait and when it is woken.
LEMMA WaitStateFrame ==
    ASSUME NEW a \in Actors, Step(a)
    PROVE  wait_state' = wait_state \/ (a = Collector /\ (WaitBlock \/ WaitResume)) \/ MarkWake(a)
  BY DEF Step, CollectorStep, DispatchStep, ExitStep, ReapStep, slotVars, threadVars, waitVars,
     histVars, ResetSlot, Unclaim, Return, SpawnClaim, SpawnPublish, SpawnFails, Kill, Wait,
     WaitTest, WaitStatus, WaitTarget, Pick, ClaimSlot, Resolve, ClaimRun, Validate, SetRunning,
     ExitProcess, SpawnThread, TakeThreadSlot, SpawnCount, SpawnWake, SpawnReap, JoinTest, JoinArm,
     JoinBlock, ResultDropped, ResultReady, ResultExit, ResultThreadExit, WakeJoiner, CountOut,
     LastTest, Release, Retry, MarkStatus, MarkZombie, MarkThreads, TryAutoReap, ReapActive,
     ReapRequest, ReapClaim, ReapSlot, ReapPass, ReapReset, ReapDead

\* The parent's registration is stored by its wait and cleared by the wake.
LEMMA WaitTargetFrame ==
    ASSUME NEW a \in Actors, Step(a)
    PROVE  wait_target' = wait_target \/ (a = Collector /\ WaitTarget) \/ MarkWake(a)
  BY DEF Step, CollectorStep, DispatchStep, ExitStep, ReapStep, slotVars, threadVars, waitVars,
     histVars, ResetSlot, Unclaim, Return, SpawnClaim, SpawnPublish, SpawnFails, Kill, Wait,
     WaitTest, WaitStatus, WaitBlock, WaitResume, Pick, ClaimSlot, Resolve, ClaimRun, Validate,
     SetRunning, ExitProcess, SpawnThread, TakeThreadSlot, SpawnCount, SpawnWake, SpawnReap,
     JoinTest, JoinArm, JoinBlock, ResultDropped, ResultReady, ResultExit, ResultThreadExit,
     WakeJoiner, CountOut, LastTest, Release, Retry, MarkStatus, MarkZombie, MarkThreads,
     TryAutoReap, ReapActive, ReapRequest, ReapClaim, ReapSlot, ReapPass, ReapReset, ReapDead

\* What came too late is noted at registrations and requests.
LEMMA LateFrame ==
    ASSUME NEW a \in Actors, Step(a)
    PROVE  late' = late \/ (a = Collector /\ (SpawnClaim \/ WaitTarget)) \/ ReapRequest(a) \/ (a \in
       Cpus /\ (JoinArm(a) \/ JoinBlock(a)))
  BY DEF Step, CollectorStep, DispatchStep, ExitStep, ReapStep, slotVars, threadVars, waitVars,
     histVars, ResetSlot, Unclaim, Return, SpawnPublish, SpawnFails, Kill, Wait, WaitTest,
     WaitStatus, WaitBlock, WaitResume, Pick, ClaimSlot, Resolve, ClaimRun, Validate, SetRunning,
     ExitProcess, SpawnThread, TakeThreadSlot, SpawnCount, SpawnWake, SpawnReap, JoinTest,
     ResultDropped, ResultReady, ResultExit, ResultThreadExit, WakeJoiner, CountOut, LastTest,
     Release, Retry, MarkStatus, MarkZombie, MarkThreads, MarkWake, TryAutoReap, ReapActive,
     ReapClaim, ReapSlot, ReapPass, ReapReset, ReapDead

\* Only a reap that gives up leaves threads behind.
LEMMA LeftoversFrame ==
    ASSUME NEW a \in Actors, Step(a)
    PROVE  leftovers' = leftovers \/ ReapPass(a)
  BY DEF Step, CollectorStep, DispatchStep, ExitStep, ReapStep, slotVars, threadVars, waitVars,
     histVars, ResetSlot, Unclaim, Return, SpawnClaim, SpawnPublish, SpawnFails, Kill, Wait,
     WaitTest, WaitStatus, WaitBlock, WaitTarget, WaitResume, Pick, ClaimSlot, Resolve, ClaimRun,
     Validate, SetRunning, ExitProcess, SpawnThread, TakeThreadSlot, SpawnCount, SpawnWake,
     SpawnReap, JoinTest, JoinArm, JoinBlock, ResultDropped, ResultReady, ResultExit,
     ResultThreadExit, WakeJoiner, CountOut, LastTest, Release, Retry, MarkStatus, MarkZombie,
     MarkThreads, MarkWake, TryAutoReap, ReapActive, ReapRequest, ReapClaim, ReapSlot, ReapReset,
     ReapDead

-----------------------------------------------------------------------------
(* The process in the slot. *)

\* The pid changes only while no thread slot is in use.
LEMMA PidChanges ==
    ASSUME Owned, Token, NEW a \in Actors, Step(a), pid' # pid
    PROVE  /\ \A th \in Threads : tstate[th] = "UNUSED"
           /\ (a = Collector /\ SpawnClaim) \/ ReapReset(a)
           /\ tstate' = tstate /\ owner' = owner
  <1>1. CASE a = Collector /\ SpawnClaim
    BY <1>1 DEF SpawnClaim, Owned, threadVars
  <1>2. CASE ReapReset(a)
    BY <1>2 DEF ReapReset, Token, threadVars
  <1> QED
    BY <1>1, <1>2, PidFrame

\* Threads in use, and what a step leaves of them.
LEMMA ThreadMoves ==
    ASSUME TypeOK, Kept, Owned, Runners, NEW a \in Actors, Step(a)
    PROVE  /\ \A th \in Threads : Moved(th) \/ Taken(th) \/ Freed(th)
           /\ \A th \in Threads : Taken(th) =>
                 (a = Collector /\ SpawnPublish) \/ (a \in Cpus /\ TakeThreadSlot(a))
  <1>1. CASE ThreadStep(a)
    BY <1>1, ThreadSteps
  <1>2. CASE ~ThreadStep(a)
    <2>1. tstate' = tstate /\ owner' = owner
      BY <1>2, ThreadsUntouched
    <2>2. \A th \in Threads : Moved(th) /\ ~Taken(th) /\ ~Freed(th)
      BY <2>1 DEF Moved, Taken, Freed
    <2> QED
      BY <2>2
  <1> QED
    BY <1>1, <1>2

\* The thread slots in use belong to the process in the slot.
LEMMA OwnedStep ==
    ASSUME AutoReap = FALSE, TypeOK, Kept, Owned, Token, Runners, NEW a \in Actors, Step(a)
    PROVE  Owned'
  <1>1. \A th \in Threads : IF tstate'[th] = "UNUSED" THEN owner'[th] = 0
                                                     ELSE owner'[th] = pid' /\ pid' # 0
    <2>1. CASE pid' = pid
      BY <2>1, ThreadMoves DEF Owned, Moved, Taken, Freed
    <2>2. CASE pid' # pid
      BY <2>2, PidChanges DEF Owned
    <2> QED
      BY <2>1, <2>2
  <1>2. state' \in {"UNUSED", "DEAD"} => pid' = 0
    <2>1. CASE ReapReset(a)
      BY <2>1 DEF ReapReset
    <2>2. CASE a = Collector /\ SpawnClaim
      BY <2>2 DEF SpawnClaim
    <2>3. CASE ReapDead(a)
      BY <2>3 DEF ReapDead, Token
    <2>4. CASE a = Collector /\ SpawnPublish
      BY <2>4 DEF SpawnPublish
    <2>5. CASE MarkZombie(a) \/ ReapClaim(a)
      BY <2>5 DEF MarkZombie, ReapClaim, Owned
    <2>6. CASE state' = state /\ pid' = pid
      BY <2>6 DEF Owned
    <2> QED
      BY <2>1, <2>2, <2>3, <2>4, <2>5, <2>6, StateFrame, PidFrame
  <1>3. state' \in {"NEW", "LIVE", "ZOMBIE"} => pid' # 0
    <2>1. CASE ReapReset(a)
      <3>1. state = "REAPING"
        BY <2>1 DEF ReapReset, Token, ReapToken, Reaping, ReapOwned
      <3> QED
        BY <2>1, <3>1 DEF ReapReset
    <2>2. CASE a = Collector /\ SpawnClaim
      BY <2>2, MaxPidAssumption DEF SpawnClaim, TypeOK
    <2>3. CASE ReapDead(a)
      BY <2>3 DEF ReapDead
    <2>4. CASE a = Collector /\ SpawnPublish
      BY <2>4 DEF SpawnPublish, SpawnFails, Owned
    <2>5. CASE MarkZombie(a) \/ ReapClaim(a)
      BY <2>5 DEF MarkZombie, ReapClaim, Owned
    <2>6. CASE state' = state /\ pid' = pid
      BY <2>6 DEF Owned
    <2> QED
      BY <2>1, <2>2, <2>3, <2>4, <2>5, <2>6, StateFrame, PidFrame
  <1>4. auto_reap' = FALSE
    BY AutoReapFrame DEF SpawnPublish, SpawnFails, ReapReset, Owned
  <1> QED
    BY <1>1, <1>2, <1>3, <1>4 DEF Owned

\* Only Resolve starts to work for a process.
LEMMA ResolvedStay ==
    ASSUME TypeOK, NEW a \in Cpus, Step(a), at'[a] \in Resolved \cup Exiting, at[a] \notin Resolved \cup Exiting
    PROVE  /\ at[a] = "claimed" /\ at'[a] = "resolved"
           /\ Found(owner[job[a].th]) /\ job'[a].th = job[a].th /\ job'[a].pid = pid
  <1>0. /\ at \in [Actors -> Labels] /\ a \in Actors /\ a # Collector /\ job[a].th \in Threads
        /\ job \in [Actors -> Jobs]
    BY Who DEF TypeOK, Jobs
  <1>1. at[a] \in Holding
    <2>1. CASE ClaimSlot(a)
      BY <1>0, <2>1 DEF ClaimSlot, Return, Goto, Resolved, Exiting
    <2>2. CASE ~ClaimSlot(a)
      <3>1. at'[a] \in Holding
        BY DEF Holding
      <3> QED
        BY <2>2, <3>1, HoldersStay
    <2> QED
      BY <2>1, <2>2
  <1>2. at[a] \in {"claimed", "release"}
    BY <1>1 DEF Holding
  <1>3. Resolve(a) \/ Release(a)
    BY <1>0, <1>2 DEF Step, DispatchStep, ExitStep, ReapStep, Runs, Back, Pick, ClaimSlot, ClaimRun,
       Validate, SetRunning, ExitProcess, SpawnThread, TakeThreadSlot, SpawnCount, SpawnWake, SpawnReap, JoinTest,
       JoinArm, JoinBlock, ResultDropped, ResultReady, ResultExit, ResultThreadExit, WakeJoiner, CountOut, LastTest,
       Retry, MarkStatus, MarkZombie, MarkThreads, MarkWake, TryAutoReap, ReapActive, ReapRequest, ReapClaim,
       ReapSlot, ReapPass, ReapReset, ReapDead
  <1>4. ~Release(a)
    BY <1>0 DEF Release, Return, Goto, Resolved, Exiting
  <1>5. Found(owner[job[a].th]) /\ at[a] = "claimed" /\ at'[a] = "resolved"
    BY <1>0, <1>3, <1>4 DEF Resolve, Goto, Resolved, Exiting
  <1>6. job' = [job EXCEPT ![a].pid = pid]
    BY <1>3, <1>4, <1>5 DEF Resolve
  <1> QED
    BY <1>0, <1>5, <1>6 DEF Jobs

\* A resolved dispatch keeps its process.
LEMMA KeptStep ==
    ASSUME TypeOK, Claims, Kept, Owned, Token, Runners, NEW a \in Actors, Step(a)
    PROVE  Kept'
  <1>0. /\ \A c \in Cpus : c # a => at'[c] = at[c] /\ job'[c] = job[c]
        /\ \A c \in Cpus : job[c].th \in Threads
    BY StepMoves, StepJobs, Who DEF OnlyAt, OnlyJob, TypeOK, Jobs
  <1>1. \A c \in Cpus : at[c] \in Resolved \cup Exiting => dispatch_ref[job[c].th]
    BY DEF Claims, Holding
  <1>2. \A c \in Cpus : at[c] \in Resolved \cup Exiting => pid' = pid /\ tstate'[job[c].th] # "UNUSED"
    BY <1>0, <1>1, PidChanges, ThreadMoves DEF Kept, Moved, Taken, Freed
  <1>3. ASSUME NEW c \in Cpus, at'[c] \in Resolved \cup Exiting
        PROVE  pid' # 0 /\ job'[c].pid = pid' /\ tstate'[job'[c].th] # "UNUSED"
    <2>1. CASE c # a
      BY <1>0, <1>2, <1>3, <2>1 DEF Kept
    <2>2. CASE c = a /\ at[a] \in Resolved \cup Exiting
      <3>1. at[a] # "claimed" /\ at'[a] \notin {"idle", "picked"} /\ a # Collector
        BY <1>3, <2>2, Who DEF Resolved, Exiting
      <3>2. job'[a].th = job[a].th /\ job'[a].pid = job[a].pid
        BY <3>1, StepJobs
      <3> QED
        BY <1>2, <1>3, <2>2, <3>2 DEF Kept
    <2>3. CASE c = a /\ at[a] \notin Resolved \cup Exiting
      <3>1. /\ at[a] = "claimed" /\ Found(owner[job[a].th]) /\ job'[a].th = job[a].th
            /\ job'[a].pid = pid
        BY <1>3, <2>3, ResolvedStay
      <3>2. dispatch_ref[job[a].th]
        BY <1>3, <2>3, <3>1 DEF Claims, Holding
      <3>3. tstate[job[a].th] # "UNUSED" /\ pid # 0
        BY <1>0, <1>3, <2>3, <3>1 DEF Found, Owned
      <3>4. pid' = pid /\ tstate'[job[a].th] # "UNUSED"
        BY <1>0, <1>3, <2>3, <3>2, <3>3, PidChanges, ThreadMoves DEF Moved, Taken, Freed
      <3> QED
        BY <2>3, <3>1, <3>3, <3>4
    <2> QED
      BY <2>1, <2>2, <2>3
  <1> QED
    BY <1>3 DEF Kept

-----------------------------------------------------------------------------
(* The reap and the parent. *)

\* The steps with the reap in hand.
LEMMA TokenSteps ==
    ASSUME NEW a \in Actors, Step(a), at[a] \in ReapToken
    PROVE  \/ ReapActive(a) \/ ReapRequest(a) \/ ReapClaim(a) \/ ReapSlot(a) \/ ReapPass(a) \/ ReapReset(a)
           \/ ReapDead(a)
  <1>1. CASE a = Collector /\ CollectorStep
    BY <1>1 DEF CollectorStep, SpawnClaim, SpawnPublish, SpawnFails, Kill, Wait, WaitTest, WaitStatus, WaitBlock, WaitTarget,
       WaitResume, ReapToken, Reaping
  <1>2. CASE a \in Cpus /\ DispatchStep(a)
    BY <1>2 DEF DispatchStep, Runs, Back, Pick, ClaimSlot, Resolve, ClaimRun, Validate, SetRunning, Unclaim, ExitProcess,
       SpawnThread, TakeThreadSlot, SpawnCount, SpawnWake, SpawnReap, ResetSlot, JoinTest, JoinArm, JoinBlock,
       ResultDropped, ResultReady, ResultExit, ResultThreadExit, WakeJoiner, CountOut, LastTest, Release, Retry,
       ReapToken, Reaping
  <1>3. CASE ExitStep(a) \/ ReapStep(a)
    BY <1>3 DEF ExitStep, ReapStep, MarkStatus, MarkZombie, MarkThreads, MarkWake, TryAutoReap, ReapToken, Reaping
  <1> QED
    BY <1>1, <1>2, <1>3 DEF Step

\* The reap is taken up by the parent that collects, or by a dispatch that finds the
\* request.
LEMMA TokenEnters ==
    ASSUME TypeOK, Owned, NEW a \in Actors, Step(a), at'[a] \in ReapToken, at[a] \notin ReapToken
    PROVE  /\ (a = Collector /\ WaitStatus) \/ (a \in Cpus /\ Retry(a) /\ reap_requested)
           /\ at'[a] = "reap_active"
  <1>0. at \in [Actors -> Labels]
    BY DEF TypeOK
  <1>1. CASE a = Collector /\ CollectorStep
    BY <1>0, <1>1 DEF Goto, CollectorStep, SpawnClaim, SpawnPublish, SpawnFails, Kill, Wait, WaitTest, WaitStatus, WaitBlock, WaitTarget,
       WaitResume, ReapToken, Reaping
  <1>2. CASE a \in Cpus /\ DispatchStep(a)
    <2>1. CASE Retry(a)
      BY <1>0, <1>2, <2>1 DEF Retry, Requested, Return, Goto, ReapToken, Reaping
    <2>2. CASE ~Retry(a)
      BY <1>0, <1>2, <2>2 DEF Goto, Return, DispatchStep, Pick, ClaimSlot, Resolve, ClaimRun, Validate, SetRunning, Unclaim, ExitProcess, SpawnThread, TakeThreadSlot, SpawnCount, SpawnWake, SpawnReap, ResetSlot, JoinTest, JoinArm, JoinBlock, ResultDropped,
         ResultReady, ResultExit, ResultThreadExit, WakeJoiner, CountOut, LastTest, Release, ReapToken, Reaping
    <2> QED
      BY <2>1, <2>2
  <1>3. CASE ExitStep(a)
    BY <1>0, <1>3 DEF ExitStep, MarkStatus, MarkZombie, MarkThreads, MarkWake, Goto, AfterMark, ReapToken,
       Reaping
  <1>4. CASE ReapStep(a)
    <2>1. CASE TryAutoReap(a)
      BY <1>0, <2>1 DEF TryAutoReap, Return, Goto, ReapToken, Reaping, Owned
    <2>2. CASE ~TryAutoReap(a)
      BY <1>4, <2>2 DEF ReapStep, ReapActive, ReapRequest, ReapClaim, ReapSlot, ReapPass, ResetSlot, ReapReset, ReapDead,
         ReapToken, Reaping
    <2> QED
      BY <2>1, <2>2
  <1> QED
    BY <1>1, <1>2, <1>3, <1>4 DEF Step

\* Where the parent's pid changes.
LEMMA TargetMoves ==
    ASSUME TypeOK, Parent, NEW a \in Actors, Step(a)
    PROVE  \/ Target' = Target
           \/ a = Collector /\ SpawnClaim /\ Target' = next_pid
           \/ a = Collector /\ WaitStatus /\ Target' = 0
  <1>1. ~SpawnFails
    <2>1. 1 \in Threads
      BY ThreadsAssumption DEF Threads
    <2> QED
      BY <2>1 DEF SpawnFails, Parent
  <1>2. CASE a = Collector
    BY <1>1, <1>2, StepJobs, Who DEF Target
  <1>3. CASE a # Collector
    BY <1>3, StepJobs, Who DEF Target, OnlyJob
  <1> QED
    BY <1>2, <1>3

\* The state of a process whose reap is under way.
LEMMA StateUnderReap ==
    ASSUME TypeOK, Token, NEW a \in Actors, Step(a), state \in {"ZOMBIE", "REAPING"}
    PROVE  \/ state' = state
           \/ ReapClaim(a) /\ state = "ZOMBIE" /\ state' = "REAPING" /\ at[a] = "reap_claim"
                 /\ at'[a] = "reap_threads"
           \/ ReapDead(a) /\ at[a] = "reap_dead" /\ at'[a] = "idle" /\ state' = "DEAD"
  <1>1. CASE a = Collector /\ (SpawnClaim \/ SpawnPublish)
    BY <1>1 DEF SpawnClaim, SpawnPublish
  <1>2. CASE MarkZombie(a)
    BY <1>2 DEF MarkZombie
  <1>3. CASE ReapClaim(a)
    BY <1>3 DEF ReapClaim, Goto, TypeOK
  <1>4. CASE ReapDead(a)
    BY <1>4 DEF ReapDead, Return, Goto, TypeOK
  <1> QED
    BY <1>1, <1>2, <1>3, <1>4, StateFrame

\* The reap stays in one hand.
LEMMA TokenStep ==
    ASSUME TypeOK, Claims, Kept, Owned, Token, Walks, Parent, Runners, NEW a \in Actors, Step(a),
           leftovers' = FALSE
    PROVE  Token'
  <1>0. /\ \A b \in Actors : b # a => at'[b] = at[b]
        /\ at \in [Actors -> Labels]
    BY StepMoves DEF OnlyAt, TypeOK
  <1>a. {"reap_threads", "reap_reset", "reap_dead"} = ReapOwned /\ ReapOwned \subseteq ReapToken
        /\ {"reap_active", "reap_request", "reap_claim"} \cap ReapOwned = {}
        /\ {"reap_active", "reap_request", "reap_claim"} \subseteq ReapToken
        /\ "wait_status" \notin {"idle"} \cup ReapToken /\ "idle" \notin ReapToken
    BY DEF ReapToken, ReapOwned, Reaping
  <1>1. \A x, y \in Actors : at'[x] \in ReapToken /\ at'[y] \in ReapToken => x = y
    <2>1. ASSUME at'[a] \in ReapToken, NEW b \in Actors, b # a, at[b] \in ReapToken
          PROVE  FALSE
      <3>1. at[a] \notin ReapToken
        BY <2>1 DEF Token
      <3>2. CASE a = Collector /\ WaitStatus
        <4>1. Target # 0
          BY <1>a, <3>2 DEF WaitStatus, Parent
        <4> QED
          BY <2>1, <4>1 DEF Token
      <3>3. CASE reap_requested
        BY <2>1, <3>3 DEF Token
      <3> QED
        BY <2>1, <3>1, <3>2, <3>3, TokenEnters
    <2> QED
      BY <1>0, <2>1 DEF Token
  <1>2. reap_requested' => \A b \in Actors : at'[b] \notin ReapToken
    <2>1. CASE ReapRequest(a)
      <3>1. at[a] \in ReapToken /\ at'[a] = "idle"
        BY <1>0, <1>a, <2>1 DEF ReapRequest, Return, Goto
      <3> QED
        BY <1>0, <1>a, <3>1 DEF Token
    <2>2. CASE reap_requested' = reap_requested
      <3>1. ASSUME reap_requested, at'[a] \in ReapToken
            PROVE  reap_requested' = FALSE
        <4>1. at[a] \notin ReapToken
          BY <3>1 DEF Token
        <4>2. CASE a = Collector /\ WaitStatus
          <5>1. Target # 0
            BY <1>a, <4>2 DEF WaitStatus, Parent
          <5> QED
            BY <3>1, <5>1 DEF Token
        <4>3. CASE a \in Cpus /\ Retry(a) /\ at'[a] = "reap_active"
          BY <1>0, <3>1, <4>3, Who DEF Retry, Requested, Return, Goto
        <4> QED
          BY <3>1, <4>1, <4>2, <4>3, TokenEnters
      <3> QED
        BY <1>0, <2>2, <3>1 DEF Token
    <2>3. CASE ReapReset(a)
      BY <2>3 DEF ReapReset
    <2>4. CASE a \in Cpus /\ Retry(a) /\ reap_requested' # reap_requested
      BY <2>4 DEF Retry, Requested
    <2> QED
      BY <2>1, <2>2, <2>3, <2>4, RequestFrame
  <1>3. reap_requested' => state' = "ZOMBIE" /\ Target' = 0
    <2>1. CASE ReapRequest(a)
      <3>1. state = "ZOMBIE" /\ Target = 0 /\ state' = state
        BY <1>a, <2>1 DEF ReapRequest, Token
      <3>2. Target' = 0
        BY <3>1, TargetMoves DEF SpawnClaim
      <3> QED
        BY <3>1, <3>2
    <2>2. CASE reap_requested /\ reap_requested'
      <3>1. state = "ZOMBIE" /\ Target = 0 /\ at[a] \notin ReapToken
        BY <2>2 DEF Token
      <3>2. state' = state
        BY <1>a, <3>1, StateUnderReap
      <3>3. Target' = 0
        BY <3>1, TargetMoves DEF SpawnClaim
      <3> QED
        BY <3>1, <3>2, <3>3
    <2>3. CASE ReapReset(a) \/ (a \in Cpus /\ Retry(a) /\ reap_requested' # reap_requested)
      BY <2>3 DEF ReapReset, Retry, Requested
    <2> QED
      BY <2>1, <2>2, <2>3, RequestFrame
  <1>4. ASSUME NEW b \in Actors, at'[b] \in ReapToken
        PROVE  state' = (IF at'[b] \in ReapOwned THEN "REAPING" ELSE "ZOMBIE") /\ Target' = 0
    <2>1. CASE b # a
      <3>1. at'[b] = at[b] /\ at[b] \in ReapToken
        BY <1>0, <1>4, <2>1
      <3>2. state \in {"ZOMBIE", "REAPING"} /\ Target = 0 /\ at[a] \notin ReapToken
        BY <2>1, <3>1 DEF Token
      <3>3. state' = state
        BY <1>a, <3>2, StateUnderReap
      <3>4. Target' = 0
        BY <3>2, TargetMoves DEF SpawnClaim
      <3> QED
        BY <3>1, <3>3, <3>4 DEF Token
    <2>2. CASE b = a /\ at[a] \notin ReapToken
      <3>1. at'[a] = "reap_active"
        BY <1>4, <2>2, TokenEnters
      <3>2. state' = state
        <4>1. CASE a = Collector /\ WaitStatus
          BY <4>1 DEF WaitStatus, slotVars
        <4>2. CASE Retry(a)
          BY <4>2 DEF Retry
        <4> QED
          BY <1>4, <2>2, <4>1, <4>2, TokenEnters
      <3>3. state = "ZOMBIE" /\ Target' = 0
        <4>1. CASE a = Collector /\ WaitStatus
          <5>1. state = "ZOMBIE"
            BY <4>1 DEF WaitStatus, Parent
          <5>2. Target' = 0
            BY <4>1, Who DEF WaitStatus, Target, TypeOK
          <5> QED
            BY <5>1, <5>2
        <4>2. CASE Retry(a) /\ reap_requested /\ a \in Cpus
          <5>1. state = "ZOMBIE" /\ Target = 0
            BY <4>2 DEF Token
          <5> QED
            BY <5>1, TargetMoves DEF SpawnClaim
        <4> QED
          BY <1>4, <2>2, <4>1, <4>2, TokenEnters
      <3> QED
        BY <1>a, <2>2, <3>1, <3>2, <3>3
    <2>3. CASE b = a /\ at[a] \in ReapToken
      <3>1. /\ state = (IF at[a] \in ReapOwned THEN "REAPING" ELSE "ZOMBIE") /\ Target = 0
            /\ state \in {"ZOMBIE", "REAPING"}
        BY <2>3 DEF Token
      <3>2. Target' = 0
        BY <3>1, TargetMoves DEF SpawnClaim
      <3>3. CASE ReapClaim(a)
        <4>1. at[a] = "reap_claim" /\ state = "ZOMBIE"
          BY <1>a, <3>1, <3>3 DEF ReapClaim
        <4>2. at'[a] = "reap_threads" /\ state' = "REAPING"
          BY <1>0, <3>3, <4>1 DEF ReapClaim, Goto
        <4> QED
          BY <1>a, <2>3, <3>2, <4>2
      <3>4. CASE ReapDead(a) \/ ReapRequest(a)
        <4>1. at'[a] = "idle"
          BY <1>0, <3>4 DEF ReapDead, ReapRequest, Return, Goto
        <4> QED
          BY <1>4, <1>a, <2>3, <4>1
      <3>5. CASE ReapActive(a)
        <4>1. state' = state /\ at[a] = "reap_active" /\ at'[a] \in {"reap_request", "reap_claim"}
          BY <1>0, <3>5 DEF ReapActive, Goto, slotVars
        <4> QED
          BY <1>a, <2>3, <3>1, <3>2, <4>1
      <3>6. CASE ReapSlot(a) \/ ReapPass(a) \/ ReapReset(a)
        <4>1. state' = state /\ at[a] \in ReapOwned /\ at'[a] \in ReapOwned
          BY <1>0, <1>a, <3>6 DEF ReapSlot, ReapPass, ReapReset, Goto, slotVars
        <4> QED
          BY <2>3, <3>1, <3>2, <4>1
      <3> QED
        BY <2>3, <3>3, <3>4, <3>5, <3>6, TokenSteps
    <2> QED
      BY <2>1, <2>2, <2>3
  <1>5. ASSUME NEW b \in Actors, at'[b] = "reap_reset", NEW th \in Threads
        PROVE  tstate'[th] = "UNUSED"
    <2>1. CASE b # a
      <3>1. at[b] = "reap_reset" /\ state = "REAPING" /\ \A x \in Threads : tstate[x] = "UNUSED"
        BY <1>0, <1>5, <1>a, <2>1 DEF Token
      <3>2. ~Taken(th)
        <4>1. ~(a \in Cpus /\ TakeThreadSlot(a))
          BY <3>1, Who DEF TakeThreadSlot, Kept, Resolved, TypeOK, Jobs
        <4>2. ~SpawnPublish
          BY <3>1 DEF SpawnPublish
        <4> QED
          BY <4>1, <4>2, ThreadMoves
      <3> QED
        BY <3>1, <3>2, ThreadMoves DEF Moved, Freed
    <2>2. CASE b = a /\ at[a] \in ReapToken
      <3>1. ReapPass(a)
        BY <1>0, <1>5, <2>2, TokenSteps DEF ReapActive, ReapRequest, ReapClaim, ReapSlot, ReapReset, ReapDead,
           Return, Goto
      <3>2. at[a] = "reap_threads" /\ job[a].slot = NThreads + 1 /\ tstate' = tstate
        BY <3>1 DEF ReapPass, threadVars
      <3>3. job[a].refused = FALSE
        <4>1. leftovers' = (leftovers \/ job[a].refused)
          BY <1>0, <1>5, <2>2, <3>1, <3>2 DEF ReapPass
        <4>2. job[a].refused \in BOOLEAN
          BY DEF TypeOK, Jobs
        <4> QED
          BY <4>1, <4>2
      <3>4. th < NThreads + 1
        BY ThreadsAssumption DEF Threads
      <3> QED
        BY <3>2, <3>3, <3>4 DEF Walks
    <2>3. CASE b = a /\ at[a] \notin ReapToken
      BY <1>5, <1>a, <2>3, TokenEnters
    <2> QED
      BY <2>1, <2>2, <2>3
  <1>6. ASSUME NEW b \in Actors, at'[b] = "reap_dead"
        PROVE  pid' = 0
    <2>1. CASE b # a
      <3>1. at[b] = "reap_dead" /\ state = "REAPING" /\ pid = 0
        BY <1>0, <1>6, <1>a, <2>1 DEF Token
      <3> QED
        BY <3>1, PidFrame DEF SpawnClaim, ReapReset
    <2>2. CASE b = a /\ at[a] \in ReapToken
      <3>1. ReapReset(a)
        BY <1>0, <1>6, <2>2, TokenSteps DEF ReapActive, ReapRequest, ReapClaim, ReapSlot, ReapPass, ResetSlot, ReapDead,
           Return, Goto
      <3> QED
        BY <3>1 DEF ReapReset
    <2>3. CASE b = a /\ at[a] \notin ReapToken
      BY <1>6, <1>a, <2>3, TokenEnters
    <2> QED
      BY <2>1, <2>2, <2>3
  <1> QED
    BY <1>1, <1>2, <1>3, <1>4, <1>5, <1>6 DEF Token

\* A reap pass frees the slots it walks past, unless it is refused one.
LEMMA WalksStep ==
    ASSUME TypeOK, Kept, Owned, Token, Walks, Quiet, Runners, NEW a \in Actors, Step(a)
    PROVE  Walks'
  <1>0. /\ \A b \in Actors : b # a => at'[b] = at[b] /\ job'[b] = job[b]
        /\ at \in [Actors -> Labels] /\ job \in [Actors -> Jobs] /\ NThreads \in Nat
        /\ tstate \in [Threads -> TStates] /\ \A b \in Actors : job[b].slot \in Walk
    BY StepMoves, StepJobs, ThreadsAssumption DEF OnlyAt, OnlyJob, TypeOK, Jobs, TStates
  <1>1. ASSUME NEW b \in Actors, at'[b] \notin Walking
        PROVE  job'[b].slot = 1
    <2>1. CASE b = a
      BY <1>1, <2>1, StepJobs DEF Walks
    <2>2. CASE b # a
      BY <1>0, <1>1, <2>2 DEF Walks
    <2> QED
      BY <2>1, <2>2
  <1>2. ASSUME NEW b \in Actors, at[b] = "reap_threads", NEW th \in Threads, tstate[th] = "UNUSED"
        PROVE  tstate'[th] = "UNUSED"
    <2>1. state = "REAPING" /\ \A c \in Cpus : at[c] \notin OnStack
      BY <1>2 DEF Token, Quiet, ReapToken, Reaping, ReapOwned
    <2>2. ~SpawnPublish /\ ~(a \in Cpus /\ TakeThreadSlot(a))
      BY <2>1 DEF SpawnPublish, TakeThreadSlot, OnStack
    <2> QED
      BY <1>2, <2>2, ThreadMoves DEF Moved, Freed
  <1>3. ASSUME NEW b \in Actors, at'[b] = "reap_threads", job'[b].refused = FALSE, NEW th \in Threads,
               th < job'[b].slot
        PROVE  tstate'[th] = "UNUSED"
    <2>1. CASE b # a
      BY <1>0, <1>2, <1>3, <2>1 DEF Walks
    <2>2. CASE b = a /\ at[a] # "reap_threads"
      <3>1. at[a] \in ReapToken
        BY <1>3, <2>2, TokenEnters DEF ReapToken, Reaping
      <3>2. ReapClaim(a)
        BY <1>0, <1>3, <2>2, <3>1, TokenSteps DEF ReapActive, ReapRequest, ReapSlot, ReapPass, ReapReset, ReapDead,
           Return, Goto
      <3>3. job' = job
        BY <1>0, <1>3, <2>2, <3>2 DEF ReapClaim, Return, Goto
      <3>4. job[a].slot = 1
        BY <3>2 DEF ReapClaim, Walks, Walking, ReapOwned
      <3> QED
        BY <1>3, <2>2, <3>3, <3>4 DEF Threads
    <2>3. CASE b = a /\ at[a] = "reap_threads"
      <3>1. ReapSlot(a) \/ ReapPass(a)
        BY <2>3, TokenSteps DEF ReapActive, ReapRequest, ReapClaim, ReapReset, ReapDead, ReapToken, Reaping
      <3>2. CASE ReapSlot(a)
        <4> DEFINE x == job[a].slot
                   no == Own(x) /\ ~Resettable(x)
        <4>1. job' = [job EXCEPT ![a].slot = x + 1, ![a].refused = (job[a].refused \/ no)] /\ x \in Threads
          BY <1>0, <3>2 DEF ReapSlot, Walk, Threads
        <4>2. job'[a].slot = x + 1 /\ job'[a].refused = (job[a].refused \/ no)
          BY <1>0, <4>1 DEF Jobs
        <4>3. job[a].refused \in BOOLEAN
          BY <1>0 DEF Jobs
        <4>4. job[a].refused = FALSE /\ ~no
          BY <1>3, <2>3, <4>2, <4>3
        <4>5. CASE th = x
          <5>1. CASE Own(th)
            BY <1>0, <3>2, <4>4, <4>5, <5>1 DEF ReapSlot, ResetSlot
          <5>2. CASE ~Own(th)
            <6>1. tstate[th] = "UNUSED"
              BY <5>2 DEF Own, Owned
            <6> QED
              BY <1>2, <2>3, <6>1
          <5> QED
            BY <5>1, <5>2
        <4>6. CASE th # x
          <5>1. th < x
            BY <1>0, <1>3, <2>3, <4>1, <4>2, <4>6 DEF Threads
          <5> QED
            BY <1>2, <2>3, <4>4, <5>1 DEF Walks
        <4> QED
          BY <4>5, <4>6
      <3>3. CASE ReapPass(a)
        <4>1. job' = [job EXCEPT ![a].slot = 1, ![a].refused = FALSE, ![a].pass = job[a].pass + 1]
          BY <1>0, <1>3, <2>3, <3>3 DEF ReapPass, Goto
        <4>2. job'[a].slot = 1
          BY <1>0, <4>1 DEF Jobs
        <4> QED
          BY <1>3, <2>3, <4>2 DEF Threads
      <3> QED
        BY <3>1, <3>2, <3>3
    <2> QED
      BY <2>1, <2>2, <2>3
  <1> QED
    BY <1>1, <1>3 DEF Walks

\* The parent's own steps.
LEMMA ParentMoves ==
    ASSUME TypeOK, Parent, Step(Collector)
    PROVE  /\ at'[Collector] \notin {"idle"} \cup ReapToken => Target' # 0
           /\ at'[Collector] = "wait_status" => state = "ZOMBIE" /\ state' = state
           /\ at'[Collector] = "publish" => SpawnClaim
  <1>0. at \in [Actors -> Labels] /\ Collector \in Actors /\ MaxPid \in Nat /\ next_pid # 0
    BY Who, MaxPidAssumption DEF TypeOK
  <1>1. CASE SpawnClaim
    BY <1>0, <1>1 DEF SpawnClaim, Goto, Target, TypeOK, Jobs
  <1>2. CASE Kill \/ Wait
    BY <1>0, <1>2 DEF Kill, Wait, Found, Target, Goto
  <1>3. CASE SpawnPublish \/ SpawnFails \/ WaitStatus
    BY <1>0, <1>3 DEF SpawnPublish, SpawnFails, WaitStatus, Goto, ReapToken, Reaping
  <1>4. CASE WaitTest \/ WaitBlock \/ WaitTarget \/ WaitResume
    <2>1. at[Collector] \notin {"idle"} \cup ReapToken
      BY <1>4 DEF WaitTest, WaitBlock, WaitTarget, WaitResume, ReapToken, Reaping
    <2> QED
      BY <1>0, <1>4, <2>1 DEF WaitTest, WaitBlock, WaitTarget, WaitResume, Goto, Target, Parent, slotVars
  <1>5. CASE ExitStep(Collector)
    <2>1. at[Collector] \notin {"idle"} \cup ReapToken
      BY <1>5 DEF ExitStep, MarkStatus, MarkZombie, MarkThreads, MarkWake, ReapToken, Reaping
    <2> QED
      BY <1>0, <1>5, <2>1 DEF ExitStep, MarkStatus, MarkZombie, MarkThreads, MarkWake, AfterMark, Goto,
         Target, Parent
  <1>6. CASE ReapStep(Collector)
    BY <1>0, <1>6 DEF ReapStep, TryAutoReap, ReapActive, ReapRequest, ReapClaim, ReapSlot, ReapPass, ResetSlot, ReapReset,
       ReapDead, Return, Goto, ReapToken, Reaping
  <1> QED
    BY <1>1, <1>2, <1>3, <1>4, <1>5, <1>6, Who DEF Step, CollectorStep

\* While the parent has not collected its process, nobody has the reap.
LEMMA NoReapYet ==
    ASSUME Token, NEW a \in Actors, Target # 0
    PROVE  at[a] \notin ReapToken /\ ~ReapReset(a) /\ ~ReapClaim(a) /\ ~ReapDead(a)
  <1>1. at[a] \notin ReapToken
    BY DEF Token
  <1> QED
    BY <1>1 DEF ReapReset, ReapClaim, ReapDead, ReapToken, Reaping

\* The parent's pid keeps naming the process in the slot.
LEMMA ParentStep ==
    ASSUME TypeOK, Claims, Kept, Owned, Token, Walks, Parent, Runners, NEW a \in Actors, Step(a)
    PROVE  Parent'
  <1>0. /\ a # Collector => at'[Collector] = at[Collector] /\ Target' = Target
        /\ Collector \in Actors
    BY StepMoves, StepJobs, Who DEF OnlyAt, OnlyJob, Target
  <1>1. Target' # 0 => Target' = pid' /\ state' \in {"NEW", "LIVE", "ZOMBIE"}
    <2>1. CASE a = Collector /\ SpawnClaim
      BY <2>1, Who DEF SpawnClaim, Target, TypeOK, Jobs
    <2>2. CASE ~(a = Collector /\ SpawnClaim) /\ Target' # 0
      <3>1. Target' = Target
        BY <2>2, TargetMoves
      <3>2. ~ReapReset(a) /\ ~ReapClaim(a) /\ ~ReapDead(a)
        BY <2>2, <3>1, NoReapYet
      <3>3. pid' = pid
        BY <2>2, <3>2, PidFrame
      <3>4. state' \in {"NEW", "LIVE", "ZOMBIE"}
        BY <2>2, <3>1, <3>2, StateFrame DEF SpawnPublish, SpawnFails, MarkZombie, Parent
      <3> QED
        BY <2>2, <3>1, <3>3, <3>4 DEF Parent
    <2> QED
      BY <2>1, <2>2
  <1>2. at'[Collector] \notin {"idle"} \cup ReapToken => Target' # 0
    <2>1. CASE a = Collector
      BY <2>1, ParentMoves
    <2>2. CASE a # Collector
      BY <1>0, <2>2 DEF Parent
    <2> QED
      BY <2>1, <2>2
  <1>3. at'[Collector] = "wait_status" => state' = "ZOMBIE"
    <2>1. CASE a = Collector
      BY <2>1, ParentMoves
    <2>2. CASE a # Collector /\ at'[Collector] = "wait_status"
      <3>1. state = "ZOMBIE" /\ Target # 0
        BY <1>0, <2>2 DEF Parent, ReapToken, Reaping
      <3> QED
        BY <3>1, NoReapYet, StateUnderReap
    <2> QED
      BY <2>1, <2>2
  <1>4. at'[Collector] = "publish" => state' = "NEW" /\ \A th \in Threads : tstate'[th] = "UNUSED"
    <2>1. CASE a = Collector
      BY <2>1, ParentMoves DEF SpawnClaim, Owned, threadVars
    <2>2. CASE a # Collector /\ at'[Collector] = "publish"
      <3>1. state = "NEW" /\ Target # 0 /\ \A th \in Threads : tstate[th] = "UNUSED"
        BY <1>0, <2>2 DEF Parent, ReapToken, Reaping
      <3>2. a \in Cpus /\ at[a] \notin Resolved \cup Exiting
        BY <2>2, <3>1, Who DEF Kept, TypeOK, Jobs
      <3>3. ~MarkZombie(a) /\ ~TakeThreadSlot(a)
        BY <3>2 DEF MarkZombie, TakeThreadSlot, Resolved, Exiting
      <3>4. state' = "NEW"
        BY <2>2, <3>1, <3>3, NoReapYet, StateFrame
      <3>5. \A th \in Threads : tstate'[th] = "UNUSED"
        BY <2>2, <3>1, <3>3, ThreadMoves DEF Moved, Taken, Freed
      <3> QED
        BY <3>4, <3>5
    <2> QED
      BY <2>1, <2>2
  <1> QED
    BY <1>1, <1>2, <1>3, <1>4 DEF Parent

-----------------------------------------------------------------------------
(* The mark of a process that exits. *)

MarkedAt == {"mark_zombie", "mark_threads", "mark_wake", "reap_threads", "reap_reset"}

\* How an actor comes to the steps past the record of the status.
LEMMA MarkEnters ==
    ASSUME TypeOK, NEW a \in Actors, Step(a), at'[a] \in MarkedAt
    PROVE  \/ MarkStatus(a) /\ exiting' = TRUE
           \/ at[a] \in MarkedAt /\ exiting' = exiting
           \/ ReapClaim(a) /\ state = "ZOMBIE" /\ exiting' = exiting
  <1>0. at \in [Actors -> Labels]
    BY DEF TypeOK
  <1>1. CASE a = Collector /\ CollectorStep
    BY <1>0, <1>1 DEF Goto, MarkedAt, CollectorStep, SpawnClaim, SpawnPublish, SpawnFails, Kill, Wait, WaitTest, WaitStatus,
       WaitBlock, WaitTarget, WaitResume
  <1>2. CASE a \in Cpus /\ DispatchStep(a)
    BY <1>0, <1>2 DEF Goto, Return, MarkedAt, DispatchStep, Pick, ClaimSlot, Resolve, ClaimRun, Validate, SetRunning, Unclaim, ExitProcess, SpawnThread, TakeThreadSlot, SpawnCount, SpawnWake, SpawnReap, ResetSlot, JoinTest, JoinArm, JoinBlock,
       ResultDropped, ResultReady, ResultExit, ResultThreadExit, WakeJoiner, CountOut, LastTest, Release, Retry
  <1>3. CASE ExitStep(a)
    BY <1>0, <1>3 DEF Goto, MarkedAt, ExitStep, MarkStatus, MarkZombie, MarkThreads, MarkWake, AfterMark
  <1>4. CASE ReapStep(a)
    BY <1>0, <1>4 DEF Goto, Return, MarkedAt, ReapStep, TryAutoReap, ReapActive, ReapRequest, ReapClaim,
       ReapSlot, ReapPass, ResetSlot, ReapReset, ReapDead, slotVars
  <1> QED
    BY <1>1, <1>2, <1>3, <1>4 DEF Step

\* An actor that marks the process works for the one in the slot.
LEMMA MarksProcess ==
    ASSUME TypeOK, Kept, Parent, NEW a \in Actors, at[a] \in Exiting
    PROVE  pid # 0 /\ pid \in Pids /\ (a \in Cpus => \E th \in Threads : tstate[th] # "UNUSED")
                   /\ (a = Collector => Target # 0)
  <1>0. pid \in Pids \cup {0} /\ (a \in Cpus => job[a].th \in Threads)
    BY Who DEF TypeOK, Jobs
  <1>1. CASE a \in Cpus
    BY <1>0, <1>1, Who DEF Kept
  <1>2. CASE a = Collector
    BY <1>0, <1>2, Who DEF Parent, Exiting, ReapToken, Reaping
  <1> QED
    BY <1>1, <1>2, Who

\* A marked process has its status recorded.
LEMMA MarkedStep ==
    ASSUME TypeOK, Claims, Kept, Owned, Token, Parent, Marked, NEW a \in Actors, Step(a)
    PROVE  Marked'
  <1>0. /\ \A b \in Actors : b # a => at'[b] = at[b]
        /\ pid \in Pids \cup {0} /\ exiting \in BOOLEAN
    BY StepMoves DEF OnlyAt, TypeOK
  <1>1. exiting' => pid' # 0 /\ exit_status' \in wrote'
    <2>1. CASE (a = Collector /\ SpawnClaim) \/ ReapReset(a)
      BY <2>1 DEF SpawnClaim, ReapReset
    <2>2. CASE MarkStatus(a)
      <3>1. pid # 0 /\ pid \in Pids /\ pid' = pid
        BY <2>2, MarksProcess DEF MarkStatus, Exiting
      <3>2. CASE state \in {"UNUSED", "DEAD"}
        <4>1. exit_status' = exit_status /\ exiting' = exiting /\ wrote' = wrote
          BY <2>2, <3>2 DEF MarkStatus
        <4> QED
          BY <3>1, <4>1, Zenon DEF Marked
      <3>3. CASE state \notin {"UNUSED", "DEAD"} /\ a = Collector
        BY <2>2, <3>1, <3>3 DEF MarkStatus, Recorded
      <3>4. CASE state \notin {"UNUSED", "DEAD"} /\ a # Collector
        <4>1. exit_status' = exit_status /\ wrote' = wrote \cup {exit_status}
          BY <2>2, <3>4 DEF MarkStatus, Recorded
        <4> QED
          BY <3>1, <4>1
      <3> QED
        BY <3>2, <3>3, <3>4
    <2>3. CASE a \in Cpus /\ ExitProcess(a)
      <3>1. pid # 0 /\ pid \in Pids /\ pid' = pid
        BY <1>0, <2>3 DEF ExitProcess, Runs, Back, Kept, Resolved
      <3> QED
        BY <1>0, <2>3, <3>1 DEF ExitProcess
    <2>4. CASE /\ ~(a = Collector /\ SpawnClaim) /\ ~ReapReset(a) /\ ~MarkStatus(a)
               /\ ~(a \in Cpus /\ ExitProcess(a))
      <3>1. pid' = pid /\ exit_status' = exit_status /\ exiting' = exiting /\ wrote' = wrote
        BY <2>4, PidFrame, ExitingFrame, StatusFrame, WroteFrame
      <3> QED
        BY <3>1, Zenon DEF Marked
    <2> QED
      BY <2>1, <2>2, <2>3, <2>4
  <1>2. state' = "ZOMBIE" => exiting'
    <2>1. CASE (a = Collector /\ (SpawnClaim \/ SpawnPublish)) \/ ReapDead(a)
      BY <2>1 DEF SpawnClaim, SpawnPublish, SpawnFails, ReapDead
    <2>2. CASE MarkZombie(a)
      BY <2>2 DEF MarkZombie, Marked
    <2>3. CASE ReapClaim(a)
      BY <2>3 DEF ReapClaim, Marked
    <2>4. CASE MarkStatus(a)
      BY <2>4 DEF MarkStatus, Marked
    <2>5. CASE ReapReset(a)
      BY <2>5 DEF ReapReset, Token, ReapToken, Reaping, ReapOwned
    <2>6. CASE state' = state /\ exiting' = exiting
      BY <2>6 DEF Marked
    <2> QED
      BY <2>1, <2>2, <2>3, <2>4, <2>5, <2>6, StateFrame, ExitingFrame
  <1>3. ASSUME NEW b \in Actors, at'[b] \in MarkedAt
        PROVE  exiting'
    <2>1. CASE b = a
      BY <1>3, <2>1, MarkEnters DEF Marked, MarkedAt
    <2>2. CASE b # a
      <3>1. at[b] \in MarkedAt /\ exiting
        BY <1>0, <1>3, <2>2 DEF Marked, MarkedAt
      <3>2. ~(a = Collector /\ SpawnClaim)
        BY <3>1 DEF SpawnClaim, Marked, Owned
      <3>3. ~ReapReset(a)
        <4>1. SUFFICES ASSUME ReapReset(a) PROVE FALSE
          OBVIOUS
        <4>2. /\ at[a] = "reap_reset" /\ at[a] \in ReapToken /\ Target = 0
              /\ \A th \in Threads : tstate[th] = "UNUSED"
          BY <4>1 DEF ReapReset, Token, ReapToken, Reaping
        <4>3. at[b] \notin ReapToken
          BY <2>2, <4>2 DEF Token
        <4>4. at[b] \in Exiting
          BY <3>1, <4>3 DEF MarkedAt, Exiting, ReapToken, Reaping
        <4> QED
          BY <4>2, <4>4, MarksProcess, Who
      <3> QED
        BY <3>1, <3>2, <3>3, ExitingFrame DEF MarkStatus
    <2> QED
      BY <2>1, <2>2
  <1> QED
    BY <1>1, <1>2, <1>3 DEF Marked, MarkedAt

-----------------------------------------------------------------------------
(* The threads that run. *)

\* A thread starts to run only for a process that is alive and not marked.
LEMMA StackEnters ==
    ASSUME TypeOK, NEW a \in Cpus, Step(a), at'[a] \in OnStack
    PROVE  \/ at[a] \in OnStack
           \/ SetRunning(a) /\ at[a] = "validated" /\ at'[a] = "running" /\ state = "LIVE" /\ ~exiting
                 /\ tstate' = tstate /\ job' = job
  <1>0. at \in [Actors -> Labels] /\ a \in Actors /\ a # Collector
    BY Who DEF TypeOK
  <1>1. CASE DispatchStep(a)
    <2>1. CASE SetRunning(a)
      BY <1>0, <2>1 DEF Validate, SetRunning, Unclaim, Goto, OnStack
    <2>2. CASE ~SetRunning(a)
      BY <1>0, <1>1, <2>2 DEF Goto, OnStack, DispatchStep, Runs, Back, Pick, ClaimSlot, Return, Resolve, ClaimRun,
         Validate, Unclaim, ExitProcess, SpawnThread, TakeThreadSlot, SpawnCount, SpawnWake, SpawnReap, JoinTest,
         JoinArm, JoinBlock, ResultDropped, ResultReady, ResultExit, ResultThreadExit, WakeJoiner, CountOut,
         LastTest, Release, Retry
    <2> QED
      BY <2>1, <2>2
  <1>2. CASE ExitStep(a)
    BY <1>0, <1>2 DEF Goto, OnStack, ExitStep, MarkStatus, MarkZombie, MarkThreads, MarkWake, AfterMark
  <1>3. CASE ReapStep(a)
    BY <1>0, <1>3 DEF Goto, Return, OnStack, ReapStep, TryAutoReap, ReapActive, ReapRequest, ReapClaim,
       ReapSlot, ReapPass, ResetSlot, ReapReset, ReapDead
  <1> QED
    BY <1>0, <1>1, <1>2, <1>3 DEF Step

\* A reap goes ahead only when no thread is on a stack.
LEMMA QuietStep ==
    ASSUME TypeOK, Claims, Kept, Owned, Token, Quiet, NEW a \in Actors, Step(a)
    PROVE  Quiet'
  <1> DEFINE Ahead == {"reap_claim"} \cup ReapOwned
  <1>0. /\ \A b \in Actors : b # a => at'[b] = at[b]
        /\ at \in [Actors -> Labels] /\ Cpus \subseteq Actors
    BY StepMoves, Who DEF OnlyAt, TypeOK
  <1>1. ASSUME NEW c \in Cpus, at'[c] \in OnStack
        PROVE  state' \in {"LIVE", "ZOMBIE"}
    <2>1. CASE at[c] \in OnStack
      <3>1. state \in {"LIVE", "ZOMBIE"} /\ ~ReapClaim(a) /\ ~ReapDead(a)
        BY <2>1 DEF Quiet, ReapClaim, ReapDead, ReapOwned
      <3> QED
        BY <3>1, StateFrame DEF SpawnClaim, SpawnPublish, SpawnFails, MarkZombie
    <2>2. CASE at[c] \notin OnStack
      <3>1. c = a /\ SetRunning(a) /\ state = "LIVE"
        BY <1>0, <1>1, <2>2, StackEnters
      <3> QED
        BY <3>1 DEF Validate, SetRunning, Unclaim, slotVars
    <2> QED
      BY <2>1, <2>2
  <1>2. ASSUME NEW b \in Actors, at'[b] \in Ahead, NEW c \in Cpus, at'[c] \in OnStack
        PROVE  FALSE
    <2>0. at'[b] \in ReapToken /\ Ahead \subseteq ReapToken /\ c # b
      BY <1>2 DEF ReapToken, ReapOwned, Reaping, OnStack
    <2>1. CASE at[b] \in Ahead
      <3>1. at[c] \notin OnStack /\ state # "LIVE"
        BY <2>0, <2>1 DEF Quiet, Token
      <3>2. c = a
        BY <1>0, <1>2, <3>1
      <3> QED
        BY <1>2, <3>1, <3>2, StackEnters
    <2>2. CASE at[b] \notin Ahead
      <3>1. b = a /\ at[a] \in ReapToken
        BY <1>0, <1>2, <2>0, <2>2, TokenEnters DEF ReapOwned
      <3>2. ReapActive(a) /\ ~ActiveDispatch
        <4>1. ReapActive(a)
          BY <1>0, <1>2, <2>2, <3>1, TokenSteps DEF ReapRequest, ReapClaim, ReapSlot, ReapPass, ResetSlot, ReapReset, ReapDead,
             Return, Goto, ReapOwned
        <4> QED
          BY <1>0, <1>2, <3>1, <4>1 DEF ReapActive, Goto, ReapOwned
      <3>3. at[c] \in OnStack
        BY <1>0, <1>2, <2>0, <3>1
      <3>4. at[c] \in Resolved /\ at[c] \in Holding
        BY <3>3 DEF OnStack, Resolved, Holding
      <3>5. /\ job[c].th \in Threads /\ dispatch_ref[job[c].th] /\ tstate[job[c].th] # "UNUSED" /\ pid # 0
            /\ owner[job[c].th] = pid
        BY <1>0, <3>4 DEF Claims, Kept, Owned, TypeOK, Jobs
      <3> QED
        BY <3>2, <3>5 DEF ActiveDispatch, Own
    <2> QED
      BY <2>1, <2>2
  <1> QED
    BY <1>1, <1>2 DEF Quiet

\* A thread that another CPU holds is only touched by a kill, which makes it a ZOMBIE,
\* and by a wake.
LEMMA HeldThread ==
    ASSUME TypeOK, Claims, Runners, NEW a \in Actors, Step(a),
           NEW c \in Cpus, c # a, at[c] \in Holding, tstate[job[c].th] # "UNUSED"
    PROVE  \/ tstate'[job[c].th] = tstate[job[c].th]
           \/ tstate'[job[c].th] = "ZOMBIE"
           \/ tstate[job[c].th] = "BLOCKED" /\ tstate'[job[c].th] = "READY"
  <1> DEFINE th == job[c].th
  <1>0. /\ tstate \in [Threads -> TStates] /\ th \in Threads /\ dispatch_ref[th] /\ 1 \in Threads
        /\ \A b \in Cpus : job[b].th \in Threads
    BY Who, ThreadsAssumption DEF TypeOK, TStates, Claims, Threads, Jobs
  <1>1. a \in Cpus /\ at[a] \in Holding => job[a].th # th
    BY DEF Claims
  <1> HIDE DEF th
  <1>2. CASE ~ThreadStep(a)
    BY <1>2, ThreadsUntouched
  <1>3. CASE a = Collector /\ SpawnPublish
    BY <1>0, <1>3 DEF SpawnPublish, th
  <1>4. CASE MarkThreads(a)
    BY <1>0, <1>4 DEF MarkThreads, th
  <1>5. CASE ReapSlot(a) \/ (a \in Cpus /\ SpawnReap(a))
    BY <1>0, <1>5, SlotReset DEF th
  <1>6. CASE a \in Cpus /\ (ClaimRun(a) \/ Validate(a) \/ SetRunning(a) \/ ResultReady(a) \/ ResultThreadExit(a))
    <2>1. job[a].th # th
      BY <1>1, <1>6 DEF ClaimRun, Validate, SetRunning, ResultReady, ResultThreadExit, Runs, Holding, Resolved
    <2> QED
      BY <1>0, <1>6, <2>1 DEF ClaimRun, Validate, SetRunning, Unclaim, ResultReady, ResultThreadExit, th
  <1>7. CASE a \in Cpus /\ TakeThreadSlot(a)
    BY <1>0, <1>7, SlotTaken DEF th
  <1>8. CASE a \in Cpus /\ JoinTest(a)
    BY <1>0, <1>8 DEF JoinTest, Resettable, th
  <1>9. CASE a \in Cpus /\ JoinBlock(a)
    <2>1. at[a] \in Holding /\ job[a].th = 1
      BY <1>9 DEF JoinBlock, Holding, Resolved, Runners, OnStack
    <2> QED
      BY <1>0, <1>1, <1>9, <2>1 DEF JoinBlock, th
  <1>10. CASE a \in Cpus /\ (WakeJoiner(a) \/ SpawnWake(a))
    BY <1>0, <1>10 DEF WakeJoiner, JoinerWoken, SpawnWake, th
  <1> QED
    BY <1>2, <1>3, <1>4, <1>5, <1>6, <1>7, <1>8, <1>9, <1>10 DEF ThreadStep

\* How a thread comes to run, and what it does to itself meanwhile.
LEMMA ExecutingMoves ==
    ASSUME TypeOK, Claims, Runners, NEW a \in Cpus, Step(a), at'[a] \in Executing
    PROVE  /\ job'[a].th = job[a].th
           /\ \/ tstate'[job[a].th] = "RUNNING"
              \/ at[a] \in Executing /\ tstate'[job[a].th] = tstate[job[a].th]
  <1>0. /\ at \in [Actors -> Labels] /\ a \in Actors /\ a # Collector /\ tstate \in [Threads -> TStates]
        /\ job[a].th \in Threads
    BY Who DEF TypeOK, TStates, Jobs
  <1>a. job'[a].th = job[a].th
    <2>1. at'[a] \notin {"idle", "picked"}
      BY DEF Executing, OnStack
    <2> QED
      BY <1>0, <2>1, StepJobs
  <1>1. CASE ClaimRun(a)
    BY <1>0, <1>1, <1>a DEF ClaimRun, Goto, Executing, OnStack
  <1>2. CASE Validate(a) \/ SetRunning(a)
    BY <1>0, <1>2, <1>a DEF Validate, SetRunning, Unclaim, Goto, Executing, OnStack
  <1>3. CASE TakeThreadSlot(a) \/ SpawnWake(a) \/ SpawnReap(a)
    <2>1. at[a] \in Executing /\ dispatch_ref[job[a].th]
      BY <1>3 DEF TakeThreadSlot, SpawnWake, SpawnReap, Claims, Holding, Resolved, Executing, OnStack
    <2>2. tstate[job[a].th] \in {"RUNNING", "ZOMBIE"}
      BY <2>1 DEF Runners
    <2>3. CASE TakeThreadSlot(a)
      BY <1>0, <1>a, <2>1, <2>2, <2>3, SlotTaken
    <2>4. CASE SpawnReap(a)
      BY <1>0, <1>a, <2>1, <2>4, SlotReset
    <2>5. CASE SpawnWake(a)
      BY <1>0, <1>a, <2>1, <2>2, <2>5 DEF SpawnWake
    <2> QED
      BY <1>3, <2>3, <2>4, <2>5
  <1>4. CASE JoinTest(a)
    <2>1. at[a] \in Executing /\ dispatch_ref[job[a].th]
      BY <1>4 DEF JoinTest, Claims, Holding, Resolved, Executing, OnStack
    <2> QED
      BY <1>0, <1>4, <1>a, <2>1 DEF JoinTest, Resettable
  <1>5. CASE ExitProcess(a) \/ SpawnThread(a) \/ SpawnCount(a) \/ JoinArm(a)
    BY <1>5, <1>a DEF ExitProcess, SpawnThread, SpawnCount, JoinArm, Runs, Executing, OnStack, threadVars
  <1>6. CASE \/ \E x \in Threads : Pick(a, x)
             \/ ClaimSlot(a) \/ Resolve(a) \/ JoinBlock(a) \/ ResultDropped(a) \/ ResultReady(a)
             \/ ResultExit(a) \/ ResultThreadExit(a) \/ WakeJoiner(a) \/ CountOut(a) \/ LastTest(a)
             \/ Release(a) \/ Retry(a)
    BY <1>0, <1>6 DEF Pick, ClaimSlot, Resolve, JoinBlock, ResultDropped, ResultReady, ResultExit,
       ResultThreadExit, WakeJoiner, CountOut, LastTest, Release, Retry, Return, Goto, Executing, OnStack
  <1>7. CASE ExitStep(a) \/ ReapStep(a)
    BY <1>0, <1>7 DEF ExitStep, MarkStatus, MarkZombie, MarkThreads, MarkWake, AfterMark, Goto, Return,
       ReapStep, TryAutoReap, ReapActive, ReapRequest, ReapClaim, ReapSlot, ReapPass, ReapReset, ReapDead,
       Executing, OnStack
  <1> QED
    BY <1>0, <1>1, <1>2, <1>3, <1>4, <1>5, <1>6, <1>7 DEF Step, DispatchStep

\* How a thread comes to a join or to the creation of another: only the main one does.
LEMMA MainThreadCalls ==
    ASSUME TypeOK, Runners, NEW a \in Cpus, Step(a), at'[a] \in OnStack \ {"running"}
    PROVE  job'[a].th = job[a].th /\ job[a].th = 1
  <1>0. /\ at \in [Actors -> Labels] /\ a \in Actors /\ a # Collector /\ job[a].th \in Threads
    BY Who DEF TypeOK, Jobs
  <1>1. at[a] \in OnStack
    BY StackEnters
  <1>2. job'[a].th = job[a].th
    <2>1. at'[a] \notin {"idle", "picked"} /\ at[a] # "claimed"
      BY <1>1 DEF OnStack
    <2> QED
      BY <1>0, <2>1, StepJobs
  <1>3. CASE at[a] = "running"
    BY <1>0, <1>2, <1>3 DEF Step, DispatchStep, ExitStep, ReapStep, Runs, Back, Pick, ClaimSlot, Resolve, ClaimRun,
       Validate, SetRunning, ExitProcess, SpawnThread, TakeThreadSlot, SpawnCount, SpawnWake, SpawnReap, JoinTest,
       JoinArm, JoinBlock, ResultDropped, ResultReady, ResultExit, ResultThreadExit, WakeJoiner, CountOut, LastTest,
       Release, Retry, MarkStatus, MarkZombie, MarkThreads, MarkWake, TryAutoReap, ReapActive, ReapRequest,
       ReapClaim, ReapSlot, ReapPass, ReapReset, ReapDead, Goto, OnStack
  <1>4. CASE at[a] # "running"
    BY <1>1, <1>2, <1>4 DEF Runners
  <1> QED
    BY <1>3, <1>4

\* The states of the threads under a dispatch.
LEMMA RunnersStep ==
    ASSUME TypeOK, Claims, Kept, Runners, NEW a \in Actors, Step(a)
    PROVE  Runners'
  <1>0. /\ \A c \in Cpus : c # a => at'[c] = at[c] /\ job'[c] = job[c]
        /\ at \in [Actors -> Labels] /\ tstate \in [Threads -> TStates] /\ Cpus \subseteq Actors
        /\ \A c \in Cpus : job[c].th \in Threads
    BY StepMoves, StepJobs, Who DEF OnlyAt, OnlyJob, TypeOK, TStates, Jobs
  <1>1. ASSUME NEW c \in Cpus, at'[c] \in Executing
        PROVE  tstate'[job'[c].th] \in {"RUNNING", "ZOMBIE"}
    <2>1. CASE c # a
      <3>1. at[c] \in Executing
        BY <1>0, <1>1, <2>1
      <3>2. at[c] \in Holding /\ tstate[job[c].th] \in {"RUNNING", "ZOMBIE"}
        BY <3>1 DEF Holding, Executing, OnStack, Resolved, Runners
      <3> QED
        BY <1>0, <2>1, <3>2, HeldThread
    <2>2. CASE c = a
      BY <1>1, <2>2, ExecutingMoves DEF Runners
    <2> QED
      BY <2>1, <2>2
  <1>2. ASSUME NEW c \in Cpus, at'[c] = "joiner"
        PROVE  tstate'[job'[c].th] = "ZOMBIE"
    <2>1. CASE c # a
      <3>1. at[c] \in Holding /\ tstate[job[c].th] = "ZOMBIE"
        BY <1>0, <1>2, <2>1 DEF Holding, Resolved, Runners
      <3> QED
        BY <1>0, <2>1, <3>1, HeldThread
    <2>2. CASE c = a
      <3>1. CASE ResultThreadExit(a)
        BY <1>0, <1>2, <2>2, <3>1 DEF ResultThreadExit
      <3>2. CASE ~ResultThreadExit(a)
        BY <1>0, <1>2, <2>2, <3>2, Who DEF Step, DispatchStep, ExitStep, ReapStep, Runs, Back, Pick, ClaimSlot,
           Resolve, ClaimRun, Validate, SetRunning, Unclaim, ExitProcess, SpawnThread, TakeThreadSlot, SpawnCount,
           SpawnWake, SpawnReap, JoinTest, JoinArm, JoinBlock, ResultDropped, ResultReady, ResultExit, WakeJoiner,
           CountOut, LastTest, Release, Retry, MarkStatus, MarkZombie, MarkThreads, MarkWake, AfterMark,
           TryAutoReap, ReapActive, ReapRequest, ReapClaim, ReapSlot, ReapPass, ReapReset, ReapDead, Goto, Return
      <3> QED
        BY <3>1, <3>2
    <2> QED
      BY <2>1, <2>2
  <1>3. ASSUME NEW c \in Cpus, at'[c] \in OnStack \ {"running"}
        PROVE  job'[c].th = 1
    <2>1. CASE c # a
      BY <1>0, <1>3, <2>1 DEF Runners
    <2>2. CASE c = a
      BY <1>3, <2>2, MainThreadCalls
    <2> QED
      BY <2>1, <2>2
  <1>4. ASSUME NEW th \in Threads, joining'[th]
        PROVE  th = 1
    <2>0. joining \in [Threads -> BOOLEAN]
      BY DEF TypeOK
    <2>1. joining' = joining \/ \E x \in Walk : joining' = [joining EXCEPT ![x] = FALSE]
                            \/ joining' = [joining EXCEPT ![1] = TRUE]
      <3>1. job[a].slot \in Walk /\ 1 \in Walk
        BY ThreadsAssumption DEF TypeOK, Jobs, Walk
      <3> QED
        BY <3>1, JoiningFrame DEF ReapSlot, SpawnReap, ResetSlot, JoinTest, JoinArm
    <2>2. joining'[th] => joining[th] \/ th = 1
      <3>1. CASE joining' = joining
        BY <3>1, Zenon
      <3>2. ASSUME NEW x \in Walk, joining' = [joining EXCEPT ![x] = FALSE]
            PROVE  joining'[th] => joining[th]
        BY <2>0, <3>2, Zenon
      <3>3. CASE joining' = [joining EXCEPT ![1] = TRUE]
        BY <2>0, <3>3, Zenon
      <3> QED
        BY <2>1, <3>1, <3>2, <3>3
    <2> QED
      BY <1>4, <2>1, <2>2, Zenon DEF Runners
  <1> QED
    BY <1>1, <1>2, <1>3, <1>4 DEF Runners

-----------------------------------------------------------------------------
(* The wake of a registered parent. *)

\* The parent is parked by its registration only, and leaves when it is READY.
LEMMA ParkedMoves ==
    ASSUME TypeOK, Step(Collector)
    PROVE  /\ at[Collector] = "parked" => WaitResume
           /\ at'[Collector] = "parked" => WaitTarget
           /\ at'[Collector] = "wait_target" => WaitBlock
  <1>0. at \in [Actors -> Labels] /\ Collector \in Actors /\ Collector \notin Cpus
    BY Who DEF TypeOK
  <1>1. CASE CollectorStep
    BY <1>0, <1>1 DEF CollectorStep, SpawnClaim, SpawnPublish, SpawnFails, Kill, Wait, WaitTest, WaitStatus, WaitBlock,
       WaitTarget, WaitResume, Goto
  <1>2. CASE ExitStep(Collector)
    BY <1>0, <1>2 DEF ExitStep, MarkStatus, MarkZombie, MarkThreads, MarkWake, AfterMark, Goto
  <1>3. CASE ReapStep(Collector)
    BY <1>0, <1>3 DEF ReapStep, TryAutoReap, ReapActive, ReapRequest, ReapClaim, ReapSlot, ReapPass, ResetSlot, ReapReset,
       ReapDead, Return, Goto
  <1> QED
    BY <1>0, <1>1, <1>2, <1>3 DEF Step

\* An actor on its way to the wake gets there.
LEMMA WakeComes ==
    ASSUME TypeOK, NEW a \in Actors, Step(a), at[a] \in {"mark_threads", "mark_wake"}
    PROVE  (MarkThreads(a) /\ at'[a] = "mark_wake") \/ MarkWake(a)
  <1>0. at \in [Actors -> Labels]
    BY DEF TypeOK
  <1>1. CASE a = Collector /\ CollectorStep
    BY <1>1 DEF CollectorStep, SpawnClaim, SpawnPublish, SpawnFails, Kill, Wait, WaitTest, WaitStatus, WaitBlock,
       WaitTarget, WaitResume
  <1>2. CASE a \in Cpus /\ DispatchStep(a)
    BY <1>2 DEF DispatchStep, Runs, Back, Pick, ClaimSlot, Resolve, ClaimRun, Validate, SetRunning, Unclaim, ExitProcess,
       SpawnThread, TakeThreadSlot, SpawnCount, SpawnWake, SpawnReap, ResetSlot, JoinTest, JoinArm, JoinBlock,
       ResultDropped, ResultReady, ResultExit, ResultThreadExit, WakeJoiner, CountOut, LastTest, Release, Retry
  <1>3. CASE ExitStep(a)
    BY <1>0, <1>3 DEF ExitStep, MarkStatus, MarkZombie, MarkThreads, Goto
  <1>4. CASE ReapStep(a)
    BY <1>4 DEF ReapStep, TryAutoReap, ReapActive, ReapRequest, ReapClaim, ReapSlot, ReapPass, ResetSlot, ReapReset,
       ReapDead
  <1> QED
    BY <1>1, <1>2, <1>3, <1>4 DEF Step

\* The parent is registered while it is parked, and woken.
LEMMA RegisteredStep ==
    ASSUME TypeOK, Token, Parent, Registered, NEW a \in Actors, Step(a)
    PROVE  Registered'
  <1>0. /\ \A b \in Actors : b # a => at'[b] = at[b]
        /\ at \in [Actors -> Labels] /\ Collector \in Actors
    BY StepMoves, Who DEF OnlyAt, TypeOK
  <1>1. CASE a = Collector /\ WaitTarget
    <2>1. /\ at' = [at EXCEPT ![Collector] = "parked"] /\ wait_target' = Target /\ job' = job
          /\ wait_state = "BLOCKED" /\ wait_state' = wait_state /\ state' = state
          /\ late'.wait = ~(pid = Target /\ state = "LIVE")
      BY <1>1 DEF WaitTarget, Goto, Registered, slotVars, TypeOK
    <2> QED
      BY <1>0, <2>1 DEF Registered, Target
  <1>2. CASE a = Collector /\ WaitBlock
    <2>1. /\ at' = [at EXCEPT ![Collector] = "wait_target"] /\ wait_target = 0 /\ wait_target' = wait_target
          /\ wait_state' = "BLOCKED"
      BY <1>2 DEF WaitBlock, Goto, Registered
    <2> QED
      BY <1>0, <2>1 DEF Registered
  <1>3. CASE a = Collector /\ WaitResume
    <2>1. /\ at' = [at EXCEPT ![Collector] = "wait_test"] /\ wait_target = 0 /\ wait_target' = wait_target
      BY <1>3 DEF WaitResume, Goto, Registered
    <2> QED
      BY <1>0, <2>1 DEF Registered
  <1>4. CASE a = Collector /\ ~WaitTarget /\ ~WaitBlock /\ ~WaitResume
    <2>1. at[Collector] # "parked" /\ at'[Collector] \notin {"parked", "wait_target"}
      BY <1>4, ParkedMoves
    <2>2. wait_target = 0
      BY <2>1 DEF Registered
    <2>3. wait_target' = 0
      BY <1>4, <2>2, WaitTargetFrame DEF MarkWake
    <2> QED
      BY <2>1, <2>3 DEF Registered
  <1>5. CASE a # Collector
    <2>1. /\ at'[Collector] = at[Collector] /\ Target' = Target
          /\ (wait_target' = wait_target /\ wait_state' = wait_state) \/ MarkWake(a)
      BY <1>0, <1>5, TargetMoves, WaitStateFrame, WaitTargetFrame
    <2>2. /\ wait_target' # 0 => wait_target' = wait_target /\ wait_state' = wait_state
          /\ wait_state' # wait_state => wait_state = "BLOCKED" /\ wait_target # 0 /\ wait_state' = "READY"
          /\ wait_state' = wait_state => wait_target' = wait_target
      BY <2>1 DEF MarkWake, HasWaiters
    <2>3. wait_target' # 0 => at'[Collector] = "parked" /\ wait_state' = "BLOCKED"
      BY <2>1, <2>2 DEF Registered
    <2>4. at'[Collector] = "wait_target" => wait_state' = "BLOCKED"
      BY <2>1, <2>2 DEF Registered
    <2>5. at'[Collector] = "parked" /\ wait_state' = "BLOCKED" => wait_target' = Target'
      BY <2>1, <2>2 DEF Registered
    <2>6. ASSUME at'[Collector] = "parked", wait_state' = "BLOCKED", ~late'.wait, state' # "LIVE"
          PROVE  \E b \in Actors : at'[b] \in {"mark_threads", "mark_wake"}
      <3>1. /\ at[Collector] = "parked" /\ wait_state = "BLOCKED" /\ wait_target = Target /\ Target # 0
            /\ Target = pid
        BY <2>1, <2>2, <2>6 DEF Registered, Parent, ReapToken, Reaping
      <3>2. ~late.wait
        BY <1>5, <2>6, LateFrame DEF ReapRequest, JoinArm, JoinBlock, TypeOK
      <3>3. CASE state = "LIVE"
        <4>1. MarkZombie(a)
          BY <1>5, <2>6, <3>1, <3>3, NoReapYet, StateFrame
        <4> QED
          BY <1>0, <4>1 DEF MarkZombie, Goto
      <3>4. CASE state # "LIVE"
        <4>1. PICK b \in Actors : at[b] \in {"mark_threads", "mark_wake"}
          BY <3>1, <3>2, <3>4 DEF Registered
        <4>2. CASE b # a
          BY <1>0, <4>1, <4>2
        <4>3. CASE b = a
          <5>1. ~MarkWake(a)
            BY <2>6, <3>1 DEF MarkWake, HasWaiters
          <5> QED
            BY <4>1, <4>3, <5>1, WakeComes
        <4> QED
          BY <4>2, <4>3
      <3> QED
        BY <3>3, <3>4
    <2> QED
      BY <2>3, <2>4, <2>5, <2>6 DEF Registered
  <1> QED
    BY <1>1, <1>2, <1>3, <1>4, <1>5

-----------------------------------------------------------------------------
(* The wake of a registered joiner. *)

\* A ZOMBIE is only ever reset.
LEMMA ZombieStays ==
    ASSUME TypeOK, NEW a \in Actors, Step(a), NEW x \in Threads, tstate[x] = "ZOMBIE"
    PROVE  tstate'[x] \in {"ZOMBIE", "UNUSED"}
  <1>0. /\ tstate \in [Threads -> TStates] /\ 1 \in Threads
        /\ \A c \in Cpus : job[c].th \in Threads
    BY Who, ThreadsAssumption DEF TypeOK, TStates, Threads, Jobs
  <1>1. CASE ~ThreadStep(a)
    BY <1>1, ThreadsUntouched
  <1>2. CASE a \in Cpus /\ TakeThreadSlot(a)
    BY <1>0, <1>2, SlotTaken
  <1>3. CASE ReapSlot(a) \/ (a \in Cpus /\ SpawnReap(a))
    BY <1>0, <1>3, SlotReset
  <1>4. CASE (a = Collector /\ SpawnPublish) \/ MarkThreads(a)
    BY <1>0, <1>4 DEF SpawnPublish, MarkThreads
  <1>5. CASE a \in Cpus /\ (ClaimRun(a) \/ Validate(a) \/ SetRunning(a) \/ JoinTest(a) \/ JoinBlock(a))
    BY <1>0, <1>5 DEF ClaimRun, Validate, SetRunning, Unclaim, JoinTest, JoinBlock
  <1>6. CASE a \in Cpus /\ (SpawnWake(a) \/ ResultReady(a) \/ ResultThreadExit(a) \/ WakeJoiner(a))
    BY <1>0, <1>6 DEF SpawnWake, ResultReady, ResultThreadExit, WakeJoiner, JoinerWoken
  <1> QED
    BY <1>1, <1>2, <1>3, <1>4, <1>5, <1>6 DEF ThreadStep

\* A thread reports its exit unless a kill or a reap of the process, or the creator that
\* gives up on it, comes first.
LEMMA ReportStays ==
    ASSUME TypeOK, Claims, Kept, Runners, NEW a \in Actors, Step(a), ~MarkThreads(a), ~ReapSlot(a),
           ~(a \in Cpus /\ SpawnReap(a)), NEW x \in Threads, x \in ToReport,
           ~(a \in Cpus /\ WakeJoiner(a) /\ x = job[a].th)
    PROVE  x \in ToReport'
  <1>a. 1 \in Threads /\ at \in [Actors -> Labels] /\ tstate \in [Threads -> TStates]
    BY ThreadsAssumption DEF Threads, TypeOK, TStates
  <1>b. \A c \in Cpus : job[c].th \in Threads
    BY Who DEF TypeOK, Jobs
  <1>0. /\ \A c \in Cpus : c # a => at'[c] = at[c] /\ job'[c] = job[c]
        /\ at \in [Actors -> Labels] /\ tstate \in [Threads -> TStates] /\ 1 \in Threads
        /\ \A c \in Cpus : job[c].th \in Threads
    BY <1>a, <1>b, StepMoves, StepJobs, Who DEF OnlyAt, OnlyJob
  <1>1. SUFFICES \/ tstate'[x] \notin {"UNUSED", "ZOMBIE"}
                 \/ \E c \in Cpus : at'[c] = "joiner" /\ job'[c].th = x
    BY DEF ToReport
  <1>2. CASE \E c \in Cpus : at[c] = "joiner" /\ job[c].th = x
    <2>1. PICK c \in Cpus : at[c] = "joiner" /\ job[c].th = x
      BY <1>2
    <2>2. CASE c # a
      BY <1>0, <2>1, <2>2
    <2>3. CASE c = a
      <3>1. WakeJoiner(a)
        BY <2>1, <2>3, Who DEF Step, DispatchStep, ExitStep, ReapStep, Runs, Back, Pick, ClaimSlot, Resolve,
           ClaimRun, Validate, SetRunning, ExitProcess, SpawnThread, TakeThreadSlot, SpawnCount, SpawnWake,
           JoinTest, JoinArm, JoinBlock, ResultDropped, ResultReady, ResultExit, ResultThreadExit, CountOut,
           LastTest, Release, Retry, MarkStatus, MarkZombie, MarkWake, TryAutoReap, ReapActive, ReapRequest,
           ReapClaim, ReapPass, ReapReset, ReapDead
      <3> QED
        BY <2>1, <2>3, <3>1
    <2> QED
      BY <2>2, <2>3
  <1>3. CASE tstate[x] \notin {"UNUSED", "ZOMBIE"}
    <2>1. CASE ~ThreadStep(a)
      BY <1>3, <2>1, ThreadsUntouched
    <2>2. CASE a = Collector /\ SpawnPublish
      BY <1>0, <1>3, <2>2 DEF SpawnPublish
    <2>3. CASE a \in Cpus /\ (ClaimRun(a) \/ Validate(a) \/ SetRunning(a) \/ ResultReady(a) \/ JoinBlock(a))
      BY <1>0, <1>3, <2>3 DEF ClaimRun, Validate, SetRunning, Unclaim, ResultReady, JoinBlock
    <2>4. CASE a \in Cpus /\ (JoinTest(a) \/ SpawnWake(a) \/ WakeJoiner(a))
      BY <1>0, <1>3, <2>4 DEF JoinTest, SpawnWake, WakeJoiner
    <2>5. CASE a \in Cpus /\ TakeThreadSlot(a)
      BY <1>0, <1>3, <2>5, SlotTaken
    <2>6. CASE a \in Cpus /\ ResultThreadExit(a)
      <3>1. at'[a] = "joiner" /\ job'[a].th = job[a].th
        BY <1>0, <2>6, Who DEF ResultThreadExit, Goto
      <3>2. CASE x = job[a].th
        BY <2>6, <3>1, <3>2
      <3>3. CASE x # job[a].th
        BY <1>0, <1>3, <2>6, <3>3 DEF ResultThreadExit
      <3> QED
        BY <3>2, <3>3
    <2> QED
      BY <2>1, <2>2, <2>3, <2>4, <2>5, <2>6 DEF ThreadStep
  <1> QED
    BY <1>2, <1>3 DEF ToReport

\* The join and the creation of threads are the main thread's, which runs meanwhile.
LEMMA JoinerRuns ==
    ASSUME TypeOK, Claims, Runners, NEW a \in Cpus,
           JoinTest(a) \/ JoinArm(a) \/ JoinBlock(a) \/ TakeThreadSlot(a) \/ SpawnReap(a)
    PROVE  /\ job[a].th = 1 /\ at[a] \in Holding /\ tstate[1] \in {"RUNNING", "ZOMBIE"}
           /\ \A c \in Cpus : at[c] \in Holding /\ job[c].th = 1 => c = a
  <1>0. job[a].th \in Threads
    BY Who DEF TypeOK, Jobs
  <1>1. at[a] \in Holding /\ at[a] \in Executing
    BY DEF JoinTest, JoinArm, JoinBlock, TakeThreadSlot, SpawnReap, Holding, Resolved, Executing, OnStack
  <1>2. job[a].th = 1
    BY <1>0 DEF JoinTest, JoinArm, JoinBlock, TakeThreadSlot, SpawnReap, Runners, OnStack
  <1> QED
    BY <1>1, <1>2 DEF Claims, Runners

\* The main thread blocks in a join only.
LEMMA BlocksInJoin ==
    ASSUME TypeOK, Claims, Runners, NEW a \in Actors, Step(a), 1 \in Threads, tstate'[1] = "BLOCKED"
    PROVE  tstate[1] = "BLOCKED" \/ (a \in Cpus /\ JoinBlock(a))
  <1>0. /\ tstate \in [Threads -> TStates] /\ \A c \in Cpus : job[c].th \in Threads
    BY Who DEF TypeOK, TStates, Jobs
  <1>1. CASE ~ThreadStep(a)
    BY <1>1, ThreadsUntouched
  <1>2. CASE a \in Cpus /\ TakeThreadSlot(a)
    <2>1. tstate[1] \in {"RUNNING", "ZOMBIE"}
      BY <1>2, JoinerRuns
    <2> QED
      BY <1>0, <1>2, <2>1, SlotTaken
  <1>3. CASE ReapSlot(a) \/ (a \in Cpus /\ SpawnReap(a))
    BY <1>0, <1>3, SlotReset
  <1>4. CASE (a = Collector /\ SpawnPublish) \/ MarkThreads(a)
    BY <1>0, <1>4 DEF SpawnPublish, MarkThreads
  <1>5. CASE a \in Cpus /\ (ClaimRun(a) \/ Validate(a) \/ SetRunning(a) \/ JoinTest(a))
    BY <1>0, <1>5 DEF ClaimRun, Validate, SetRunning, Unclaim, JoinTest
  <1>6. CASE a \in Cpus /\ (SpawnWake(a) \/ ResultReady(a) \/ ResultThreadExit(a) \/ WakeJoiner(a))
    BY <1>0, <1>6 DEF SpawnWake, ResultReady, ResultThreadExit, WakeJoiner, JoinerWoken
  <1>7. CASE a \in Cpus /\ JoinBlock(a)
    BY <1>7
  <1> QED
    BY <1>1, <1>2, <1>3, <1>4, <1>5, <1>6, <1>7 DEF ThreadStep

\* The joiner stays registered while its target can exit.
LEMMA JoinArmedStep ==
    ASSUME TypeOK, Claims, Kept, Owned, Token, Marked, Quiet, Runners, JoinArmed,
           NEW a \in Actors, Step(a)
    PROVE  JoinArmed'
  <1>0. /\ \A c \in Cpus : c # a => at'[c] = at[c] /\ job'[c] = job[c]
        /\ at \in [Actors -> Labels] /\ tstate \in [Threads -> TStates] /\ 1 \in Threads
        /\ join_waiter \in [Threads -> BOOLEAN] /\ joining \in [Threads -> BOOLEAN]
        /\ \A c \in Cpus : job[c].th \in Threads
    BY StepMoves, StepJobs, Who, ThreadsAssumption DEF OnlyAt, OnlyJob, TypeOK, TStates, Threads, Jobs
  <1>1. SUFFICES ASSUME 2 \in Threads, state' # "ZOMBIE", ~exiting'
                 PROVE  /\ \A c \in Cpus : at'[c] = "join_block" =>
                              join_waiter'[2] \/ tstate'[2] \in {"UNUSED", "ZOMBIE"}
                        /\ joining'[1] /\ tstate'[1] = "BLOCKED" /\ ~late'.join =>
                              join_waiter'[2] /\ 2 \in ToReport'
    BY DEF JoinArmed, OwnerGone
  <1>2. CASE ReapReset(a)
    <2>1. tstate'[2] = "UNUSED" /\ tstate'[1] = "UNUSED"
      BY <1>0, <1>1, <1>2 DEF ReapReset, Token, threadVars
    <2> QED
      BY <2>1
  <1>3. CASE a = Collector /\ SpawnClaim
    <2>1. tstate'[2] = "UNUSED" /\ tstate'[1] = "UNUSED"
      BY <1>0, <1>1, <1>3 DEF SpawnClaim, Owned, threadVars
    <2> QED
      BY <2>1
  <1>4. CASE ~ReapReset(a) /\ ~(a = Collector /\ SpawnClaim)
    <2>1. ~exiting
      BY <1>1, <1>4, ExitingFrame DEF MarkStatus
    <2>2. state # "ZOMBIE" /\ ~OwnerGone
      BY <2>1 DEF Marked, OwnerGone
    <2>3. ~MarkThreads(a) /\ ~ReapSlot(a)
      BY <2>1 DEF MarkThreads, ReapSlot, Marked
    <2>4. ASSUME NEW c \in Cpus, at'[c] = "join_block"
          PROVE  join_waiter'[2] \/ tstate'[2] \in {"UNUSED", "ZOMBIE"}
      <3>1. CASE c = a
        <4>1. JoinArm(a)
          BY <1>0, <2>4, <3>1, Who DEF Step, DispatchStep, ExitStep, ReapStep, Runs, Back, Pick, ClaimSlot, Resolve,
             ClaimRun, Validate, SetRunning, Unclaim, ExitProcess, SpawnThread, TakeThreadSlot, SpawnCount, SpawnWake,
             SpawnReap, JoinTest, JoinBlock, ResultDropped, ResultReady, ResultExit, ResultThreadExit, WakeJoiner,
             CountOut, LastTest, Release, Retry, MarkStatus, MarkZombie, MarkThreads, MarkWake, AfterMark,
             TryAutoReap, ReapActive, ReapRequest, ReapClaim, ReapSlot, ReapPass, ReapReset, ReapDead, Goto, Return
        <4>2. tstate' = tstate /\ join_waiter'[2] = (tstate[2] # "UNUSED")
          BY <1>0, <1>1, <4>1 DEF JoinArm
        <4> QED
          BY <4>2
      <3>2. CASE c # a
        <4>1. /\ at[c] = "join_block" /\ at[c] \in Holding /\ job[c].th = 1 /\ tstate[1] # "UNUSED"
              /\ join_waiter[2] \/ tstate[2] \in {"UNUSED", "ZOMBIE"}
          BY <1>0, <1>1, <2>2, <2>4, <3>2 DEF JoinArmed, Holding, Resolved, Runners, OnStack, Kept
        <4>2. ~(a \in Cpus /\ (JoinTest(a) \/ JoinArm(a) \/ JoinBlock(a) \/ TakeThreadSlot(a) \/ SpawnReap(a)))
          BY <3>2, <4>1, JoinerRuns
        <4>3. ~(a = Collector /\ SpawnPublish)
          BY <4>1 DEF SpawnPublish
        <4>4. tstate[2] = "UNUSED" => tstate'[2] = "UNUSED"
          BY <1>1, <4>2, <4>3, ThreadMoves DEF Moved, Taken, Freed
        <4>5. tstate[2] = "ZOMBIE" => tstate'[2] \in {"UNUSED", "ZOMBIE"}
          BY <1>1, ZombieStays
        <4>6. CASE a \in Cpus /\ WakeJoiner(a) /\ job[a].th = 2
          <5>1. tstate[2] = "ZOMBIE"
            BY <4>6 DEF WakeJoiner, Runners
          <5> QED
            BY <4>5, <5>1
        <4>7. CASE ~(a \in Cpus /\ WakeJoiner(a) /\ job[a].th = 2)
          <5>1. join_waiter'[2] = join_waiter[2]
            BY <1>0, <1>1, <2>3, <4>2, <4>7, JoinWaiterFrame DEF WakeJoiner
          <5> QED
            BY <4>1, <4>4, <4>5, <5>1
        <4> QED
          BY <4>6, <4>7
      <3> QED
        BY <3>1, <3>2
    <2>5. ASSUME joining'[1], tstate'[1] = "BLOCKED", ~late'.join
          PROVE  join_waiter'[2] /\ 2 \in ToReport'
      <3>1. CASE a \in Cpus /\ JoinBlock(a)
        <4>1. /\ tstate[2] \notin {"UNUSED", "ZOMBIE"} /\ at[a] = "join_block"
              /\ tstate'[2] = tstate[2] /\ join_waiter' = join_waiter
          BY <1>0, <1>1, <2>5, <3>1 DEF JoinBlock, TypeOK
        <4>2. join_waiter[2]
          BY <1>1, <2>2, <3>1, <4>1 DEF JoinArmed
        <4> QED
          BY <1>1, <4>1, <4>2 DEF ToReport
      <3>2. CASE ~(a \in Cpus /\ JoinBlock(a))
        <4>1. tstate[1] = "BLOCKED"
          BY <1>0, <2>5, <3>2, BlocksInJoin
        <4>2. ~(a \in Cpus /\ (JoinTest(a) \/ JoinArm(a) \/ SpawnReap(a)))
          BY <4>1, JoinerRuns
        <4>3. joining[1]
          BY <2>3, <2>5, <4>2, JoiningFrame
        <4>4. ~late.join
          BY <1>4, <2>5, <3>2, <4>2, LateFrame DEF WaitTarget, ReapRequest, TypeOK
        <4>5. join_waiter[2] /\ 2 \in ToReport
          BY <1>1, <2>2, <4>1, <4>3, <4>4 DEF JoinArmed
        <4>6. ~(a \in Cpus /\ WakeJoiner(a) /\ 2 = job[a].th)
          BY <1>0, <2>2, <2>5, <4>1, <4>5 DEF WakeJoiner, JoinerWoken
        <4>7. join_waiter'[2]
          BY <1>0, <1>1, <2>3, <4>2, <4>5, <4>6, JoinWaiterFrame DEF WakeJoiner
        <4>8. 2 \in ToReport'
          BY <1>1, <2>3, <4>2, <4>5, <4>6, ReportStays
        <4> QED
          BY <4>7, <4>8
      <3> QED
        BY <3>1, <3>2
    <2> QED
      BY <2>4, <2>5
  <1> QED
    BY <1>2, <1>3, <1>4

-----------------------------------------------------------------------------
(* The reap that was refused, and the status that was collected. *)

\* A dispatch that works for a process goes on to its release.
LEMMA DispatchGoesOn ==
    ASSUME TypeOK, NEW a \in Cpus, Step(a), at[a] \in Resolved \cup Exiting
    PROVE  at'[a] \in Resolved \cup Exiting \cup {"release"} /\ job'[a].pid = job[a].pid
  <1>0. at \in [Actors -> Labels] /\ a \in Actors /\ a # Collector
    BY Who DEF TypeOK
  <1>1. at'[a] \in Resolved \cup Exiting \cup {"release"}
    <2>1. CASE ExitStep(a)
      BY <1>0, <2>1 DEF ExitStep, MarkStatus, MarkZombie, MarkThreads, MarkWake, AfterMark, Goto, Exiting
    <2>2. CASE ReapStep(a)
      BY <2>2 DEF ReapStep, TryAutoReap, ReapActive, ReapRequest, ReapClaim, ReapSlot, ReapPass, ReapReset, ReapDead,
         Resolved, Exiting
    <2>3. CASE DispatchStep(a)
      <3>1. CASE \/ \E x \in Threads : Pick(a, x)
                 \/ ClaimSlot(a) \/ Resolve(a) \/ Release(a) \/ Retry(a)
        BY <3>1 DEF Pick, ClaimSlot, Resolve, Release, Retry, Resolved, Exiting
      <3>2. CASE ~(\/ \E x \in Threads : Pick(a, x)
                   \/ ClaimSlot(a) \/ Resolve(a) \/ Release(a) \/ Retry(a))
        BY <1>0, <2>3, <3>2 DEF DispatchStep, ClaimRun, Validate, SetRunning, Unclaim, ExitProcess, SpawnThread,
           TakeThreadSlot, SpawnCount, SpawnWake, SpawnReap, JoinTest, JoinArm, JoinBlock, ResultDropped,
           ResultReady, ResultExit, ResultThreadExit, WakeJoiner, CountOut, LastTest, Goto, Resolved, Exiting
      <3> QED
        BY <3>1, <3>2
    <2> QED
      BY <1>0, <2>1, <2>2, <2>3 DEF Step
  <1>2. at'[a] \notin {"idle", "picked"} /\ at[a] # "claimed"
    BY <1>1 DEF Resolved, Exiting
  <1> QED
    BY <1>0, <1>1, <1>2, StepJobs

\* The dispatch that is to retry the reap still is after a step, unless it does.
LEMMA RetryStays ==
    ASSUME TypeOK, Claims, Kept, Owned, Token, Runners, NEW a \in Actors, Step(a), reap_requested, reap_requested',
           NEW c \in Cpus, WillRetry(c)
    PROVE  WillRetry(c)'
  <1>0. /\ \A b \in Cpus : b # a => at'[b] = at[b] /\ job'[b] = job[b]
        /\ at \in [Actors -> Labels] /\ Cpus \subseteq Actors /\ c # Collector
        /\ job[c].th \in Threads
    BY StepMoves, StepJobs, Who DEF OnlyAt, OnlyJob, TypeOK, Jobs
  <1>1. state = "ZOMBIE" /\ pid # 0 /\ at[a] \notin ReapToken
    BY DEF Token, Owned
  <1>2. pid' = pid
    BY <1>1, PidFrame DEF SpawnClaim, ReapReset, ReapToken, Reaping
  <1>3. CASE c # a
    <2>1. CASE at[c] = "claimed" /\ Own(job[c].th)
      <3>1. dispatch_ref[job[c].th]
        BY <2>1 DEF Claims, Holding
      <3>2. tstate'[job[c].th] # "UNUSED" /\ owner'[job[c].th] = pid'
        BY <1>0, <1>2, <2>1, <3>1, ThreadMoves DEF Own, Moved, Taken, Freed
      <3> QED
        BY <1>0, <1>3, <2>1, <3>2 DEF WillRetry, Own
    <2>2. CASE job[c].pid = pid /\ at[c] \in Resolved \cup Exiting \cup {"release", "retry"}
      BY <1>0, <1>2, <1>3, <2>2 DEF WillRetry
    <2> QED
      BY <2>1, <2>2 DEF WillRetry
  <1>4. CASE c = a
    <2>1. CASE at[a] = "claimed" /\ Own(job[a].th)
      <3>1. Found(owner[job[a].th])
        BY <1>1, <2>1 DEF Found, Own
      <3>2. Resolve(a)
        BY <1>0, <1>4, <2>1 DEF Step, DispatchStep, ExitStep, ReapStep, Runs, Back, Pick, ClaimSlot, ClaimRun, Validate,
           SetRunning, ExitProcess, SpawnThread, TakeThreadSlot, SpawnCount, SpawnWake, SpawnReap, JoinTest,
           JoinArm, JoinBlock, ResultDropped, ResultReady, ResultExit, ResultThreadExit, WakeJoiner, CountOut,
           LastTest, Release, Retry, MarkStatus, MarkZombie, MarkThreads, MarkWake, TryAutoReap, ReapActive,
           ReapRequest, ReapClaim, ReapSlot, ReapPass, ReapReset, ReapDead
      <3>3. job'[a].pid = pid /\ at'[a] = "resolved"
        BY <1>0, <1>4, <3>1, <3>2 DEF Resolve, Goto, TypeOK, Jobs
      <3> QED
        BY <1>2, <1>4, <3>3 DEF WillRetry, Resolved
    <2>2. CASE job[a].pid = pid /\ at[a] \in Resolved \cup Exiting
      BY <1>2, <1>4, <2>2, DispatchGoesOn DEF WillRetry
    <2>3. CASE job[a].pid = pid /\ at[a] \in {"release", "retry"}
      <3>1. Release(a) \/ Retry(a)
        BY <1>0, <1>4, <2>3 DEF Step, DispatchStep, ExitStep, ReapStep, Runs, Back, Pick, ClaimSlot, Resolve, ClaimRun,
           Validate, SetRunning, ExitProcess, SpawnThread, TakeThreadSlot, SpawnCount, SpawnWake, SpawnReap, JoinTest,
           JoinArm, JoinBlock, ResultDropped, ResultReady, ResultExit, ResultThreadExit, WakeJoiner, CountOut, LastTest,
           MarkStatus, MarkZombie, MarkThreads, MarkWake, TryAutoReap, ReapActive,
           ReapRequest, ReapClaim, ReapSlot, ReapPass, ReapReset, ReapDead
      <3>2. ~Retry(a)
        BY <1>1, <2>3 DEF Retry, Requested, Found
      <3>3. at'[a] = "retry" /\ job' = job
        BY <1>0, <1>1, <1>4, <2>3, <3>1, <3>2 DEF Release, Goto
      <3> QED
        BY <1>2, <1>4, <2>3, <3>3 DEF WillRetry
    <2> QED
      BY <1>4, <2>1, <2>2, <2>3 DEF WillRetry
  <1> QED
    BY <1>3, <1>4

\* A refused reap has its dispatch to retry it.
LEMMA RetryStep ==
    ASSUME TypeOK, Claims, Kept, Owned, Token, Runners, RefusedReapIsRetried, NEW a \in Actors, Step(a)
    PROVE  RefusedReapIsRetried'
  <1>1. SUFFICES ASSUME reap_requested', state' = "ZOMBIE", ~late'.reap
                 PROVE  \E c \in Cpus : WillRetry(c)'
    BY DEF RefusedReapIsRetried
  <1>2. CASE ReapRequest(a)
    <2>1. PICK c \in Cpus : WillRetry(c)
      BY <1>1, <1>2 DEF ReapRequest, TypeOK
    <2>2. c # a
      BY <1>2, <2>1 DEF ReapRequest, WillRetry, Resolved, Exiting
    <2>3. at'[c] = at[c] /\ job'[c] = job[c]
      BY <2>2, StepMoves, StepJobs, Who DEF OnlyAt, OnlyJob
    <2>4. pid' = pid /\ tstate' = tstate /\ owner' = owner
      BY <1>2 DEF ReapRequest, threadVars
    <2> QED
      BY <2>1, <2>3, <2>4 DEF WillRetry, Own
  <1>3. CASE ~ReapRequest(a)
    <2>1. reap_requested
      BY <1>1, <1>3, RequestFrame DEF ReapReset, Retry
    <2>2. state = "ZOMBIE"
      BY <2>1 DEF Token
    <2>3. ~late.reap
      BY <1>1, <1>3, <2>2, LateFrame DEF SpawnClaim, WaitTarget, JoinArm, JoinBlock, TypeOK
    <2>4. PICK c \in Cpus : WillRetry(c)
      BY <2>1, <2>2, <2>3 DEF RefusedReapIsRetried
    <2> QED
      BY <1>1, <2>1, <2>4, RetryStays
  <1> QED
    BY <1>2, <1>3

-----------------------------------------------------------------------------
(* Types. *)

\* Every variable keeps its type.
LEMMA TypeStep ==
    ASSUME TypeOK, NEW a \in Actors, Step(a)
    PROVE  TypeOK'
  <1>0. 1 \in Threads /\ NThreads \in Nat \ {0} /\ MaxPid \in Nat /\ \A c \in Cpus : job[c].th \in Threads
    BY ThreadsAssumption, MaxPidAssumption, Who DEF Threads, TypeOK, Jobs
  <1>1. /\ state' \in {"UNUSED", "NEW", "LIVE", "ZOMBIE", "REAPING", "DEAD"}
    BY StateFrame DEF TypeOK, SpawnClaim, SpawnPublish, MarkZombie, ReapClaim, ReapDead
  <1>2. pid' \in Pids \cup {0} /\ next_pid' \in 1 .. MaxPid + 1
    <2>1. next_pid \in 1 .. MaxPid + 1 /\ pid \in Pids \cup {0}
      BY DEF TypeOK
    <2>2. CASE a = Collector /\ SpawnClaim
      BY <1>0, <2>1, <2>2 DEF SpawnClaim, Pids
    <2>3. CASE ~(a = Collector /\ SpawnClaim)
      <3>1. next_pid' = next_pid /\ (pid' = pid \/ pid' = 0)
        BY <2>3, PidFrame, NextPidFrame DEF ReapReset
      <3> QED
        BY <2>1, <3>1
    <2> QED
      BY <2>2, <2>3
  <1>3. exit_status' \in Status
    BY StatusFrame DEF TypeOK, SpawnClaim, MarkStatus, Recorded, ReapReset, ExitProcess, Status
  <1>4. exiting' \in BOOLEAN
    BY ExitingFrame DEF TypeOK, SpawnClaim, MarkStatus, ReapReset
  <1>5. auto_reap' \in BOOLEAN
    BY AutoReapFrame, AutoReapAssumption DEF TypeOK, SpawnPublish, ReapReset
  <1>6. reap_requested' \in BOOLEAN
    BY RequestFrame DEF TypeOK, ReapRequest, ReapReset, Retry
  <1>7. live_threads' \in Nat
    <2>0. live_threads \in Nat
      BY DEF TypeOK
    <2>1. CASE (a = Collector /\ SpawnPublish) \/ MarkThreads(a) \/ ReapReset(a)
      BY <1>0, <2>1 DEF SpawnPublish, MarkThreads, ReapReset
    <2>2. CASE a \in Cpus /\ (SpawnCount(a) \/ SpawnWake(a) \/ CountOut(a))
      BY <1>0, <2>0, <2>2 DEF SpawnCount, SpawnWake, CountOut, CountDec
    <2> QED
      BY <2>0, <2>1, <2>2, CountFrame
  <1>8. /\ tstate' \in [Threads -> {"UNUSED", "READY", "RUNNING", "BLOCKED", "ZOMBIE"}]
        /\ owner' \in [Threads -> Pids \cup {0}]
    BY ThreadTypes DEF TStates
  <1>9. dispatch_ref' \in [Threads -> BOOLEAN]
    BY <1>0, RefMoves DEF TypeOK
  <1>10. join_waiter' \in [Threads -> BOOLEAN]
    BY <1>0, JoinWaiterFrame DEF TypeOK, ReapSlot, SpawnReap, ResetSlot, JoinTest, JoinArm, WakeJoiner
  <1>11. joining' \in [Threads -> BOOLEAN]
    BY <1>0, JoiningFrame DEF TypeOK, ReapSlot, SpawnReap, ResetSlot, JoinTest, JoinArm
  <1>12. wait_state' \in {"RUNNING", "BLOCKED", "READY"}
    BY WaitStateFrame DEF TypeOK, WaitBlock, WaitResume, MarkWake
  <1>13. wait_target' \in Pids \cup {0}
    BY WaitTargetFrame, Who DEF TypeOK, WaitTarget, MarkWake, Target, Jobs
  <1>14. at' \in [Actors -> Labels]
    BY StepMoves DEF OnlyAt
  <1>15. job' \in [Actors -> Jobs]
    BY StepJobs
  <1>16. wrote' \in SUBSET Status
    <2>0. wrote \in SUBSET Status /\ exit_status \in Status /\ {"kill", "exit"} \subseteq Status
      BY DEF TypeOK, Status
    <2>1. CASE MarkStatus(a)
      BY <2>0, <2>1 DEF MarkStatus
    <2>2. CASE a \in Cpus /\ ExitProcess(a)
      BY <2>0, <2>2 DEF ExitProcess
    <2>3. CASE a = Collector /\ SpawnClaim
      BY <2>3 DEF SpawnClaim
    <2> QED
      BY <2>0, <2>1, <2>2, <2>3, WroteFrame
  <1>17. leftovers' \in BOOLEAN
    <2>0. leftovers \in BOOLEAN
      BY DEF TypeOK
    <2>1. CASE leftovers' = leftovers
      BY <2>0, <2>1
    <2>2. CASE leftovers' = (leftovers \/ job[a].refused)
      BY <2>2
    <2> QED
      BY <2>1, <2>2, LeftoversFrame DEF ReapPass
  <1>18. late' \in [wait : BOOLEAN, join : BOOLEAN, reap : BOOLEAN]
    <2>0. late \in [wait : BOOLEAN, join : BOOLEAN, reap : BOOLEAN]
      BY DEF TypeOK
    <2>1. CASE a = Collector /\ SpawnClaim
      BY <2>1 DEF SpawnClaim
    <2>2. CASE a = Collector /\ WaitTarget
      BY <2>0, <2>2 DEF WaitTarget
    <2>3. CASE ReapRequest(a)
      <3> DEFINE missed == late.reap \/ \A c \in Cpus : ~WillRetry(c)
      <3>1. late' = [late EXCEPT !.reap = missed]
        BY <2>3 DEF ReapRequest
      <3>2. missed \in BOOLEAN
        OBVIOUS
      <3> HIDE DEF missed
      <3> QED
        BY <2>0, <3>1, <3>2
    <2>4. CASE JoinArm(a)
      BY <2>0, <2>4 DEF JoinArm
    <2>5. CASE JoinBlock(a)
      <3> DEFINE missed == tstate[2] \in {"ZOMBIE", "UNUSED"}
      <3>1. late' = [late EXCEPT !.join = missed]
        BY <2>5 DEF JoinBlock
      <3>2. missed \in BOOLEAN
        OBVIOUS
      <3> HIDE DEF missed
      <3> QED
        BY <2>0, <3>1, <3>2
    <2> QED
      BY <2>0, <2>1, <2>2, <2>3, <2>4, <2>5, LateFrame
  <1> QED
    BY <1>1, <1>2, <1>3, <1>4, <1>5, <1>6, <1>7, <1>8, <1>9, <1>10, <1>11, <1>12, <1>13, <1>14, <1>15,
       <1>16, <1>17, <1>18 DEF TypeOK

-----------------------------------------------------------------------------
(* The inductive invariant and its theorems. *)

\* The invariant holds before the first spawn.
LEMMA InitEstablishes ==
    ASSUME Init
    PROVE  IInv
  <1>0. NThreads \in Nat \ {0} /\ MaxPid \in Nat /\ 1 \in Threads /\ Collector \in Actors /\ Cpus \subseteq Actors
    BY ThreadsAssumption, MaxPidAssumption, Who DEF Threads
  <1>1. /\ at \in [Actors -> Labels] /\ \A a \in Actors : at[a] = "idle"
        /\ Target = 0 /\ \A a \in Actors : job[a].slot = 1
    BY <1>0 DEF Init, Labels, Target, NoJob
  <1>2. TypeOK
    <2>1. job \in [Actors -> Jobs]
      BY FreshJob DEF Init
    <2>2. next_pid \in 1 .. MaxPid + 1 /\ live_threads \in Nat
      BY <1>0 DEF Init
    <2> QED
      BY <1>1, <2>1, <2>2 DEF Init, TypeOK, Status
  <1>3. Claims /\ Kept /\ Quiet /\ Walks
    BY <1>0, <1>1 DEF Claims, Kept, Quiet, Walks, Holding, Resolved, Exiting, OnStack, ReapOwned
  <1>4. Owned
    BY DEF Init, Owned
  <1>5. Token /\ Parent /\ Marked
    BY <1>0, <1>1 DEF Init, Token, Parent, Marked, ReapToken, Reaping
  <1>6. Runners /\ Registered /\ JoinArmed
    BY <1>0, <1>1 DEF Init, Runners, Registered, JoinArmed, Executing, OnStack
  <1>7. RefusedReapIsRetried
    BY DEF Init, RefusedReapIsRetried
  <1> QED
    BY <1>2, <1>3, <1>4, <1>5, <1>6, <1>7 DEF IInv, Safe

\* A reap that has given up stays counted.
LEMMA LeftoversStay ==
    ASSUME TypeOK, NEW a \in Actors, Step(a), leftovers' = FALSE
    PROVE  leftovers = FALSE
  <1>1. leftovers \in BOOLEAN
    BY DEF TypeOK
  <1>2. leftovers' = leftovers \/ leftovers' = (leftovers \/ job[a].refused)
    BY LeftoversFrame DEF ReapPass
  <1> QED
    BY <1>1, <1>2

\* Every step of every actor keeps it.
LEMMA NextPreserves ==
    ASSUME AutoReap = FALSE, IInv, Next
    PROVE  IInv'
  <1>1. PICK a \in Actors : Step(a)
    BY Stepping
  <1>2. TypeOK /\ TypeOK'
    BY <1>1, TypeStep DEF IInv
  <1>3. ASSUME leftovers' = FALSE
        PROVE  Safe'
    <2>1. /\ Claims /\ Kept /\ Owned /\ Token /\ Walks /\ Parent /\ Marked /\ Quiet /\ Runners
          /\ Registered /\ JoinArmed /\ RefusedReapIsRetried
      BY <1>1, <1>2, <1>3, LeftoversStay DEF IInv, Safe
    <2>2. Claims' /\ Kept' /\ Owned'
      BY <1>1, <1>2, <2>1, ClaimsStep, KeptStep, OwnedStep
    <2>3. Token' /\ Walks' /\ Parent' /\ Marked'
      BY <1>1, <1>2, <1>3, <2>1, TokenStep, WalksStep, ParentStep, MarkedStep
    <2>4. Quiet' /\ Runners'
      BY <1>1, <1>2, <2>1, QuietStep, RunnersStep
    <2>5. Registered' /\ JoinArmed'
      BY <1>1, <1>2, <2>1, RegisteredStep, JoinArmedStep
    <2>6. RefusedReapIsRetried'
      BY <1>1, <1>2, <2>1, RetryStep
    <2> QED
      BY <2>2, <2>3, <2>4, <2>5, <2>6 DEF Safe
  <1> QED
    BY <1>2, <1>3 DEF IInv

\* A stuttering step keeps it.
LEMMA StutterPreserves ==
    ASSUME IInv, UNCHANGED vars
    PROVE  IInv'
  BY DEF IInv, Safe, vars, slotVars, threadVars, waitVars, histVars, TypeOK, Claims, Kept, Owned, Token, Target, Parent,
     Walks, Marked, Quiet, Runners, ToReport, Registered, JoinArmed, OwnerGone, RefusedReapIsRetried, WillRetry, Own

\* The conjunction that is preserved by every step of every actor, for processes that
\* their parent collects.
THEOREM Invariance == AutoReap = FALSE => (Spec => []IInv)
  <1> SUFFICES ASSUME AutoReap = FALSE PROVE Spec => []IInv
    OBVIOUS
  <1>1. Init => IInv
    BY InitEstablishes
  <1>2. IInv /\ [Next]_vars => IInv'
    BY NextPreserves, StutterPreserves
  <1> QED
    BY <1>1, <1>2, PTL DEF Spec

\* Every variable keeps its type, whatever is reaped how: live_thread_count does not wrap
\* although an exit, a kill and a spawn that is undone may all count a thread out.
THEOREM TypeCorrect == Spec => []TypeOK
  <1>1. Init => TypeOK
    BY InitEstablishes DEF IInv
  <1>2. TypeOK /\ [Next]_vars => TypeOK'
    <2>1. TypeOK /\ Next => TypeOK'
      BY Stepping, TypeStep
    <2>2. TypeOK /\ UNCHANGED vars => TypeOK'
      BY DEF TypeOK, vars, slotVars, threadVars, waitVars, histVars
    <2> QED
      BY <2>1, <2>2
  <1> QED
    BY <1>1, <1>2, PTL DEF Spec

\* Unless a reap has given up with thread slots left behind, the dispatch keeps the
\* process slot behind its raw pointer, and no stack is freed under a running thread.
THEOREM SlotsAreKept == AutoReap = FALSE => (Spec => []DispatchKeepsSlot)
  <1>1. IInv => DispatchKeepsSlot
    <2>1. IInv /\ ~leftovers => Kept /\ Quiet
      BY DEF IInv, TypeOK, Safe
    <2> QED
      BY <2>1 DEF DispatchKeepsSlot, Kept, Quiet, OnStack
  <1> QED
    BY <1>1, Invariance, PTL

\* Unless a reap has given up, process_spawn_as finds its slot as it claimed it.
THEOREM SpawnsAreUndisturbed == AutoReap = FALSE => (Spec => []SpawnUndisturbed)
  <1>1. IInv => SpawnUndisturbed
    <2>1. IInv /\ ~leftovers => Parent /\ Token
      BY DEF IInv, TypeOK, Safe
    <2> QED
      BY <2>1 DEF SpawnUndisturbed, Parent, Token
  <1> QED
    BY <1>1, Invariance, PTL

\* Unless a reap has given up, process_wait returns a status that an exit or a kill of
\* that process recorded.
THEOREM StatusesAreReal == AutoReap = FALSE => (Spec => [](~leftovers => CollectedStatusIsReal))
  <1>1. IInv => (~leftovers => CollectedStatusIsReal)
    <2>1. IInv /\ ~leftovers => Parent /\ Marked
      BY DEF IInv, TypeOK, Safe
    <2> QED
      BY <2>1 DEF CollectedStatusIsReal, Parent, Marked, ReapToken, Reaping
  <1> QED
    BY <1>1, Invariance, PTL

\* Unless a reap has given up, process_wake_waiters and process_wake_thread_joiner reach
\* whoever registered in time.
THEOREM WaitersAreWoken == AutoReap = FALSE => (Spec => [](~leftovers => RegisteredWaiterIsWoken))
  <1>1. IInv => (~leftovers => RegisteredWaiterIsWoken)
    <2>1. IInv /\ ~leftovers => Registered /\ JoinArmed
      BY DEF IInv, TypeOK, Safe
    <2> QED
      BY <2>1 DEF RegisteredWaiterIsWoken, Registered, JoinArmed, ToReport
  <1> QED
    BY <1>1, Invariance, PTL

\* Unless a reap has given up, the reap that a dispatch held up is retried at the end of
\* one.
THEOREM ReapsAreRetried == AutoReap = FALSE => (Spec => [](~leftovers => RefusedReapIsRetried))
  <1>1. IInv => (~leftovers => RefusedReapIsRetried)
    BY DEF IInv, TypeOK, Safe
  <1> QED
    BY <1>1, Invariance, PTL

=============================================================================
