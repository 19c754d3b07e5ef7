------------------------- MODULE IpcEndpointProofs -------------------------
(***************************************************************************)
(* Theorems about IpcEndpoint, for every number of endpoints, contexts and *)
(* threads and every queue depth:                                          *)
(*                                                                         *)
(*   TypeCorrect      the state stays well typed;                          *)
(*   PendingSafe      a hangup is pending only behind a full ring;         *)
(*   WaitersSafe      wait lists and parked threads agree;                 *)
(*   HangupsAreLast   no message of a peer is behind its hangup;           *)
(*   PeersHear        no peer is forgotten without a trace;                *)
(*   HangupsComeOnce  a hangup is owed and received at most once;          *)
(*   WakeupsAreKept   nobody sleeps on an item without a taker.            *)
(*                                                                         *)
(* The first three share one inductive invariant, IInv: the properties     *)
(* themselves, which need one another, and five facts about calls in       *)
(* progress, ids not handed out, endpoints that carry no messages, the     *)
(* teardown batch and who may park where.  The others add to it: Books     *)
(* for the hangups, WakeInv for the wake-ups.  IpcEndpointRefinement uses  *)
(* IInv too.                                                               *)
(***************************************************************************)
EXTENDS IpcEndpoint, TLAPS, SequenceTheorems, FiniteSetTheorems

\* A call in progress has a destination, and one about to record a contact a
\* source.
CallsHaveTargets ==
    \A t \in Threads :
        /\ call[t].at \notin {"idle", "dead"} => call[t].dst \in Endpoints
        /\ call[t].at = "note_alloc" => call[t].src \in Endpoints

\* An id that was not handed out yet names nothing.
UnbornIsFree == \A e \in Endpoints : e >= next_id => type[e] = "free"

\* Only a live message endpoint holds messages or is owed hangups.
OnlyMessageHolds ==
    \A e \in Endpoints : type[e] # "message" => queue[e] = << >> /\ pending[e] = << >>

\* Hangups in the teardown batch are those of an endpoint that was a process's.
BatchIsOfProcess ==
    \A e \in Endpoints : batch[e] # << >> => type[e] # "free" /\ owner[e] \in Contexts

\* A thread parks only on an endpoint of its own process, unless it is the
\* kernel's.
ParkedMayUse == \A t \in Threads : call[t].at \in Parked => MayUse(t, call[t].dst)

IInv ==
    /\ TypeOK
    /\ CallsHaveTargets
    /\ UnbornIsFree
    /\ OnlyMessageHolds
    /\ BatchIsOfProcess
    /\ PendingBehindFullRing
    /\ WaitersAreParked
    /\ ParkedMayUse

----------------------------------------------------------------------------
(***************************************************************************)
(* Messages and calls.                                                     *)
(***************************************************************************)

\* What ipc_send_from queues is a message.
LEMMA DataIsMessage == \A s \in Endpoints \cup {NONE} : Data(s) \in Message
  BY DEF Message

\* What ipc_hangup_message builds for an endpoint or a watched context is one.
LEMMA HangupIsMessage ==
    \A d \in Endpoints \cup {NONE}, c \in Contexts : HangupMessage(d, c) \in Message
  BY DEF Message

\* A thread between calls is in a legal call state, and so is a reaped one.
LEMMA RestingCalls == Idle \in Call /\ Dead \in Call
  BY DEF Idle, Dead, Call

\* Waking a receiver keeps the thread states well formed.
LEMMA EnqueueWakeType ==
    ASSUME NEW e \in Endpoints, waiters \in [Endpoints -> Seq(Threads)],
           NEW p \in [Threads -> Call]
    PROVE  EnqueueWake(e, p) \in [Threads -> Call]
  <1>1. CASE waiters[e] = << >>
    BY <1>1 DEF EnqueueWake, WakeOne
  <1>2. CASE waiters[e] # << >>
    <2> DEFINE h == Head(waiters[e])
    <2>1. h \in Threads
      BY <1>2
    <2>2. [p[h] EXCEPT !.at = Resumed(@)] \in Call
      BY <2>1 DEF Call, Resumed
    <2> QED
      BY <1>2, <2>1, <2>2 DEF EnqueueWake, WakeOne
  <1> QED
    BY <1>1, <1>2

\* The woken thread leaves the wait list.
LEMMA LeftWaitingType ==
    ASSUME NEW e \in Endpoints, waiters \in [Endpoints -> Seq(Threads)]
    PROVE  LeftWaiting(e) \in Seq(Threads)
  BY DEF LeftWaiting

----------------------------------------------------------------------------
(***************************************************************************)
(* ipc_endpoint_enqueue_locked and the wake it performs.                   *)
(***************************************************************************)

\* The thread states p differ from the current ones only in threads that are
\* not parked and do not become so.
Unparked(p) ==
    /\ p \in [Threads -> Call]
    /\ \A t \in Threads :
          /\ call[t].at \in Parked \/ p[t].at \in Parked => p[t] = call[t]
          /\ p[t].at \notin {"idle", "dead"} => p[t].dst \in Endpoints
          /\ p[t].at = "note_alloc" => p[t].src \in Endpoints

\* Wait lists and parked threads agree as long as neither is touched.
LEMMA ParkingKept ==
    ASSUME IInv, Unparked(call'), UNCHANGED <<type, owner, waiters>>
    PROVE  /\ call' \in [Threads -> Call]
           /\ waiters' \in [Endpoints -> Seq(Threads)]
           /\ CallsHaveTargets'
           /\ WaitersAreParked'
           /\ ParkedMayUse'
  <1>1. call' \in [Threads -> Call] /\ waiters' \in [Endpoints -> Seq(Threads)]
    BY DEF Unparked, IInv, TypeOK
  <1>2. CallsHaveTargets'
    BY DEF Unparked, CallsHaveTargets
  <1>3. \A t \in Threads :
           (call'[t].at \in Parked <=> call[t].at \in Parked)
           /\ (call[t].at \in Parked => call'[t] = call[t])
    BY DEF Unparked
  <1>4. WaitersAreParked'
    <2>1. ASSUME NEW e \in Endpoints, NEW i \in 1 .. Len(waiters[e])
          PROVE  /\ waiters[e][i] \in Threads
                 /\ call[waiters[e][i]].at \in Parked /\ call[waiters[e][i]].dst = e
      <3>1. waiters[e] \in Seq(Threads)
        BY DEF IInv, TypeOK
      <3> QED
        BY <3>1, ElementOfSeq DEF IInv, WaitersAreParked
    <2>2. \A t \in Threads : call[t].at \in Parked => SeqHas(waiters[call[t].dst], t)
      BY DEF IInv, WaitersAreParked
    <2>3. \A e \in Endpoints :
             /\ \A i, j \in 1 .. Len(waiters[e]) : waiters[e][i] = waiters[e][j] => i = j
             /\ waiters[e] # << >> => IsMessage(e)'
      BY DEF IInv, WaitersAreParked, IsMessage
    <2> QED
      BY <1>3, <2>1, <2>2, <2>3 DEF WaitersAreParked, SeqHas
  <1>5. ParkedMayUse'
    BY <1>3 DEF IInv, ParkedMayUse, MayUse
  <1> QED
    BY <1>1, <1>2, <1>4, <1>5

\* What an enqueue does to the thread states: only the longest waiter moves.
LEMMA EnqueueWakes ==
    ASSUME IInv, NEW e \in Endpoints, NEW p, Unparked(p)
    PROVE  /\ waiters[e] = << >> => EnqueueWake(e, p) = p
           /\ waiters[e] # << >> =>
                 /\ Head(waiters[e]) \in Threads
                 /\ call[Head(waiters[e])].at \in Parked
                 /\ call[Head(waiters[e])].dst = e
                 /\ EnqueueWake(e, p)[Head(waiters[e])].at \in {"woken_recv", "drain"}
                 /\ EnqueueWake(e, p)[Head(waiters[e])].dst = e
                 /\ \A t \in Threads \ {Head(waiters[e])} : EnqueueWake(e, p)[t] = p[t]
  <1>1. CASE waiters[e] = << >>
    BY <1>1 DEF EnqueueWake, WakeOne
  <1>2. CASE waiters[e] # << >>
    <2> DEFINE h == Head(waiters[e])
    <2>0. waiters[e] \in Seq(Threads)
      BY DEF IInv, TypeOK
    <2>1. h \in Threads /\ h = waiters[e][1] /\ 1 \in 1 .. Len(waiters[e])
      BY <1>2, <2>0, HeadTailProperties, LenProperties
    <2>2. call[h].at \in Parked /\ call[h].dst = e
      BY <2>1 DEF IInv, WaitersAreParked
    <2>3. p[h] = call[h] /\ p[h] \in Call
      BY <2>1, <2>2 DEF Unparked
    <2>4. EnqueueWake(e, p) = [p EXCEPT ![h].at = Resumed(@)]
      BY <1>2 DEF EnqueueWake, WakeOne
    <2>5. [p[h] EXCEPT !.at = Resumed(@)].at \in {"woken_recv", "drain"}
          /\ [p[h] EXCEPT !.at = Resumed(@)].dst = e
      BY <2>2, <2>3 DEF Call, Resumed
    <2> QED
      BY <1>2, <2>1, <2>2, <2>4, <2>5 DEF Unparked
  <1> QED
    BY <1>1, <1>2

\* After the wake, wait lists and parked threads still agree.
LEMMA EnqueueKeepsWaiters ==
    ASSUME IInv, NEW e \in Endpoints, NEW p, Unparked(p), IsMessage(e),
           call' = EnqueueWake(e, p),
           waiters' = [waiters EXCEPT ![e] = LeftWaiting(e)],
           UNCHANGED <<type, owner>>
    PROVE  /\ call' \in [Threads -> Call]
           /\ waiters' \in [Endpoints -> Seq(Threads)]
           /\ CallsHaveTargets'
           /\ WaitersAreParked'
           /\ ParkedMayUse'
  <1>1. call' \in [Threads -> Call]
    BY EnqueueWakeType DEF IInv, TypeOK, Unparked
  <1>2. waiters' \in [Endpoints -> Seq(Threads)]
    BY LeftWaitingType DEF IInv, TypeOK
  <1>3. CASE waiters[e] = << >>
    <2>1. waiters' = waiters
      BY <1>3 DEF LeftWaiting, IInv, TypeOK
    <2>2. call' = p
      BY <1>3, EnqueueWakes
    <2> QED
      BY <2>1, <2>2, ParkingKept
  <1>4. CASE waiters[e] # << >>
    <2> DEFINE h == Head(waiters[e])
               w == waiters[e]
    <2>1. /\ h \in Threads /\ call[h].at \in Parked /\ call[h].dst = e
          /\ call'[h].at \in {"woken_recv", "drain"} /\ call'[h].dst = e
          /\ \A t \in Threads \ {h} : call'[t] = p[t]
      BY <1>4, EnqueueWakes
    <2>2. call'[h].at \notin Parked
      BY <2>1 DEF Parked
    <2>3. \A t \in Threads \ {h} :
             (call'[t].at \in Parked <=> call[t].at \in Parked)
             /\ (call[t].at \in Parked => call'[t] = call[t])
      BY <2>1 DEF Unparked
    <2>4. CallsHaveTargets'
      BY <2>1 DEF Unparked, CallsHaveTargets
    <2>5. ParkedMayUse'
      BY <2>2, <2>3 DEF IInv, ParkedMayUse, MayUse
    <2>6. /\ w \in Seq(Threads) /\ waiters'[e] = Tail(w) /\ h = w[1]
          /\ \A f \in Endpoints \ {e} : waiters'[f] = waiters[f]
      BY <1>4 DEF IInv, TypeOK, LeftWaiting
    <2>7. /\ Len(w) \in Nat \ {0}
          /\ Len(Tail(w)) = Len(w) - 1
          /\ \A i \in 1 .. Len(Tail(w)) : i + 1 \in 1 .. Len(w) /\ Tail(w)[i] = w[i + 1]
      BY <1>4, <2>6
    <2>8. \A f \in Endpoints : \A i \in 1 .. Len(waiters'[f]) :
             /\ waiters'[f][i] \in Threads \ {h}
             /\ \E j \in 1 .. Len(waiters[f]) : waiters'[f][i] = waiters[f][j]
      <3> SUFFICES ASSUME NEW f \in Endpoints, NEW i \in 1 .. Len(waiters'[f])
                   PROVE  /\ waiters'[f][i] \in Threads \ {h}
                          /\ \E j \in 1 .. Len(waiters[f]) : waiters'[f][i] = waiters[f][j]
        OBVIOUS
      <3>1. CASE f = e
        <4>1. i \in 1 .. Len(Tail(w)) /\ waiters'[e][i] = Tail(w)[i]
          BY <3>1, <2>6
        <4>2. i + 1 \in 1 .. Len(w) /\ waiters'[e][i] = w[i + 1] /\ i + 1 # 1 /\ 1 \in 1 .. Len(w)
          BY <4>1, <2>7
        <4>3. w[i + 1] # w[1]
          BY <4>2 DEF IInv, WaitersAreParked
        <4>4. w[i + 1] \in Threads
          BY <4>2, <2>6
        <4> QED
          BY <3>1, <4>2, <4>3, <4>4, <2>6
      <3>2. CASE f # e
        <4>1. waiters'[f] = waiters[f] /\ waiters[f] \in Seq(Threads)
          BY <3>2, <2>6 DEF IInv, TypeOK
        <4>2. call[waiters[f][i]].dst = f
          BY <4>1 DEF IInv, WaitersAreParked
        <4> QED
          BY <3>2, <4>1, <4>2, <2>1
      <3> QED
        BY <3>1, <3>2
    <2>9. WaitersAreParked'
      <3>1. ASSUME NEW f \in Endpoints, NEW i \in 1 .. Len(waiters'[f])
            PROVE  call'[waiters'[f][i]].at \in Parked /\ call'[waiters'[f][i]].dst = f
        BY <2>3, <2>8 DEF IInv, WaitersAreParked
      <3>2. ASSUME NEW f \in Endpoints, NEW i \in 1 .. Len(waiters'[f]),
                   NEW j \in 1 .. Len(waiters'[f]), waiters'[f][i] = waiters'[f][j]
            PROVE  i = j
        <4>1. \A k, l \in 1 .. Len(waiters[f]) : waiters[f][k] = waiters[f][l] => k = l
          BY DEF IInv, WaitersAreParked
        <4>2. CASE f = e
          <5>1. /\ i + 1 \in 1 .. Len(w) /\ waiters'[e][i] = w[i + 1]
                /\ j + 1 \in 1 .. Len(w) /\ waiters'[e][j] = w[j + 1]
            BY <4>2, <2>6, <2>7
          <5>2. i + 1 = j + 1
            BY <4>1, <4>2, <5>1, <3>2
          <5> QED
            BY <5>2, <4>2, <2>6, <2>7
        <4>3. CASE f # e
          BY <4>1, <4>3, <2>6, <3>2
        <4> QED
          BY <4>2, <4>3
      <3>3. ASSUME NEW f \in Endpoints, waiters'[f] # << >>
            PROVE  IsMessage(f)'
        BY <2>6, <3>3 DEF IInv, WaitersAreParked, IsMessage
      <3>4. ASSUME NEW t \in Threads, call'[t].at \in Parked
            PROVE  SeqHas(waiters'[call'[t].dst], t)
        <4>1. t # h /\ call'[t] = call[t] /\ call[t].at \in Parked
          BY <2>2, <2>3, <3>4
        <4>2. PICK i \in 1 .. Len(waiters[call[t].dst]) : waiters[call[t].dst][i] = t
          BY <4>1 DEF IInv, WaitersAreParked, SeqHas
        <4>3. call[t].dst \in Endpoints
          BY <4>1 DEF IInv, CallsHaveTargets, Parked
        <4>4. CASE call[t].dst = e
          <5>1. i # 1 /\ i - 1 \in 1 .. Len(Tail(w)) /\ Tail(w)[i - 1] = t
            BY <4>1, <4>2, <4>4, <2>6, <2>7
          <5> QED
            BY <4>1, <4>4, <5>1, <2>6 DEF SeqHas
        <4>5. CASE call[t].dst # e
          BY <4>1, <4>2, <4>3, <4>5, <2>6 DEF SeqHas
        <4> QED
          BY <4>4, <4>5
      <3> QED
        BY <3>1, <3>2, <3>3, <3>4 DEF WaitersAreParked
    <2> QED
      BY <1>1, <1>2, <2>4, <2>5, <2>9
  <1> QED
    BY <1>3, <1>4

----------------------------------------------------------------------------
(***************************************************************************)
(* Thread states an action may leave.                                      *)
(***************************************************************************)

\* Leaving every thread where it is disturbs no parked one.
LEMMA UnparkedSame == IInv => Unparked(call)
  BY DEF IInv, TypeOK, CallsHaveTargets, Unparked

\* Nor does moving a thread that is not parked to a state that is not.
LEMMA UnparkedMove ==
    ASSUME IInv, NEW t \in Threads, call[t].at \notin Parked,
           NEW v \in Call, v.at \notin Parked,
           v.at \notin {"idle", "dead"} => v.dst \in Endpoints,
           v.at = "note_alloc" => v.src \in Endpoints
    PROVE  Unparked([call EXCEPT ![t] = v])
  BY DEF IInv, TypeOK, CallsHaveTargets, Unparked

\* In particular, ending a call.
LEMMA UnparkedIdle ==
    ASSUME IInv, NEW t \in Threads, call[t].at \notin Parked
    PROVE  Unparked([call EXCEPT ![t] = Idle])
  <1>1. Idle \in Call /\ Idle.at = "idle" /\ Idle.at \notin Parked
    BY RestingCalls DEF Idle, Parked
  <1> QED
    BY <1>1, UnparkedMove

\* And moving on inside a send.
LEMMA UnparkedSending ==
    ASSUME IInv, NEW t \in Threads, call[t].at \in InSend, NEW a \in InSend,
           a = "note_alloc" => call[t].src \in Endpoints
    PROVE  Unparked([call EXCEPT ![t].at = a])
  <1>1. call[t] \in Call /\ call[t].at \notin Parked /\ call[t].dst \in Endpoints
    BY DEF IInv, TypeOK, CallsHaveTargets, InSend, Parked
  <1> DEFINE v == [call[t] EXCEPT !.at = a]
  <1>2. v \in Call /\ v.at = a /\ v.at \notin Parked /\ v.dst = call[t].dst /\ v.src = call[t].src
    BY <1>1 DEF Call, InSend, Parked
  <1>3. [call EXCEPT ![t].at = a] = [call EXCEPT ![t] = v]
    BY DEF IInv, TypeOK
  <1> HIDE DEF v
  <1> QED
    BY <1>1, <1>2, <1>3, UnparkedMove

\* A step that changes neither rings nor wait lists nor the endpoint table, and
\* moves no parked thread, keeps the invariant if it keeps the types.
LEMMA QuietStep ==
    ASSUME IInv, TypeOK', Unparked(call'),
           UNCHANGED <<next_id, type, owner, queue, pending, batch, waiters>>
    PROVE  IInv'
  <1>1. CallsHaveTargets' /\ WaitersAreParked' /\ ParkedMayUse'
    BY ParkingKept
  <1>2. UnbornIsFree' /\ OnlyMessageHolds' /\ BatchIsOfProcess' /\ PendingBehindFullRing'
    BY DEF IInv, UnbornIsFree, OnlyMessageHolds, BatchIsOfProcess, PendingBehindFullRing
  <1> QED
    BY <1>1, <1>2 DEF IInv

\* An enqueue on a ring with a free slot and nothing pending.
LEMMA EnqueueStep ==
    ASSUME IInv, NEW e \in Endpoints, IsMessage(e), NEW p, Unparked(p), NEW m \in Message,
           Len(queue[e]) < QUEUE_SLOTS, pending[e] = << >>,
           EnqueueLocked(e, queue[e], m, p),
           UNCHANGED <<next_id, type, owner, pending>>
    PROVE  /\ queue' \in [Endpoints -> Seq(Message)]
           /\ call' \in [Threads -> Call]
           /\ waiters' \in [Endpoints -> Seq(Threads)]
           /\ CallsHaveTargets' /\ WaitersAreParked' /\ ParkedMayUse'
           /\ OnlyMessageHolds' /\ PendingBehindFullRing'
  <1>1. queue[e] \in Seq(Message) /\ queue \in [Endpoints -> Seq(Message)]
    BY DEF IInv, TypeOK
  <1>2. /\ Append(queue[e], m) \in Seq(Message)
        /\ Len(Append(queue[e], m)) = Len(queue[e]) + 1
    BY <1>1, AppendProperties
  <1>3. queue' = [queue EXCEPT ![e] = Append(queue[e], m)]
    BY DEF EnqueueLocked
  <1>4. queue' \in [Endpoints -> Seq(Message)]
    BY <1>1, <1>2, <1>3
  <1>5. /\ call' \in [Threads -> Call] /\ waiters' \in [Endpoints -> Seq(Threads)]
        /\ CallsHaveTargets' /\ WaitersAreParked' /\ ParkedMayUse'
    BY EnqueueKeepsWaiters DEF EnqueueLocked
  <1>6. OnlyMessageHolds'
    BY <1>1, <1>3 DEF IInv, OnlyMessageHolds, IsMessage
  <1>7. PendingBehindFullRing'
    <2>1. QUEUE_SLOTS \in Nat /\ Len(queue[e]) \in Nat
      BY <1>1, EndpointAssumption DEF QUEUE_SLOTS
    <2> QED
      BY <1>1, <1>2, <1>3, <2>1 DEF IInv, PendingBehindFullRing
  <1> QED
    BY <1>4, <1>5, <1>6, <1>7

\* Taking a message, with the oldest pending hangup moving up.
LEMMA DequeueStep ==
    ASSUME IInv, NEW e \in Endpoints, IsMessage(e), queue[e] # << >>, NEW p, Unparked(p),
           DequeueLocked(e, p),
           UNCHANGED <<next_id, type, owner, notify_count, contacts, contacts_overflowed,
                       oweVars, ctx, sent>>
    PROVE  IInv'
  <1>1. /\ queue \in [Endpoints -> Seq(Message)] /\ queue[e] \in Seq(Message)
        /\ pending \in [Endpoints -> Seq(Message)] /\ pending[e] \in Seq(Message)
    BY DEF IInv, TypeOK
  <1>2. /\ Head(queue[e]) \in Message /\ Tail(queue[e]) \in Seq(Message)
        /\ Len(queue[e]) \in Nat \ {0} /\ Len(Tail(queue[e])) = Len(queue[e]) - 1
    BY <1>1, HeadTailProperties
  <1>3. QUEUE_SLOTS \in Nat
    BY EndpointAssumption DEF QUEUE_SLOTS
  <1>4. heard' \in [Endpoints -> [Endpoints -> Nat]]
    <2> DEFINE m == Head(queue[e])
    <2>1. m.type = "hangup" /\ m.arg0 # NONE => m.arg0 \in Endpoints
      <3>1. CASE m \in {Data(s) : s \in Endpoints \cup {NONE}}
        BY <3>1 DEF Data
      <3>2. CASE m \in {HangupMessage(d, c) : d \in Endpoints \cup {NONE}, c \in Contexts}
        BY <3>2 DEF HangupMessage
      <3> QED
        BY <1>2, <3>1, <3>2 DEF Message
    <2>2. heard \in [Endpoints -> [Endpoints -> Nat]]
      BY DEF IInv, TypeOK
    <2>3. heard' = IF m.type = "hangup" /\ m.arg0 # NONE
                   THEN [heard EXCEPT ![e][m.arg0] = @ + 1]
                   ELSE heard
      BY DEF DequeueLocked, Hears
    <2> HIDE DEF m
    <2>4. CASE m.type = "hangup" /\ m.arg0 # NONE
      <3> DEFINE row == [heard[e] EXCEPT ![m.arg0] = @ + 1]
      <3>1. row \in [Endpoints -> Nat]
        BY <2>1, <2>2, <2>4
      <3>2. heard' = [heard EXCEPT ![e] = row]
        BY <2>2, <2>3, <2>4
      <3> HIDE DEF row
      <3> QED
        BY <2>2, <3>1, <3>2
    <2> QED
      BY <2>2, <2>3, <2>4
  <1>5. /\ queue' \in [Endpoints -> Seq(Message)] /\ pending' \in [Endpoints -> Seq(Message)]
        /\ call' \in [Threads -> Call] /\ waiters' \in [Endpoints -> Seq(Threads)]
        /\ CallsHaveTargets' /\ WaitersAreParked' /\ ParkedMayUse'
        /\ OnlyMessageHolds' /\ PendingBehindFullRing'
    <2>1. CASE pending[e] = << >>
      <3>1. queue' = [queue EXCEPT ![e] = Tail(@)] /\ call' = p /\ UNCHANGED <<waiters, pending>>
        BY <2>1 DEF DequeueLocked
      <3>2. queue' \in [Endpoints -> Seq(Message)] /\ pending' \in [Endpoints -> Seq(Message)]
        BY <1>1, <1>2, <3>1
      <3>3. /\ call' \in [Threads -> Call] /\ waiters' \in [Endpoints -> Seq(Threads)]
            /\ CallsHaveTargets' /\ WaitersAreParked' /\ ParkedMayUse'
        BY <3>1, ParkingKept
      <3>4. OnlyMessageHolds'
        BY <1>1, <3>1 DEF IInv, OnlyMessageHolds, IsMessage
      <3>5. PendingBehindFullRing'
        <4>1. Len(queue[e]) <= QUEUE_SLOTS
          BY DEF IInv, PendingBehindFullRing
        <4>2. Len(Tail(queue[e])) <= QUEUE_SLOTS
          BY <1>2, <1>3, <4>1
        <4>3. ASSUME NEW f \in Endpoints
              PROVE  /\ Len(queue'[f]) <= QUEUE_SLOTS
                     /\ pending'[f] # << >> => Len(queue'[f]) = QUEUE_SLOTS
          <5>1. CASE f = e
            BY <1>1, <2>1, <3>1, <4>2, <5>1
          <5>2. CASE f # e
            BY <1>1, <3>1, <5>2 DEF IInv, PendingBehindFullRing
          <5> QED
            BY <5>1, <5>2
        <4> QED
          BY <4>3 DEF PendingBehindFullRing
      <3> QED
        BY <3>2, <3>3, <3>4, <3>5
    <2>2. CASE pending[e] # << >>
      <3>1. /\ EnqueueLocked(e, Tail(queue[e]), Head(pending[e]), p)
            /\ pending' = [pending EXCEPT ![e] = Tail(@)]
        BY <2>2 DEF DequeueLocked
      <3>2. Head(pending[e]) \in Message /\ Tail(pending[e]) \in Seq(Message)
        BY <1>1, <2>2, HeadTailProperties
      <3>3. queue' = [queue EXCEPT ![e] = Append(Tail(queue[e]), Head(pending[e]))]
        BY <3>1 DEF EnqueueLocked
      <3>4. /\ Append(Tail(queue[e]), Head(pending[e])) \in Seq(Message)
            /\ Len(Append(Tail(queue[e]), Head(pending[e]))) = Len(queue[e])
        BY <1>2, <3>2, AppendProperties
      <3>5. queue' \in [Endpoints -> Seq(Message)] /\ pending' \in [Endpoints -> Seq(Message)]
        BY <1>1, <3>1, <3>2, <3>3, <3>4
      <3>6. /\ call' \in [Threads -> Call] /\ waiters' \in [Endpoints -> Seq(Threads)]
            /\ CallsHaveTargets' /\ WaitersAreParked' /\ ParkedMayUse'
        BY <3>1, EnqueueKeepsWaiters DEF EnqueueLocked
      <3>7. OnlyMessageHolds'
        BY <1>1, <3>1, <3>3 DEF IInv, OnlyMessageHolds, IsMessage
      <3>8. PendingBehindFullRing'
        BY <1>1, <1>2, <1>3, <2>2, <3>1, <3>3, <3>4 DEF IInv, PendingBehindFullRing
      <3> QED
        BY <3>5, <3>6, <3>7, <3>8
    <2> QED
      BY <2>1, <2>2
  <1>6. TypeOK'
    BY <1>4, <1>5 DEF IInv, TypeOK, oweVars
  <1>7. UnbornIsFree' /\ BatchIsOfProcess'
    BY DEF IInv, UnbornIsFree, BatchIsOfProcess, oweVars
  <1> QED
    BY <1>5, <1>6, <1>7 DEF IInv

----------------------------------------------------------------------------
(***************************************************************************)
(* One lemma per action: it keeps the invariant.                           *)
(***************************************************************************)

\* ipc_endpoint_create_typed: the id it takes named nothing before.
LEMMA CreateKeeps ==
    ASSUME IInv, NEW c \in Contexts \cup {KERNEL}, NEW ty \in {"message", "notification"},
           CreateTyped(c, ty)
    PROVE  IInv'
  <1>1. next_id \in Endpoints /\ next_id + 1 \in 1 .. MaxId + 1 /\ next_id \in Nat
    BY EndpointAssumption DEF CreateTyped, IInv, TypeOK, Endpoints
  <1>2. type[next_id] = "free"
    BY <1>1 DEF IInv, UnbornIsFree
  <1>3. /\ next_id' = next_id + 1
        /\ type' = [type EXCEPT ![next_id] = ty]
        /\ owner' = [owner EXCEPT ![next_id] = c]
        /\ UNCHANGED <<queue, notify_count, waiters, hangVars, oweVars, ctx, call, histVars>>
    BY DEF CreateTyped
  <1>4. TypeOK'
    BY <1>1, <1>3 DEF IInv, TypeOK, hangVars, oweVars, histVars
  <1>5. CallsHaveTargets'
    BY <1>3 DEF IInv, CallsHaveTargets
  <1>6. UnbornIsFree'
    BY <1>1, <1>3 DEF IInv, TypeOK, UnbornIsFree, Endpoints
  <1>7. OnlyMessageHolds'
    BY <1>2, <1>3 DEF IInv, TypeOK, OnlyMessageHolds, hangVars
  <1>8. BatchIsOfProcess'
    BY <1>2, <1>3 DEF IInv, TypeOK, BatchIsOfProcess, oweVars
  <1>9. PendingBehindFullRing'
    BY <1>3 DEF IInv, PendingBehindFullRing, hangVars
  <1>10. waiters[next_id] = << >>
    BY <1>1, <1>2 DEF IInv, WaitersAreParked, IsMessage
  <1>11. WaitersAreParked'
    <2>1. \A f \in Endpoints : waiters[f] # << >> => IsMessage(f)'
      BY <1>3, <1>10 DEF IInv, TypeOK, WaitersAreParked, IsMessage
    <2> QED
      BY <1>3, <2>1 DEF IInv, WaitersAreParked
  <1>12. ParkedMayUse'
    <2>1. ASSUME NEW t \in Threads, call[t].at \in Parked
          PROVE  call[t].dst \in Endpoints \ {next_id}
      <3>1. call[t].dst \in Endpoints /\ SeqHas(waiters[call[t].dst], t)
        BY <2>1 DEF IInv, CallsHaveTargets, WaitersAreParked, Parked
      <3> QED
        BY <1>10, <3>1 DEF SeqHas
    <2> QED
      BY <1>3, <2>1 DEF IInv, TypeOK, ParkedMayUse, MayUse
  <1> QED
    BY <1>4, <1>5, <1>6, <1>7, <1>8, <1>9, <1>11, <1>12 DEF IInv

\* The source check of ipc_send_from.
LEMMA SendBeginKeeps ==
    ASSUME IInv, NEW t \in Threads, NEW s \in Endpoints \cup {NONE}, NEW d \in Endpoints,
           SendBegin(t, s, d)
    PROVE  IInv'
  <1> DEFINE v == [at |-> "send", src |-> s, dst |-> d]
  <1>1. v \in Call /\ v.at = "send" /\ v.at \notin Parked /\ v.dst \in Endpoints
    BY DEF Call, Parked, InSend
  <1>2. call[t].at \notin Parked /\ call' = [call EXCEPT ![t] = v]
    BY DEF SendBegin, Parked
  <1> HIDE DEF v
  <1>3. Unparked(call')
    BY <1>1, <1>2, UnparkedMove
  <1>4. UNCHANGED <<epVars, waiters, hangVars, oweVars, ctx, histVars>>
    BY DEF SendBegin
  <1>5. TypeOK'
    BY <1>3, <1>4 DEF Unparked, IInv, TypeOK, epVars, hangVars, oweVars, histVars
  <1> QED
    BY <1>3, <1>4, <1>5, QuietStep DEF epVars, hangVars, oweVars

\* A refused send.
LEMMA SendRefusedKeeps ==
    ASSUME IInv, NEW t \in Threads, SendRefused(t)
    PROVE  IInv'
  <1>1. Unparked(call')
    BY UnparkedIdle DEF SendRefused, Parked
  <1>2. UNCHANGED <<epVars, waiters, hangVars, oweVars, ctx, histVars>>
    BY DEF SendRefused
  <1>3. TypeOK'
    BY <1>1, <1>2 DEF Unparked, IInv, TypeOK, epVars, hangVars, oweVars, histVars
  <1> QED
    BY <1>1, <1>2, <1>3, QuietStep DEF epVars, hangVars, oweVars

\* A sender finds room only where nothing is pending.
LEMMA RoomMeansNonePending ==
    ASSUME IInv, NEW d \in Endpoints, HasRoom(d)
    PROVE  Len(queue[d]) < QUEUE_SLOTS /\ pending[d] = << >>
  <1>1. Len(queue[d]) \in Nat
    BY DEF IInv, TypeOK
  <1> QED
    BY <1>1, EndpointAssumption DEF HasRoom, QUEUE_SLOTS, IInv, PendingBehindFullRing

\* An accepted send.
LEMMA SendEnqueueKeeps ==
    ASSUME IInv, NEW t \in Threads, SendEnqueue(t)
    PROVE  IInv'
  <1> DEFINE s == call[t].src
             d == call[t].dst
             p == [call EXCEPT ![t].at = "note"]
  <1>1. call[t] \in Call /\ s \in Endpoints \cup {NONE} /\ d \in Endpoints
    BY DEF SendEnqueue, IInv, TypeOK, CallsHaveTargets, Call
  <1>2. Data(s) \in Message
    BY <1>1, DataIsMessage
  <1>3. Unparked(p)
    BY UnparkedSending DEF SendEnqueue, InSend
  <1>4. /\ IsMessage(d) /\ HasRoom(d) /\ EnqueueLocked(d, queue[d], Data(s), p)
        /\ UNCHANGED <<next_id, type, owner, notify_count, hangVars, oweVars, ctx, heard>>
        /\ sent' = IF s # NONE /\ IsMessage(s) THEN [sent EXCEPT ![s] = @ \cup {d}] ELSE sent
    BY DEF SendEnqueue
  <1> HIDE DEF s, d, p
  <1>5. /\ queue' \in [Endpoints -> Seq(Message)] /\ call' \in [Threads -> Call]
        /\ waiters' \in [Endpoints -> Seq(Threads)]
        /\ CallsHaveTargets' /\ WaitersAreParked' /\ ParkedMayUse'
        /\ OnlyMessageHolds' /\ PendingBehindFullRing'
    BY <1>1, <1>2, <1>3, <1>4, RoomMeansNonePending, EnqueueStep DEF hangVars
  <1>6. sent' \in [Endpoints -> SUBSET Endpoints]
    BY <1>1, <1>4 DEF IInv, TypeOK
  <1>7. TypeOK'
    BY <1>4, <1>5, <1>6 DEF IInv, TypeOK, hangVars, oweVars
  <1>8. UnbornIsFree' /\ BatchIsOfProcess'
    BY <1>4 DEF IInv, UnbornIsFree, BatchIsOfProcess, oweVars
  <1> QED
    BY <1>5, <1>7, <1>8 DEF IInv

\* A send of the kernel itself.
LEMMA KernelSendKeeps ==
    ASSUME IInv, NEW d \in Endpoints, KernelSend(d)
    PROVE  IInv'
  <1>1. Data(NONE) \in Message
    BY DataIsMessage
  <1>2. /\ IsMessage(d) /\ HasRoom(d) /\ EnqueueLocked(d, queue[d], Data(NONE), call)
        /\ UNCHANGED <<next_id, type, owner, notify_count, hangVars, oweVars, ctx, histVars>>
    BY DEF KernelSend
  <1>3. /\ queue' \in [Endpoints -> Seq(Message)] /\ call' \in [Threads -> Call]
        /\ waiters' \in [Endpoints -> Seq(Threads)]
        /\ CallsHaveTargets' /\ WaitersAreParked' /\ ParkedMayUse'
        /\ OnlyMessageHolds' /\ PendingBehindFullRing'
    BY <1>1, <1>2, UnparkedSame, RoomMeansNonePending, EnqueueStep DEF hangVars
  <1>4. TypeOK'
    BY <1>2, <1>3 DEF IInv, TypeOK, hangVars, oweVars, histVars
  <1>5. UnbornIsFree' /\ BatchIsOfProcess'
    BY <1>2 DEF IInv, UnbornIsFree, BatchIsOfProcess, oweVars
  <1> QED
    BY <1>3, <1>4, <1>5 DEF IInv

\* The first look of ipc_endpoint_note_contact.
LEMMA NoteCheckKeeps ==
    ASSUME IInv, NEW t \in Threads, NoteCheck(t)
    PROVE  IInv'
  <1> DEFINE s == call[t].src
             d == call[t].dst
  <1>1. call[t] \in Call /\ s \in Endpoints \cup {NONE} /\ call[t].at \in InSend
    BY DEF NoteCheck, IInv, TypeOK, Call, InSend
  <1>2. UNCHANGED <<epVars, waiters, contacts, pending, oweVars, ctx, histVars>>
    BY DEF NoteCheck
  <1>3. Unparked(call') /\ contacts_overflowed' \in [Endpoints -> BOOLEAN]
    <2>1. Unparked([call EXCEPT ![t] = Idle])
      BY <1>1, UnparkedIdle DEF InSend, Parked
    <2>2. contacts_overflowed \in [Endpoints -> BOOLEAN]
      BY DEF IInv, TypeOK
    <2>3. CASE NothingToNote(s, d)
      BY <2>1, <2>2, <2>3 DEF NoteCheck
    <2>4. CASE ~NothingToNote(s, d)
      <3>1. s \in Endpoints
        BY <1>1, <2>4 DEF NothingToNote
      <3>2. Unparked([call EXCEPT ![t].at = "note_alloc"])
        BY <1>1, <3>1, UnparkedSending DEF InSend
      <3> QED
        BY <2>1, <2>2, <2>4, <3>2 DEF NoteCheck
    <2> QED
      BY <2>3, <2>4
  <1>4. TypeOK'
    BY <1>2, <1>3 DEF Unparked, IInv, TypeOK, epVars, oweVars, histVars
  <1> QED
    BY <1>2, <1>3, <1>4, QuietStep DEF epVars, oweVars

\* The second look, which records the contact.
LEMMA NoteRecordKeeps ==
    ASSUME IInv, NEW t \in Threads, NEW ok \in BOOLEAN, NoteRecord(t, ok)
    PROVE  IInv'
  <1> DEFINE s == call[t].src
             d == call[t].dst
  <1>1. s \in Endpoints /\ d \in Endpoints /\ call[t].at = "note_alloc"
    BY DEF NoteRecord, IInv, CallsHaveTargets
  <1>2. /\ UNCHANGED <<epVars, waiters, pending, oweVars, ctx, histVars>>
        /\ call' = [call EXCEPT ![t] = Idle]
    BY DEF NoteRecord
  <1>3. Unparked(call')
    BY <1>1, <1>2, UnparkedIdle DEF Parked
  <1>4. contacts \in [Endpoints -> Seq(Endpoints)] /\ contacts_overflowed \in [Endpoints -> BOOLEAN]
    BY DEF IInv, TypeOK
  <1>5. <<d>> \o contacts[s] \in Seq(Endpoints)
    BY <1>1, <1>4
  <1>6. \/ UNCHANGED <<contacts, contacts_overflowed>>
        \/ contacts_overflowed' = [contacts_overflowed EXCEPT ![s] = TRUE] /\ UNCHANGED contacts
        \/ contacts' = [contacts EXCEPT ![s] = <<d>> \o @] /\ UNCHANGED contacts_overflowed
    BY DEF NoteRecord
  <1>7. contacts' \in [Endpoints -> Seq(Endpoints)] /\ contacts_overflowed' \in [Endpoints -> BOOLEAN]
    BY <1>1, <1>4, <1>5, <1>6
  <1>8. TypeOK'
    BY <1>2, <1>3, <1>7 DEF Unparked, IInv, TypeOK, epVars, oweVars, histVars
  <1> QED
    BY <1>2, <1>3, <1>8, QuietStep DEF epVars, oweVars

\* ipc_recv_for.
LEMMA RecvForKeeps ==
    ASSUME IInv, NEW t \in Threads, NEW e \in Endpoints, RecvFor(t, e)
    PROVE  IInv'
  BY UnparkedSame, DequeueStep DEF RecvFor

\* A call that returns with nothing taken.
LEMMA GiveUpKeeps ==
    ASSUME IInv, NEW t \in Threads, call[t].at \notin Parked,
           call' = [call EXCEPT ![t] = Idle],
           UNCHANGED <<queue, waiters, pending, heard>>,
           UNCHANGED <<next_id, type, owner, notify_count, contacts, contacts_overflowed,
                       oweVars, ctx, sent>>
    PROVE  IInv'
  <1>1. Unparked(call')
    BY UnparkedIdle
  <1>2. TypeOK'
    BY <1>1 DEF Unparked, IInv, TypeOK, oweVars
  <1> QED
    BY <1>1, <1>2, QuietStep DEF oweVars

\* A blocking receive after its wake.  It does not re-check the type of the
\* endpoint, but only a message endpoint can hold what it takes.
LEMMA ResumeRecvKeeps ==
    ASSUME IInv, NEW t \in Threads, ResumeRecv(t)
    PROVE  IInv'
  <1> DEFINE e == call[t].dst
  <1>1. e \in Endpoints /\ call[t].at = "woken_recv" /\ call[t].at \notin Parked
    BY DEF ResumeRecv, IInv, CallsHaveTargets, Parked
  <1>2. UNCHANGED <<next_id, type, owner, notify_count, contacts, contacts_overflowed,
                    oweVars, ctx, sent>>
    BY DEF ResumeRecv
  <1>3. CASE call' = [call EXCEPT ![t] = Idle] /\ UNCHANGED <<queue, waiters, pending, heard>>
    BY <1>1, <1>2, <1>3, GiveUpKeeps
  <1>4. CASE Live(e) /\ queue[e] # << >> /\ DequeueLocked(e, [call EXCEPT ![t] = Idle])
    <2>1. IsMessage(e)
      BY <1>1, <1>4 DEF IInv, OnlyMessageHolds, IsMessage
    <2>2. Unparked([call EXCEPT ![t] = Idle])
      BY <1>1, UnparkedIdle
    <2> HIDE DEF e
    <2> QED
      BY <1>1, <1>2, <1>4, <2>1, <2>2, DequeueStep
  <1> QED
    BY <1>3, <1>4 DEF ResumeRecv

\* The receive that follows ipc_endpoint_wait_for.
LEMMA DrainKeeps ==
    ASSUME IInv, NEW t \in Threads, Drain(t)
    PROVE  IInv'
  <1> DEFINE e == call[t].dst
  <1>1. e \in Endpoints /\ call[t].at = "drain" /\ call[t].at \notin Parked
    BY DEF Drain, IInv, CallsHaveTargets, Parked
  <1>2. UNCHANGED <<next_id, type, owner, notify_count, contacts, contacts_overflowed,
                    oweVars, ctx, sent>>
    BY DEF Drain
  <1>3. CASE call' = [call EXCEPT ![t] = Idle] /\ UNCHANGED <<queue, waiters, pending, heard>>
    BY <1>1, <1>2, <1>3, GiveUpKeeps
  <1>4. CASE IsMessage(e) /\ queue[e] # << >> /\ DequeueLocked(e, [call EXCEPT ![t] = Idle])
    <2>1. Unparked([call EXCEPT ![t] = Idle])
      BY <1>1, UnparkedIdle
    <2> HIDE DEF e
    <2> QED
      BY <1>1, <1>2, <1>4, <2>1, DequeueStep
  <1> QED
    BY <1>3, <1>4 DEF Drain

\* Steps that touch neither rings nor thread states nor the endpoint table.
LEMMA AsideKeeps ==
    ASSUME IInv, TypeOK', UNCHANGED <<next_id, type, owner, queue, pending, batch, waiters, call>>
    PROVE  IInv'
  BY UnparkedSame, QuietStep

\* ipc_notify_from: the counter saturates.
LEMMA NotifyFromKeeps ==
    ASSUME IInv, NEW t \in Threads, NEW e \in Endpoints, NotifyFrom(t, e)
    PROVE  IInv'
  <1>1. notify_count[e] \in 0 .. NOTIFY_MAX /\ NOTIFY_MAX \in Nat
    BY EndpointAssumption DEF IInv, TypeOK
  <1>2. SaturatingInc(notify_count[e]) \in 0 .. NOTIFY_MAX
    BY <1>1 DEF SaturatingInc
  <1>3. TypeOK'
    BY <1>2 DEF NotifyFrom, IInv, TypeOK, hangVars, oweVars, histVars
  <1> QED
    BY <1>3, AsideKeeps DEF NotifyFrom, hangVars, oweVars

\* ipc_wait_for: it never counts below zero.
LEMMA WaitForKeeps ==
    ASSUME IInv, NEW t \in Threads, NEW e \in Endpoints, WaitFor(t, e)
    PROVE  IInv'
  <1>1. notify_count[e] \in 0 .. NOTIFY_MAX /\ NOTIFY_MAX \in Nat
    BY EndpointAssumption DEF IInv, TypeOK
  <1>2. notify_count[e] - 1 \in 0 .. NOTIFY_MAX
    BY <1>1 DEF WaitFor
  <1>3. TypeOK'
    BY <1>2 DEF WaitFor, IInv, TypeOK, hangVars, oweVars, histVars
  <1> QED
    BY <1>3, AsideKeeps DEF WaitFor, hangVars, oweVars

\* ipc_context_watch.
LEMMA ContextWatchKeeps ==
    ASSUME IInv, NEW c \in Contexts, NEW d \in Endpoints, ContextWatch(c, d)
    PROVE  IInv'
  <1>1. watches[c] \in Seq(Endpoints) /\ <<d>> \in Seq(Endpoints)
    BY DEF IInv, TypeOK
  <1>2. <<d>> \o watches[c] \in Seq(Endpoints)
    BY <1>1, ConcatProperties
  <1>3. TypeOK'
    BY <1>2 DEF ContextWatch, IInv, TypeOK, epVars, hangVars, histVars
  <1> QED
    BY <1>3, AsideKeeps DEF ContextWatch, epVars, hangVars

\* process_mark_exited.
LEMMA ExitKeeps ==
    ASSUME IInv, NEW c \in Contexts, Exit(c)
    PROVE  IInv'
  <1>1. TypeOK'
    BY DEF Exit, IInv, TypeOK, epVars, hangVars, oweVars, histVars
  <1> QED
    BY <1>1, AsideKeeps DEF Exit, epVars, hangVars, oweVars

\* Going to sleep: the thread joins the end of the wait list it is parked on.
LEMMA ParkKeeps ==
    ASSUME IInv, NEW t \in Threads, NEW e \in Endpoints, NEW label \in Parked, Park(t, e, label)
    PROVE  IInv'
  <1> DEFINE v == [at |-> label, src |-> NONE, dst |-> e]
             w == waiters[e]
  <1>1. v \in Call /\ v.at = label /\ v.dst = e
    BY DEF Call
  <1>2. /\ call' = [call EXCEPT ![t] = v] /\ waiters' = [waiters EXCEPT ![e] = Append(w, t)]
        /\ UNCHANGED <<epVars, hangVars, oweVars, ctx, histVars>>
        /\ IsMessage(e) /\ MayUse(t, e) /\ call[t].at \notin Parked
    BY DEF Park, Parked
  <1> HIDE DEF v
  <1>3. /\ call \in [Threads -> Call] /\ waiters \in [Endpoints -> Seq(Threads)]
        /\ w \in Seq(Threads)
    BY DEF IInv, TypeOK
  <1>4. /\ Append(w, t) \in Seq(Threads) /\ Len(Append(w, t)) = Len(w) + 1
        /\ Append(w, t)[Len(w) + 1] = t
        /\ \A i \in 1 .. Len(w) : Append(w, t)[i] = w[i]
        /\ Len(w) \in Nat
    BY <1>3, AppendProperties
  <1>5. call'[t] = v /\ \A u \in Threads \ {t} : call'[u] = call[u]
    BY <1>2, <1>3
  <1>6. waiters'[e] = Append(w, t) /\ \A f \in Endpoints \ {e} : waiters'[f] = waiters[f]
    BY <1>2, <1>3
  <1>7. TypeOK'
    BY <1>1, <1>2, <1>3, <1>4 DEF IInv, TypeOK, epVars, hangVars, oweVars, histVars
  <1>8. CallsHaveTargets'
    BY <1>1, <1>5 DEF IInv, CallsHaveTargets, Parked
  <1>9. UnbornIsFree' /\ OnlyMessageHolds' /\ BatchIsOfProcess' /\ PendingBehindFullRing'
    BY <1>2 DEF IInv, UnbornIsFree, OnlyMessageHolds, BatchIsOfProcess, PendingBehindFullRing,
                epVars, hangVars, oweVars
  <1>10. \A f \in Endpoints : \A i \in 1 .. Len(waiters[f]) :
            /\ waiters[f][i] \in Threads \ {t}
            /\ call[waiters[f][i]].at \in Parked /\ call[waiters[f][i]].dst = f
    <2> SUFFICES ASSUME NEW f \in Endpoints, NEW i \in 1 .. Len(waiters[f])
                 PROVE  /\ waiters[f][i] \in Threads \ {t}
                        /\ call[waiters[f][i]].at \in Parked /\ call[waiters[f][i]].dst = f
      OBVIOUS
    <2>1. waiters[f][i] \in Threads
      BY <1>3, ElementOfSeq
    <2> QED
      BY <1>2, <2>1 DEF IInv, WaitersAreParked
  <1>11. WaitersAreParked'
    <2>1. ASSUME NEW f \in Endpoints, NEW i \in 1 .. Len(waiters'[f])
          PROVE  call'[waiters'[f][i]].at \in Parked /\ call'[waiters'[f][i]].dst = f
      <3>1. CASE f = e
        <4>1. i \in 1 .. Len(w) \/ i = Len(w) + 1
          BY <1>4, <1>6, <3>1
        <4>2. CASE i \in 1 .. Len(w)
          <5>1. waiters'[f][i] = waiters[f][i] /\ i \in 1 .. Len(waiters[f])
            BY <1>4, <1>6, <3>1, <4>2
          <5>2. call'[waiters[f][i]] = call[waiters[f][i]]
            BY <1>5, <1>10, <5>1
          <5> QED
            BY <1>10, <5>1, <5>2
        <4>3. CASE i = Len(w) + 1
          BY <1>1, <1>4, <1>5, <1>6, <3>1, <4>3
        <4> QED
          BY <4>1, <4>2, <4>3
      <3>2. CASE f # e
        BY <1>5, <1>6, <1>10, <3>2
      <3> QED
        BY <3>1, <3>2
    <2>2. ASSUME NEW f \in Endpoints, NEW i \in 1 .. Len(waiters'[f]),
                 NEW j \in 1 .. Len(waiters'[f]), waiters'[f][i] = waiters'[f][j]
          PROVE  i = j
      <3>1. \A k, l \in 1 .. Len(waiters[f]) : waiters[f][k] = waiters[f][l] => k = l
        BY DEF IInv, WaitersAreParked
      <3>2. CASE f = e
        <4>1. \A k \in 1 .. Len(w) : w[k] # t
          BY <1>10
        <4>2. (i \in 1 .. Len(w) \/ i = Len(w) + 1) /\ (j \in 1 .. Len(w) \/ j = Len(w) + 1)
          BY <1>4, <1>6, <3>2
        <4> QED
          BY <1>4, <1>6, <2>2, <3>1, <3>2, <4>1, <4>2
      <3>3. CASE f # e
        BY <1>6, <2>2, <3>1, <3>3
      <3> QED
        BY <3>2, <3>3
    <2>3. ASSUME NEW f \in Endpoints, waiters'[f] # << >>
          PROVE  IsMessage(f)'
      BY <1>2, <1>6, <2>3 DEF IInv, WaitersAreParked, IsMessage, epVars
    <2>4. ASSUME NEW u \in Threads, call'[u].at \in Parked
          PROVE  SeqHas(waiters'[call'[u].dst], u)
      <3>1. CASE u = t
        <4>1. Len(w) + 1 \in 1 .. Len(Append(w, t))
          BY <1>4
        <4> QED
          BY <1>1, <1>4, <1>5, <1>6, <3>1, <4>1 DEF SeqHas
      <3>2. CASE u # t
        <4>1. call'[u] = call[u] /\ call[u].at \in Parked /\ call[u].dst \in Endpoints
          BY <1>5, <2>4, <3>2 DEF IInv, CallsHaveTargets, Parked
        <4>2. PICK i \in 1 .. Len(waiters[call[u].dst]) : waiters[call[u].dst][i] = u
          BY <4>1 DEF IInv, WaitersAreParked, SeqHas
        <4>3. CASE call[u].dst = e
          <5>1. i \in 1 .. Len(Append(w, t)) /\ Append(w, t)[i] = u
            BY <1>4, <4>2, <4>3
          <5> QED
            BY <1>6, <4>1, <4>3, <5>1 DEF SeqHas
        <4>4. CASE call[u].dst # e
          BY <1>6, <4>1, <4>2, <4>4 DEF SeqHas
        <4> QED
          BY <4>3, <4>4
      <3> QED
        BY <3>1, <3>2
    <2> QED
      BY <2>1, <2>2, <2>3, <2>4 DEF WaitersAreParked
  <1>12. ParkedMayUse'
    BY <1>1, <1>2, <1>5 DEF IInv, ParkedMayUse, MayUse, epVars
  <1> QED
    BY <1>7, <1>8, <1>9, <1>11, <1>12 DEF IInv

\* ipc_recv_blocking_for.
LEMMA RecvBlockingKeeps ==
    ASSUME IInv, NEW t \in Threads, NEW e \in Endpoints, RecvBlocking(t, e)
    PROVE  IInv'
  <1>1. "parked_recv" \in Parked
    BY DEF Parked
  <1> QED
    BY <1>1, ParkKeeps DEF RecvBlocking

\* ipc_endpoint_wait_for.
LEMMA EndpointWaitKeeps ==
    ASSUME IInv, NEW t \in Threads, NEW e \in Endpoints, EndpointWait(t, e)
    PROVE  IInv'
  <1>1. CASE Park(t, e, "parked_wait")
    <2>1. "parked_wait" \in Parked
      BY DEF Parked
    <2> QED
      BY <1>1, <2>1, ParkKeeps
  <1>2. CASE ~Park(t, e, "parked_wait")
    <2> DEFINE v == [at |-> "drain", src |-> NONE, dst |-> e]
    <2>1. v \in Call /\ v.at = "drain" /\ v.at \notin Parked /\ v.dst = e
      BY DEF Call, Parked
    <2>2. /\ call[t].at \notin Parked /\ call' = [call EXCEPT ![t] = v]
          /\ UNCHANGED <<epVars, waiters, hangVars, oweVars, ctx, histVars>>
      BY <1>2 DEF EndpointWait, Parked
    <2> HIDE DEF v
    <2>3. Unparked(call')
      BY <2>1, <2>2, UnparkedMove
    <2>4. TypeOK'
      BY <2>2, <2>3 DEF Unparked, IInv, TypeOK, epVars, hangVars, oweVars, histVars
    <2> QED
      BY <2>2, <2>3, <2>4, QuietStep DEF epVars, hangVars, oweVars
  <1> QED
    BY <1>1, <1>2

\* A wait list without its i-th waiter.
Unlinked(w, i) == SubSeq(w, 1, i - 1) \o SubSeq(w, i + 1, Len(w))

\* Unlinking moves the later waiters up by one and loses no other.
LEMMA UnlinkedProperties ==
    ASSUME NEW S, NEW w \in Seq(S), NEW i \in 1 .. Len(w)
    PROVE  /\ Unlinked(w, i) \in Seq(S) /\ Len(w) \in Nat /\ Len(Unlinked(w, i)) = Len(w) - 1
           /\ \A k \in 1 .. Len(Unlinked(w, i)) :
                 Unlinked(w, i)[k] = IF k < i THEN w[k] ELSE w[k + 1]
  <1> DEFINE a == SubSeq(w, 1, i - 1)
             b == SubSeq(w, i + 1, Len(w))
             r == Unlinked(w, i)
  <1>1. /\ Len(w) \in Nat /\ i \in Nat \ {0} /\ i <= Len(w)
        /\ \A k \in 1 .. Len(w) : w[k] \in S
    OBVIOUS
  <1>2. a \in Seq(S) /\ Len(a) = i - 1 /\ \A k \in 1 .. i - 1 : a[k] = w[k]
    BY <1>1, SubSeqProperties
  <1>3. b \in Seq(S) /\ Len(b) = Len(w) - i /\ \A k \in 1 .. Len(w) - i : b[k] = w[k + i]
    BY <1>1, SubSeqProperties
  <1>4. r = a \o b
    BY DEF Unlinked
  <1> HIDE DEF a, b, r
  <1>5. /\ r \in Seq(S) /\ Len(r) = Len(a) + Len(b)
        /\ \A k \in 1 .. Len(a) + Len(b) : r[k] = IF k <= Len(a) THEN a[k] ELSE b[k - Len(a)]
    BY <1>2, <1>3, <1>4, ConcatProperties
  <1>6. Len(r) = Len(w) - 1
    BY <1>1, <1>2, <1>3, <1>5
  <1>7. ASSUME NEW k \in 1 .. Len(r)
        PROVE  r[k] = IF k < i THEN w[k] ELSE w[k + 1]
    <2>1. k \in Nat \ {0} /\ k <= Len(w) - 1 /\ k \in 1 .. Len(a) + Len(b)
      BY <1>1, <1>5, <1>6
    <2>2. CASE k < i
      <3>1. k <= i - 1 /\ k \in 1 .. i - 1
        BY <1>1, <2>1, <2>2
      <3> QED
        BY <1>2, <1>5, <2>1, <2>2, <3>1
    <2>3. CASE ~(k < i)
      <3>1. ~(k <= i - 1) /\ k - (i - 1) \in 1 .. Len(w) - i /\ (k - (i - 1)) + i = k + 1
        BY <1>1, <2>1, <2>3
      <3>2. r[k] = b[k - (i - 1)]
        BY <1>2, <1>5, <2>1, <3>1
      <3>3. b[k - (i - 1)] = w[(k - (i - 1)) + i]
        BY <1>3, <3>1
      <3> QED
        BY <2>3, <3>1, <3>2, <3>3
    <2> QED
      BY <2>2, <2>3
  <1> QED
    BY <1>1, <1>5, <1>6, <1>7 DEF r

\* The deadline of a timed wait: the thread leaves the list it was parked on.
LEMMA WaitTimeoutKeeps ==
    ASSUME IInv, NEW t \in Threads, WaitTimeout(t)
    PROVE  IInv'
  <1> DEFINE e == call[t].dst
             w == waiters[e]
             v == [call[t] EXCEPT !.at = "drain"]
  <1>1. call[t].at \in Parked /\ e \in Endpoints /\ call[t] \in Call
    BY DEF WaitTimeout, IInv, TypeOK, CallsHaveTargets, Parked
  <1>2. v \in Call /\ v.at = "drain" /\ v.at \notin Parked /\ v.dst \in Endpoints
    BY <1>1 DEF Call, Parked
  <1>3. /\ call \in [Threads -> Call] /\ waiters \in [Endpoints -> Seq(Threads)]
        /\ w \in Seq(Threads)
    BY <1>1 DEF IInv, TypeOK
  <1>4. call' = [call EXCEPT ![t] = v]
    BY <1>3 DEF WaitTimeout
  <1>5. UNCHANGED <<epVars, hangVars, oweVars, ctx, histVars>>
    BY DEF WaitTimeout
  <1>6. PICK i \in 1 .. Len(w) :
           /\ w[i] = t
           /\ waiters' = [waiters EXCEPT ![e] = Unlinked(w, i)]
    BY DEF WaitTimeout, Unlinked
  <1> DEFINE r == Unlinked(w, i)
  <1>7. /\ r \in Seq(Threads) /\ Len(w) \in Nat /\ Len(r) = Len(w) - 1
        /\ \A k \in 1 .. Len(r) : r[k] = IF k < i THEN w[k] ELSE w[k + 1]
    BY <1>3, UnlinkedProperties
  <1>8. waiters' = [waiters EXCEPT ![e] = r]
    BY <1>6
  <1> HIDE DEF v, r
  <1>9. call'[t] = v /\ \A u \in Threads \ {t} : call'[u] = call[u]
    BY <1>3, <1>4
  <1>10. waiters'[e] = r /\ \A f \in Endpoints \ {e} : waiters'[f] = waiters[f]
    BY <1>1, <1>3, <1>8
  <1>11. TypeOK'
    BY <1>1, <1>2, <1>3, <1>4, <1>5, <1>7, <1>8
       DEF IInv, TypeOK, epVars, hangVars, oweVars, histVars
  <1>12. CallsHaveTargets'
    BY <1>2, <1>9 DEF IInv, CallsHaveTargets
  <1>13. UnbornIsFree' /\ OnlyMessageHolds' /\ BatchIsOfProcess' /\ PendingBehindFullRing'
    BY <1>5 DEF IInv, UnbornIsFree, OnlyMessageHolds, BatchIsOfProcess, PendingBehindFullRing,
                epVars, hangVars, oweVars
  <1>14. ParkedMayUse'
    BY <1>2, <1>5, <1>9 DEF IInv, ParkedMayUse, MayUse, epVars
  <1>15. \A k, l \in 1 .. Len(w) : w[k] = w[l] => k = l
    BY <1>1 DEF IInv, WaitersAreParked
  <1>16. \A k \in 1 .. Len(r) :
            \E l \in 1 .. Len(w) : l # i /\ l = (IF k < i THEN k ELSE k + 1) /\ r[k] = w[l]
    <2> SUFFICES ASSUME NEW k \in 1 .. Len(r)
                 PROVE  \E l \in 1 .. Len(w) :
                            l # i /\ l = (IF k < i THEN k ELSE k + 1) /\ r[k] = w[l]
      OBVIOUS
    <2>1. CASE k < i
      BY <1>6, <1>7, <2>1
    <2>2. CASE ~(k < i)
      <3>1. k + 1 \in 1 .. Len(w) /\ k + 1 # i
        BY <1>6, <1>7, <2>2
      <3> QED
        BY <1>7, <2>2, <3>1
    <2> QED
      BY <2>1, <2>2
  <1>17. WaitersAreParked'
    <2>1. ASSUME NEW f \in Endpoints, NEW k \in 1 .. Len(waiters'[f])
          PROVE  call'[waiters'[f][k]].at \in Parked /\ call'[waiters'[f][k]].dst = f
      <3>1. PICK l \in 1 .. Len(waiters[f]) :
               waiters'[f][k] = waiters[f][l] /\ (f = e => l # i)
        BY <1>10, <1>16
      <3>2. waiters[f][l] \in Threads
        BY <1>3, ElementOfSeq
      <3>3. call[waiters[f][l]].at \in Parked /\ call[waiters[f][l]].dst = f
        BY DEF IInv, WaitersAreParked
      <3>4. waiters[f][l] # t
        BY <1>6, <1>15, <3>1, <3>3
      <3> QED
        BY <1>9, <3>1, <3>2, <3>3, <3>4
    <2>2. ASSUME NEW f \in Endpoints, NEW k \in 1 .. Len(waiters'[f]),
                 NEW l \in 1 .. Len(waiters'[f]), waiters'[f][k] = waiters'[f][l]
          PROVE  k = l
      <3>1. CASE f = e
        <4>1. k \in 1 .. Len(r) /\ l \in 1 .. Len(r) /\ r[k] = r[l]
          BY <1>10, <2>2, <3>1
        <4>2. (IF k < i THEN k ELSE k + 1) = (IF l < i THEN l ELSE l + 1)
          BY <1>15, <1>16, <4>1
        <4> QED
          BY <1>6, <4>1, <4>2
      <3>2. CASE f # e
        BY <1>10, <2>2, <3>2 DEF IInv, WaitersAreParked
      <3> QED
        BY <3>1, <3>2
    <2>3. ASSUME NEW f \in Endpoints, waiters'[f] # << >>
          PROVE  IsMessage(f)'
      <3>1. IsMessage(e)
        BY <1>1, <1>6 DEF IInv, WaitersAreParked
      <3> QED
        BY <1>5, <1>10, <2>3, <3>1 DEF IInv, WaitersAreParked, IsMessage, epVars
    <2>4. ASSUME NEW u \in Threads, call'[u].at \in Parked
          PROVE  SeqHas(waiters'[call'[u].dst], u)
      <3>1. u # t /\ call'[u] = call[u] /\ call[u].at \in Parked
        BY <1>2, <1>9, <2>4
      <3>2. PICK l \in 1 .. Len(waiters[call[u].dst]) : waiters[call[u].dst][l] = u
        BY <3>1 DEF IInv, WaitersAreParked, SeqHas
      <3>3. call[u].dst \in Endpoints
        BY <3>1 DEF IInv, CallsHaveTargets, Parked
      <3>4. CASE call[u].dst = e
        <4>1. l \in 1 .. Len(w) /\ w[l] = u /\ l # i
          BY <1>6, <3>1, <3>2, <3>4
        <4>2. CASE l < i
          <5>1. l \in 1 .. Len(r) /\ r[l] = u
            BY <1>6, <1>7, <4>1, <4>2
          <5> QED
            BY <1>10, <3>1, <3>4, <5>1 DEF SeqHas
        <4>3. CASE ~(l < i)
          <5>1. l - 1 \in 1 .. Len(r) /\ ~(l - 1 < i) /\ (l - 1) + 1 = l
            BY <1>6, <1>7, <4>1, <4>3
          <5>2. r[l - 1] = u
            BY <1>7, <4>1, <5>1
          <5> QED
            BY <1>10, <3>1, <3>4, <5>1, <5>2 DEF SeqHas
        <4> QED
          BY <4>2, <4>3
      <3>5. CASE call[u].dst # e
        BY <1>10, <3>1, <3>2, <3>3, <3>5 DEF SeqHas
      <3> QED
        BY <3>4, <3>5
    <2> QED
      BY <2>1, <2>2, <2>3, <2>4 DEF WaitersAreParked
  <1> QED
    BY <1>11, <1>12, <1>13, <1>14, <1>17 DEF IInv

\* ipc_hangup_deliver: into the ring, behind the others waiting, or dropped with
\* a destination that is gone.
LEMMA HangupStep ==
    ASSUME IInv, NEW d \in Endpoints, NEW m \in Message, HangupDeliver(d, m),
           UNCHANGED <<next_id, type, owner>>
    PROVE  /\ queue' \in [Endpoints -> Seq(Message)] /\ pending' \in [Endpoints -> Seq(Message)]
           /\ call' \in [Threads -> Call] /\ waiters' \in [Endpoints -> Seq(Threads)]
           /\ CallsHaveTargets' /\ WaitersAreParked' /\ ParkedMayUse'
           /\ OnlyMessageHolds' /\ PendingBehindFullRing'
  <1>1. /\ queue \in [Endpoints -> Seq(Message)] /\ pending \in [Endpoints -> Seq(Message)]
        /\ Len(queue[d]) \in Nat /\ QUEUE_SLOTS \in Nat
    BY EndpointAssumption DEF IInv, TypeOK, QUEUE_SLOTS
  <1>2. CASE ~IsMessage(d)
    <2>1. UNCHANGED <<queue, call, waiters, pending>>
      BY <1>2 DEF HangupDeliver
    <2>2. /\ call' \in [Threads -> Call] /\ waiters' \in [Endpoints -> Seq(Threads)]
          /\ CallsHaveTargets' /\ WaitersAreParked' /\ ParkedMayUse'
      BY <2>1, UnparkedSame, ParkingKept
    <2> QED
      BY <1>1, <2>1, <2>2 DEF IInv, OnlyMessageHolds, PendingBehindFullRing
  <1>3. CASE IsMessage(d) /\ pending[d] = << >> /\ Len(queue[d]) < QUEUE_SLOTS
    <2>1. EnqueueLocked(d, queue[d], m, call) /\ UNCHANGED pending
      BY <1>3 DEF HangupDeliver, IntoRingOrPending
    <2> QED
      BY <1>1, <1>3, <2>1, UnparkedSame, EnqueueStep
  <1>4. CASE IsMessage(d) /\ ~(pending[d] = << >> /\ Len(queue[d]) < QUEUE_SLOTS)
    <2>1. /\ pending' = [pending EXCEPT ![d] = Append(@, m)]
          /\ UNCHANGED <<queue, call, waiters>>
      BY <1>4 DEF HangupDeliver, IntoRingOrPending
    <2>2. /\ call' \in [Threads -> Call] /\ waiters' \in [Endpoints -> Seq(Threads)]
          /\ CallsHaveTargets' /\ WaitersAreParked' /\ ParkedMayUse'
      BY <2>1, UnparkedSame, ParkingKept
    <2>3. Append(pending[d], m) \in Seq(Message)
      BY <1>1, AppendProperties
    <2>4. pending' \in [Endpoints -> Seq(Message)]
      BY <1>1, <2>1, <2>3
    <2>5. OnlyMessageHolds'
      BY <1>1, <1>4, <2>1 DEF IInv, OnlyMessageHolds, IsMessage
    <2>6. Len(queue[d]) = QUEUE_SLOTS
      BY <1>1, <1>4 DEF IInv, PendingBehindFullRing
    <2>7. PendingBehindFullRing'
      BY <1>1, <2>1, <2>6 DEF IInv, PendingBehindFullRing
    <2> QED
      BY <1>1, <2>1, <2>2, <2>4, <2>5, <2>7
  <1> QED
    BY <1>2, <1>3, <1>4

\* One hangup of a dead endpoint leaves the batch.
LEMMA DeliverContactKeeps ==
    ASSUME IInv, NEW s \in Endpoints, DeliverContact(s)
    PROVE  IInv'
  <1>1. /\ batch[s] # << >> /\ batch' = [batch EXCEPT ![s] = Tail(@)]
        /\ HangupDeliver(Head(batch[s]), HangupMessage(s, owner[s]))
        /\ UNCHANGED <<next_id, type, owner, notify_count, contacts, contacts_overflowed,
                       watches, watch_batch, reported, ctx, histVars>>
    BY DEF DeliverContact
  <1>2. batch \in [Endpoints -> Seq(Endpoints)] /\ batch[s] \in Seq(Endpoints)
    BY DEF IInv, TypeOK
  <1>3. Head(batch[s]) \in Endpoints /\ Tail(batch[s]) \in Seq(Endpoints)
    BY <1>1, <1>2, HeadTailProperties
  <1>4. HangupMessage(s, owner[s]) \in Message
    BY <1>1, HangupIsMessage DEF IInv, BatchIsOfProcess
  <1>5. /\ queue' \in [Endpoints -> Seq(Message)] /\ pending' \in [Endpoints -> Seq(Message)]
        /\ call' \in [Threads -> Call] /\ waiters' \in [Endpoints -> Seq(Threads)]
        /\ CallsHaveTargets' /\ WaitersAreParked' /\ ParkedMayUse'
        /\ OnlyMessageHolds' /\ PendingBehindFullRing'
    BY <1>1, <1>3, <1>4, HangupStep
  <1>6. batch' \in [Endpoints -> Seq(Endpoints)]
    BY <1>1, <1>2, <1>3
  <1>7. TypeOK'
    BY <1>1, <1>5, <1>6 DEF IInv, TypeOK, histVars
  <1>8. UnbornIsFree' /\ BatchIsOfProcess'
    BY <1>1, <1>2 DEF IInv, UnbornIsFree, BatchIsOfProcess
  <1> QED
    BY <1>5, <1>7, <1>8 DEF IInv

\* One watch on a dead context leaves the batch.
LEMMA DeliverWatchKeeps ==
    ASSUME IInv, NEW c \in Contexts, DeliverWatch(c)
    PROVE  IInv'
  <1>1. /\ watch_batch[c] # << >> /\ watch_batch' = [watch_batch EXCEPT ![c] = Tail(@)]
        /\ HangupDeliver(Head(watch_batch[c]), HangupMessage(NONE, c))
        /\ UNCHANGED <<next_id, type, owner, notify_count, contacts, contacts_overflowed,
                       watches, batch, reported, ctx, histVars>>
    BY DEF DeliverWatch
  <1>2. watch_batch \in [Contexts -> Seq(Endpoints)] /\ watch_batch[c] \in Seq(Endpoints)
    BY DEF IInv, TypeOK
  <1>3. Head(watch_batch[c]) \in Endpoints /\ Tail(watch_batch[c]) \in Seq(Endpoints)
    BY <1>1, <1>2, HeadTailProperties
  <1>4. HangupMessage(NONE, c) \in Message
    BY HangupIsMessage
  <1>5. /\ queue' \in [Endpoints -> Seq(Message)] /\ pending' \in [Endpoints -> Seq(Message)]
        /\ call' \in [Threads -> Call] /\ waiters' \in [Endpoints -> Seq(Threads)]
        /\ CallsHaveTargets' /\ WaitersAreParked' /\ ParkedMayUse'
        /\ OnlyMessageHolds' /\ PendingBehindFullRing'
    BY <1>1, <1>3, <1>4, HangupStep
  <1>6. watch_batch' \in [Contexts -> Seq(Endpoints)]
    BY <1>1, <1>2, <1>3
  <1>7. TypeOK'
    BY <1>1, <1>5, <1>6 DEF IInv, TypeOK, histVars
  <1>8. UnbornIsFree' /\ BatchIsOfProcess'
    BY <1>1 DEF IInv, UnbornIsFree, BatchIsOfProcess
  <1> QED
    BY <1>5, <1>7, <1>8 DEF IInv

\* A list turned round holds what it held.
LEMMA ReversedType ==
    ASSUME NEW S, NEW s \in Seq(S)
    PROVE  Reversed(s) \in Seq(S)
  <1>1. Len(s) \in Nat /\ \A i \in 1 .. Len(s) : s[Len(s) + 1 - i] \in S
    OBVIOUS
  <1> QED
    BY <1>1 DEF Reversed

\* ipc_endpoints_release_owner.  A thread of the dead process can be on the wait
\* list of that process's endpoints only, so no list keeps a reaped thread.
LEMMA ReleaseOwnerKeeps ==
    ASSUME IInv, NEW c \in Contexts, ReleaseOwner(c)
    PROVE  IInv'
  <1> DEFINE dying == OwnedBy(c)
  <1>1. /\ type' = [e \in Endpoints |-> IF e \in dying THEN "released" ELSE type[e]]
        /\ queue' = [e \in Endpoints |-> IF e \in dying THEN << >> ELSE queue[e]]
        /\ waiters' = [e \in Endpoints |-> IF e \in dying THEN << >> ELSE waiters[e]]
        /\ batch' = [e \in Endpoints |-> IF e \in dying THEN Reversed(contacts[e]) ELSE batch[e]]
        /\ pending' = [e \in Endpoints |-> IF e \in dying THEN << >> ELSE pending[e]]
        /\ UNCHANGED <<next_id, owner, notify_count, histVars>>
    BY DEF ReleaseOwner, ClearPending
  <1>2. /\ ctx' = [ctx EXCEPT ![c] = "gone"]
        /\ contacts' = [e \in Endpoints |-> IF e \in dying THEN << >> ELSE contacts[e]]
        /\ reported' = reported \cup {e \in dying : contacts_overflowed[e]}
        /\ contacts_overflowed' =
              [e \in Endpoints |-> IF e \in dying THEN FALSE ELSE contacts_overflowed[e]]
        /\ watch_batch' = [watch_batch EXCEPT ![c] = Reversed(watches[c])]
        /\ watches' = [watches EXCEPT ![c] = << >>]
    BY DEF ReleaseOwner
  <1>3. dying \in SUBSET Endpoints /\ \A e \in dying : owner[e] = c /\ Live(e)
    BY DEF OwnedBy
  <1>4. ASSUME NEW t \in Threads
        PROVE  /\ call'[t] \in Call
               /\ call'[t].at \in Parked => call'[t] = call[t] /\ call[t].dst \notin dying
               /\ call'[t] = Dead \/ (call'[t].dst = call[t].dst /\ call'[t].src = call[t].src)
               /\ call'[t].at \notin {"idle", "dead"} => call[t].at \notin {"idle", "dead"}
               /\ call'[t].at = "note_alloc" => call[t].at = "note_alloc"
               /\ ThreadContext[t] # c /\ call[t].dst \notin dying => call'[t] = call[t]
    <2>1. call'[t] = IF ThreadContext[t] = c THEN Dead
                     ELSE IF call[t].at \in Parked /\ call[t].dst \in dying
                          THEN [call[t] EXCEPT !.at = Resumed(@)]
                     ELSE call[t]
      BY DEF ReleaseOwner, CallsAfterRelease
    <2>2. call[t] \in Call
      BY DEF IInv, TypeOK
    <2>3. CASE ThreadContext[t] = c
      <3>1. call'[t] = Dead
        BY <2>1, <2>3
      <3> QED
        BY <2>3, <3>1, RestingCalls DEF Dead, Parked
    <2>4. CASE ThreadContext[t] # c /\ call[t].at \in Parked /\ call[t].dst \in dying
      <3>1. call'[t] = [call[t] EXCEPT !.at = Resumed(@)]
        BY <2>1, <2>4
      <3>2. call'[t] \in Call /\ call'[t].at \in {"woken_recv", "drain"}
            /\ call'[t].dst = call[t].dst /\ call'[t].src = call[t].src
        BY <2>2, <3>1 DEF Call, Resumed
      <3> QED
        BY <2>4, <3>2 DEF Parked
    <2>5. CASE ThreadContext[t] # c /\ ~(call[t].at \in Parked /\ call[t].dst \in dying)
      <3>1. call'[t] = call[t]
        BY <2>1, <2>5
      <3> QED
        BY <2>2, <2>5, <3>1
    <2> QED
      BY <2>3, <2>4, <2>5
  <1>5. call' \in [Threads -> Call]
    BY <1>4 DEF ReleaseOwner, CallsAfterRelease
  <1> HIDE DEF dying
  <1>6. TypeOK'
    <2>1. type' \in [Endpoints -> {"free", "message", "notification", "released"}]
      BY <1>1 DEF IInv, TypeOK
    <2>2. /\ queue' \in [Endpoints -> Seq(Message)] /\ pending' \in [Endpoints -> Seq(Message)]
          /\ waiters' \in [Endpoints -> Seq(Threads)]
      BY <1>1 DEF IInv, TypeOK
    <2>3. contacts' \in [Endpoints -> Seq(Endpoints)] /\ batch' \in [Endpoints -> Seq(Endpoints)]
      <3>1. \A e \in Endpoints : Reversed(contacts[e]) \in Seq(Endpoints)
        BY ReversedType DEF IInv, TypeOK
      <3> QED
        BY <1>1, <1>2, <3>1 DEF IInv, TypeOK
    <2>4. /\ watches' \in [Contexts -> Seq(Endpoints)]
          /\ watch_batch' \in [Contexts -> Seq(Endpoints)]
      <3>1. Reversed(watches[c]) \in Seq(Endpoints)
        BY ReversedType DEF IInv, TypeOK
      <3> QED
        BY <1>2, <3>1 DEF IInv, TypeOK
    <2>5. reported' \in SUBSET Endpoints /\ ctx' \in [Contexts -> {"live", "zombie", "gone"}]
      BY <1>2, <1>3 DEF IInv, TypeOK
    <2>6. contacts_overflowed' \in [Endpoints -> BOOLEAN]
      <3>1. contacts_overflowed \in [Endpoints -> BOOLEAN]
        BY DEF IInv, TypeOK
      <3>2. \A e \in Endpoints :
               (IF e \in dying THEN FALSE ELSE contacts_overflowed[e]) \in BOOLEAN
        BY <3>1, Zenon
      <3> QED
        BY <1>2, <3>2, Zenon
    <2> QED
      BY <1>1, <1>5, <2>1, <2>2, <2>3, <2>4, <2>5, <2>6 DEF IInv, TypeOK, histVars
  <1>7. CallsHaveTargets'
    <2> SUFFICES ASSUME NEW t \in Threads
                 PROVE  /\ call'[t].at \notin {"idle", "dead"} => call'[t].dst \in Endpoints
                        /\ call'[t].at = "note_alloc" => call'[t].src \in Endpoints
      BY DEF CallsHaveTargets
    <2>1. Dead.at = "dead"
      BY DEF Dead
    <2> QED
      BY <1>4, <2>1 DEF IInv, CallsHaveTargets
  <1>8. UnbornIsFree' /\ OnlyMessageHolds'
    BY <1>1, <1>3 DEF IInv, UnbornIsFree, OnlyMessageHolds, Live
  <1>9. BatchIsOfProcess'
    BY <1>1, <1>3 DEF IInv, BatchIsOfProcess
  <1>10. PendingBehindFullRing'
    <2> SUFFICES ASSUME NEW e \in Endpoints
                 PROVE  /\ Len(queue'[e]) <= QUEUE_SLOTS
                        /\ pending'[e] # << >> => Len(queue'[e]) = QUEUE_SLOTS
      BY DEF PendingBehindFullRing
    <2>1. CASE e \in dying
      <3>1. queue'[e] = << >> /\ pending'[e] = << >>
        BY <1>1, <2>1
      <3> QED
        BY <3>1, EndpointAssumption DEF QUEUE_SLOTS
    <2>2. CASE e \notin dying
      BY <1>1, <2>2 DEF IInv, PendingBehindFullRing
    <2> QED
      BY <2>1, <2>2
  <1>11. ASSUME NEW e \in Endpoints, e \notin dying, NEW i \in 1 .. Len(waiters[e])
         PROVE  waiters[e][i] \in Threads /\ call'[waiters[e][i]] = call[waiters[e][i]]
    <2> DEFINE u == waiters[e][i]
    <2>1. u \in Threads
      BY ElementOfSeq DEF IInv, TypeOK
    <2>2. call[u].at \in Parked /\ call[u].dst = e
      BY DEF IInv, WaitersAreParked
    <2>3. IsMessage(e)
      <3>1. waiters[e] # << >>
        OBVIOUS
      <3> QED
        BY <3>1 DEF IInv, WaitersAreParked
    <2>4. ThreadContext[u] \in {KERNEL, owner[e]}
      BY <2>1, <2>2 DEF IInv, ParkedMayUse, MayUse
    <2>5. ThreadContext[u] # c
      BY <1>11, <2>3, <2>4, EndpointAssumption DEF dying, OwnedBy, Live, IsMessage
    <2> QED
      BY <1>4, <1>11, <2>1, <2>2, <2>5
  <1>12. WaitersAreParked'
    <2>1. ASSUME NEW e \in Endpoints, e \in dying
          PROVE  waiters'[e] = << >> /\ Len(waiters'[e]) = 0
      BY <1>1, <2>1
    <2>2. ASSUME NEW e \in Endpoints, e \notin dying
          PROVE  waiters'[e] = waiters[e] /\ type'[e] = type[e]
      BY <1>1, <2>2
    <2>3. ASSUME NEW e \in Endpoints, NEW i \in 1 .. Len(waiters'[e])
          PROVE  call'[waiters'[e][i]].at \in Parked /\ call'[waiters'[e][i]].dst = e
      BY <1>11, <2>1, <2>2 DEF IInv, WaitersAreParked
    <2>4. ASSUME NEW e \in Endpoints, NEW i \in 1 .. Len(waiters'[e]),
                 NEW j \in 1 .. Len(waiters'[e]), waiters'[e][i] = waiters'[e][j]
          PROVE  i = j
      BY <2>1, <2>2, <2>4 DEF IInv, WaitersAreParked
    <2>5. ASSUME NEW e \in Endpoints, waiters'[e] # << >>
          PROVE  IsMessage(e)'
      BY <2>1, <2>2, <2>5 DEF IInv, WaitersAreParked, IsMessage
    <2>6. ASSUME NEW t \in Threads, call'[t].at \in Parked
          PROVE  SeqHas(waiters'[call'[t].dst], t)
      <3>1. call'[t] = call[t] /\ call[t].at \in Parked /\ call[t].dst \notin dying
        BY <1>4, <2>6
      <3>2. call[t].dst \in Endpoints /\ SeqHas(waiters[call[t].dst], t)
        BY <3>1 DEF IInv, CallsHaveTargets, WaitersAreParked, Parked
      <3> QED
        BY <2>2, <3>1, <3>2
    <2> QED
      BY <2>3, <2>4, <2>5, <2>6 DEF WaitersAreParked
  <1>13. ParkedMayUse'
    <2> SUFFICES ASSUME NEW t \in Threads, call'[t].at \in Parked
                 PROVE  MayUse(t, call[t].dst) /\ call'[t] = call[t] /\ UNCHANGED owner
      BY DEF ParkedMayUse, MayUse
    <2> QED
      BY <1>1, <1>4 DEF IInv, ParkedMayUse
  <1> QED
    BY <1>6, <1>7, <1>8, <1>9, <1>10, <1>12, <1>13 DEF IInv

----------------------------------------------------------------------------
(***************************************************************************)
(* The invariant.                                                          *)
(***************************************************************************)

\* An empty table satisfies it.
LEMMA InitIInv == Init => IInv
  <1> SUFFICES ASSUME Init PROVE IInv
    OBVIOUS
  <1>1. 1 \in 1 .. MaxId + 1 /\ 0 \in 0 .. NOTIFY_MAX /\ QUEUE_SLOTS \in Nat
    BY EndpointAssumption DEF QUEUE_SLOTS
  <1>2. TypeOK
    <2>1. call \in [Threads -> Call]
      BY RestingCalls DEF Init
    <2> QED
      BY <1>1, <2>1 DEF Init, TypeOK
  <1>3. CallsHaveTargets /\ ParkedMayUse
    BY DEF Init, CallsHaveTargets, ParkedMayUse, Idle, Parked
  <1>4. UnbornIsFree /\ OnlyMessageHolds /\ BatchIsOfProcess
    BY DEF Init, UnbornIsFree, OnlyMessageHolds, BatchIsOfProcess
  <1>5. PendingBehindFullRing
    BY <1>1 DEF Init, PendingBehindFullRing
  <1>6. WaitersAreParked
    BY DEF Init, WaitersAreParked, Idle, Parked
  <1> QED
    BY <1>2, <1>3, <1>4, <1>5, <1>6 DEF IInv

\* Every step keeps it.
LEMMA NextIInv == IInv /\ [Next]_vars => IInv'
  <1> SUFFICES ASSUME IInv, [Next]_vars PROVE IInv'
    OBVIOUS
  <1>1. ASSUME NEW c \in Contexts \cup {KERNEL}, NEW ty \in {"message", "notification"},
               CreateTyped(c, ty)
        PROVE  IInv'
    BY <1>1, CreateKeeps
  <1>2. ASSUME NEW t \in Threads, ThreadCall(t)
        PROVE  IInv'
    <2>1. ASSUME NEW s \in Endpoints \cup {NONE}, NEW d \in Endpoints, SendBegin(t, s, d)
          PROVE  IInv'
      BY <2>1, SendBeginKeeps
    <2>2. ASSUME NEW e \in Endpoints, RecvFor(t, e)
          PROVE  IInv'
      BY <2>2, RecvForKeeps
    <2>3. ASSUME NEW e \in Endpoints, RecvBlocking(t, e)
          PROVE  IInv'
      BY <2>3, RecvBlockingKeeps
    <2>4. ASSUME NEW e \in Endpoints, EndpointWait(t, e)
          PROVE  IInv'
      BY <2>4, EndpointWaitKeeps
    <2>5. ASSUME NEW e \in Endpoints, NotifyFrom(t, e)
          PROVE  IInv'
      BY <2>5, NotifyFromKeeps
    <2>6. ASSUME NEW e \in Endpoints, WaitFor(t, e)
          PROVE  IInv'
      BY <2>6, WaitForKeeps
    <2> QED
      BY <1>2, <2>1, <2>2, <2>3, <2>4, <2>5, <2>6 DEF ThreadCall
  <1>3. ASSUME NEW t \in Threads, ThreadStep(t)
        PROVE  IInv'
    BY <1>3, SendRefusedKeeps, SendEnqueueKeeps, NoteCheckKeeps, NoteRecordKeeps,
       ResumeRecvKeeps, WaitTimeoutKeeps, DrainKeeps DEF ThreadStep
  <1>4. ASSUME NEW d \in Endpoints, KernelSend(d)
        PROVE  IInv'
    BY <1>4, KernelSendKeeps
  <1>5. ASSUME NEW c \in Contexts, NEW d \in Endpoints, ContextWatch(c, d)
        PROVE  IInv'
    BY <1>5, ContextWatchKeeps
  <1>6. ASSUME NEW c \in Contexts, Exit(c)
        PROVE  IInv'
    BY <1>6, ExitKeeps
  <1>7. ASSUME NEW c \in Contexts, ReleaseOwner(c)
        PROVE  IInv'
    BY <1>7, ReleaseOwnerKeeps
  <1>8. CASE Reaper
    BY <1>8, DeliverContactKeeps, DeliverWatchKeeps DEF Reaper
  <1>9. CASE UNCHANGED vars
    <2>1. TypeOK'
      BY <1>9 DEF IInv, TypeOK, vars, epVars, hangVars, oweVars, histVars
    <2> QED
      BY <1>9, <2>1, AsideKeeps DEF vars, epVars, hangVars, oweVars, histVars
  <1> QED
    BY <1>1, <1>2, <1>3, <1>4, <1>5, <1>6, <1>7, <1>8, <1>9 DEF Next

\* The invariant holds throughout every behaviour.
LEMMA Inductive == Spec => []IInv
  BY InitIInv, NextIInv, PTL DEF Spec

\* The state of the endpoint table, its rings, lists and calls stays well typed:
\* in particular notify_count never leaves the 32-bit range (ipc_notify_from)
\* and ids stay within those the table handed out.
THEOREM TypeCorrect == Spec => []TypeOK
  <1>1. IInv => TypeOK
    BY DEF IInv
  <1> QED
    BY <1>1, Inductive, PTL

\* However sends, receives and teardowns interleave, and whatever the queue
\* depth, a hangup waits on an endpoint's pending list only while every slot of
\* its ring is taken (ipc_hangup_deliver, ipc_endpoint_dequeue_locked): a
\* receiver that finds the ring empty has heard every hangup it is owed.
THEOREM PendingSafe == Spec => []PendingBehindFullRing
  <1>1. IInv => PendingBehindFullRing
    BY DEF IInv
  <1> QED
    BY <1>1, Inductive, PTL

\* The wait list of an endpoint and the threads parked on it agree, for any
\* number of threads: nobody is on two lists or on a list twice, nobody sleeps
\* on an endpoint that is gone, and no reaped thread is left on a list
\* (ipc_recv_blocking_for, ipc_endpoint_wait_for, ipc_endpoint_teardown).
THEOREM WaitersSafe == Spec => []WaitersAreParked
  <1>1. IInv => WaitersAreParked
    BY DEF IInv
  <1> QED
    BY <1>1, Inductive, PTL

----------------------------------------------------------------------------
(***************************************************************************)
(* Hangups. Why a peer hears of a death once, and last: the invariant      *)
(* Books, which relates contacts, teardown batch, rings and what was       *)
(* received.                                                               *)
(***************************************************************************)

\* A thread inside a send owns its source, which lives until the call ends: the
\* teardown waits for threads on a CPU.
SendersLive ==
    \A t \in Threads :
        call[t].at \in InSend /\ call[t].src \in Endpoints =>
            Live(call[t].src) /\ owner[call[t].src] = ThreadContext[t]

\* An endpoint of the kernel is never torn down.
KernelStays == \A e \in Endpoints : owner[e] = KERNEL => Live(e)

\* Of an endpoint that was not torn down no hangup is anywhere.
SilentWhileAlive ==
    \A s \in Endpoints :
        type[s] # "released" =>
            batch[s] = << >> /\ \A d \in Endpoints : HangupsOf(s, d) = {} /\ heard[d][s] = 0

\* Only a live message endpoint has contacts.
OnlyMessageOwes == \A s \in Endpoints : type[s] # "message" => contacts[s] = << >>

\* Messages were sent from message endpoints to ids that had been handed out.
SentIsReal ==
    \A s, d \in Endpoints :
        d \in sent[s] => type[s] \in {"message", "released"} /\ type[d] # "free"

\* The hangup that s owes d is in one place, once.
OneRecord ==
    \A s, d \in Endpoints :
        /\ SeqHas(batch[s], d) => HangupsOf(s, d) = {} /\ heard[d][s] = 0
        /\ HangupsOf(s, d) # {} => heard[d][s] = 0
        /\ \A i, j \in HangupsOf(s, d) : i = j
        /\ heard[d][s] <= 1

Distinct(q) == \A i, j \in 1 .. Len(q) : q[i] = q[j] => i = j

NoDuplicates == \A s \in Endpoints : Distinct(contacts[s]) /\ Distinct(batch[s])

----------------------------------------------------------------------------
(***************************************************************************)
(* How inboxes move.                                                       *)
(***************************************************************************)

\* An item arrives at the end of the inbox of e; no other inbox moves.
Grown(e, m) ==
    /\ Inbox(e)' = Append(Inbox(e), m)
    /\ \A f \in Endpoints \ {e} : Inbox(f)' = Inbox(f)

\* The oldest item leaves the inbox of e; no other inbox moves.
Shrunk(e) ==
    /\ Inbox(e) # << >>
    /\ Inbox(e)' = Tail(Inbox(e))
    /\ \A f \in Endpoints \ {e} : Inbox(f)' = Inbox(f)

\* What is added behind the pending list is added behind the whole inbox.
LEMMA AppendBehind ==
    ASSUME NEW S, NEW q \in Seq(S), NEW p \in Seq(S), NEW m \in S
    PROVE  q \o Append(p, m) = Append(q \o p, m)
  OBVIOUS

\* Moving the oldest pending hangup into the ring keeps the order.
LEMMA MoveUp ==
    ASSUME NEW S, NEW q \in Seq(S), NEW p \in Seq(S), q # << >>, p # << >>
    PROVE  Append(Tail(q), Head(p)) \o Tail(p) = Tail(q \o p)
  OBVIOUS

\* An inbox is a list of messages.
LEMMA InboxIsList ==
    ASSUME IInv, NEW e \in Endpoints
    PROVE  Inbox(e) \in Seq(Message)
  BY ConcatProperties DEF IInv, TypeOK, Inbox

\* An enqueue on a ring with nothing pending.
LEMMA EnqueueGrows ==
    ASSUME IInv, NEW e \in Endpoints, NEW m \in Message, NEW p, pending[e] = << >>,
           EnqueueLocked(e, queue[e], m, p), UNCHANGED pending
    PROVE  Grown(e, m) /\ Inbox(e) = queue[e]
  <1>1. queue \in [Endpoints -> Seq(Message)] /\ queue[e] \in Seq(Message)
    BY DEF IInv, TypeOK
  <1>2. queue' = [queue EXCEPT ![e] = Append(queue[e], m)]
    BY DEF EnqueueLocked
  <1>3. Inbox(e) = queue[e] /\ Inbox(e)' = Append(queue[e], m)
    <2>1. Append(queue[e], m) \in Seq(Message)
      BY <1>1, AppendProperties
    <2> QED
      BY <1>1, <1>2, <2>1, ConcatEmptySeq DEF Inbox
  <1>4. \A f \in Endpoints \ {e} : Inbox(f)' = Inbox(f)
    BY <1>1, <1>2 DEF Inbox
  <1> QED
    BY <1>3, <1>4 DEF Grown

\* A dequeue, whether or not a hangup moves up.
LEMMA DequeueShrinks ==
    ASSUME IInv, NEW e \in Endpoints, queue[e] # << >>, NEW p, DequeueLocked(e, p)
    PROVE  Shrunk(e) /\ Head(queue[e]) = Head(Inbox(e))
  <1>1. /\ queue \in [Endpoints -> Seq(Message)] /\ queue[e] \in Seq(Message)
        /\ pending \in [Endpoints -> Seq(Message)] /\ pending[e] \in Seq(Message)
    BY DEF IInv, TypeOK
  <1>2. Inbox(e) # << >> /\ Head(queue[e]) = Head(Inbox(e))
    BY <1>1, ConcatEqualIffEmpty DEF Inbox
  <1>3. Inbox(e)' = Tail(Inbox(e)) /\ \A f \in Endpoints \ {e} : Inbox(f)' = Inbox(f)
    <2>1. CASE pending[e] = << >>
      <3>1. queue' = [queue EXCEPT ![e] = Tail(@)] /\ UNCHANGED pending
        BY <2>1 DEF DequeueLocked
      <3>2. Tail(queue[e]) \in Seq(Message)
        BY <1>1, HeadTailProperties
      <3>3. Inbox(e) = queue[e] /\ Inbox(e)' = Tail(queue[e])
        BY <1>1, <2>1, <3>1, <3>2, ConcatEmptySeq DEF Inbox
      <3> QED
        BY <1>1, <3>1, <3>3 DEF Inbox
    <2>2. CASE pending[e] # << >>
      <3>1. /\ queue' = [queue EXCEPT ![e] = Append(Tail(queue[e]), Head(pending[e]))]
            /\ pending' = [pending EXCEPT ![e] = Tail(@)]
        BY <2>2 DEF DequeueLocked, EnqueueLocked
      <3>2. Inbox(e)' = Append(Tail(queue[e]), Head(pending[e])) \o Tail(pending[e])
        BY <1>1, <3>1 DEF Inbox
      <3>3. Inbox(e)' = Tail(Inbox(e))
        BY <1>1, <2>2, <3>2, MoveUp DEF Inbox
      <3> QED
        BY <1>1, <3>1, <3>3 DEF Inbox
    <2> QED
      BY <2>1, <2>2
  <1> QED
    BY <1>2, <1>3 DEF Shrunk

\* A hangup reaches the inbox of a live endpoint whether its ring has room or not.
LEMMA HangupGrows ==
    ASSUME IInv, NEW d \in Endpoints, NEW m \in Message, IsMessage(d), HangupDeliver(d, m)
    PROVE  Grown(d, m)
  <1>1. CASE pending[d] = << >> /\ Len(queue[d]) < QUEUE_SLOTS
    <2>1. EnqueueLocked(d, queue[d], m, call) /\ UNCHANGED pending
      BY <1>1 DEF HangupDeliver, IntoRingOrPending
    <2> QED
      BY <1>1, <2>1, EnqueueGrows
  <1>2. CASE ~(pending[d] = << >> /\ Len(queue[d]) < QUEUE_SLOTS)
    <2>1. pending' = [pending EXCEPT ![d] = Append(@, m)] /\ UNCHANGED queue
      BY <1>2 DEF HangupDeliver, IntoRingOrPending
    <2>2. /\ queue[d] \in Seq(Message) /\ pending[d] \in Seq(Message)
          /\ pending \in [Endpoints -> Seq(Message)]
      BY DEF IInv, TypeOK
    <2>3. Inbox(d)' = Append(Inbox(d), m)
      <3>1. Inbox(d)' = queue[d] \o Append(pending[d], m)
        BY <2>1, <2>2 DEF Inbox
      <3>2. \A q, p \in Seq(Message) : q \o Append(p, m) = Append(q \o p, m)
        BY AppendBehind
      <3>3. queue[d] \o Append(pending[d], m) = Append(queue[d] \o pending[d], m)
        BY <2>2, <3>2
      <3> QED
        BY <3>1, <3>3 DEF Inbox
    <2>4. \A f \in Endpoints \ {d} : Inbox(f)' = Inbox(f)
      BY <2>1, <2>2 DEF Inbox
    <2> QED
      BY <2>3, <2>4 DEF Grown
  <1> QED
    BY <1>1, <1>2

\* A teardown empties the inboxes of the dead process.
LEMMA ReleaseEmpties ==
    ASSUME NEW c \in Contexts, ReleaseOwner(c), NEW e \in Endpoints
    PROVE  Inbox(e)' = IF e \in OwnedBy(c) THEN << >> ELSE Inbox(e)
  <1>1. /\ queue'[e] = IF e \in OwnedBy(c) THEN << >> ELSE queue[e]
        /\ pending'[e] = IF e \in OwnedBy(c) THEN << >> ELSE pending[e]
    BY DEF ReleaseOwner, ClearPending
  <1>2. CASE e \in OwnedBy(c)
    BY <1>1, <1>2 DEF Inbox
  <1>3. CASE e \notin OwnedBy(c)
    BY <1>1, <1>3 DEF Inbox
  <1> QED
    BY <1>2, <1>3

----------------------------------------------------------------------------
(***************************************************************************)
(* Hangups in inboxes that move.                                           *)
(***************************************************************************)

\* An inbox that stays keeps its hangups where they are.
LEMMA HangupsStay ==
    ASSUME NEW d \in Endpoints, Inbox(d)' = Inbox(d), NEW s
    PROVE  HangupsOf(s, d)' = HangupsOf(s, d)
  BY DEF HangupsOf

\* An item that arrives goes behind everything else.
LEMMA GrownItems ==
    ASSUME IInv, NEW e \in Endpoints, NEW m \in Message, Grown(e, m)
    PROVE  /\ Len(Inbox(e)) \in Nat /\ Len(Inbox(e)') = Len(Inbox(e)) + 1
           /\ \A i \in 1 .. Len(Inbox(e)) : (Inbox(e)')[i] = Inbox(e)[i]
           /\ (Inbox(e)')[Len(Inbox(e)) + 1] = m
  <1>1. Inbox(e) \in Seq(Message)
    BY InboxIsList
  <1> QED
    BY <1>1, AppendProperties DEF Grown

\* The hangups in a grown inbox.
LEMMA GrownHangups ==
    ASSUME IInv, NEW e \in Endpoints, NEW m \in Message, Grown(e, m), NEW s
    PROVE  /\ \A d \in Endpoints \ {e} : HangupsOf(s, d)' = HangupsOf(s, d)
           /\ \A i : i \in HangupsOf(s, e)' <=>
                        \/ i \in HangupsOf(s, e)
                        \/ i = Len(Inbox(e)) + 1 /\ m.type = "hangup" /\ m.arg0 = s
           /\ \A i \in HangupsOf(s, e) : i \in Nat /\ i < Len(Inbox(e)) + 1
  <1>1. \A d \in Endpoints \ {e} : HangupsOf(s, d)' = HangupsOf(s, d)
    BY HangupsStay DEF Grown
  <1>2. /\ Len(Inbox(e)) \in Nat /\ Len(Inbox(e)') = Len(Inbox(e)) + 1
        /\ \A i \in 1 .. Len(Inbox(e)) : (Inbox(e)')[i] = Inbox(e)[i]
        /\ (Inbox(e)')[Len(Inbox(e)) + 1] = m
    BY GrownItems
  <1>3. HangupsOf(s, e)' = {i \in 1 .. Len(Inbox(e)') : (Inbox(e)')[i].type = "hangup" /\ (Inbox(e)')[i].arg0 = s}
    BY DEF HangupsOf
  <1>4. HangupsOf(s, e) = {i \in 1 .. Len(Inbox(e)) : Inbox(e)[i].type = "hangup" /\ Inbox(e)[i].arg0 = s}
    BY DEF HangupsOf
  <1> QED
    BY <1>1, <1>2, <1>3, <1>4

\* What is no hangup of s leaves the hangups of s where they are.
LEMMA GrownByOther ==
    ASSUME IInv, NEW e \in Endpoints, NEW m \in Message, Grown(e, m), NEW s,
           m.type # "hangup" \/ m.arg0 # s
    PROVE  \A d \in Endpoints : HangupsOf(s, d)' = HangupsOf(s, d)
  <1>1. \A i : i \in HangupsOf(s, e)' <=> i \in HangupsOf(s, e)
    BY GrownHangups
  <1>2. HangupsOf(s, e)' = HangupsOf(s, e)
    BY <1>1, Zenon DEF HangupsOf
  <1> QED
    BY <1>2, GrownHangups

\* A shrunk inbox holds what was behind the first item.
LEMMA ShrunkItems ==
    ASSUME IInv, NEW e \in Endpoints, Shrunk(e)
    PROVE  /\ Len(Inbox(e)) \in Nat \ {0} /\ Len(Inbox(e)') = Len(Inbox(e)) - 1
           /\ \A i \in 1 .. Len(Inbox(e)') : (Inbox(e)')[i] = Inbox(e)[i + 1]
           /\ Head(Inbox(e)) = Inbox(e)[1] /\ Head(Inbox(e)) \in Message
  <1>1. Inbox(e) \in Seq(Message) /\ Inbox(e) # << >>
    BY InboxIsList DEF Shrunk
  <1> QED
    BY <1>1, HeadTailProperties DEF Shrunk

\* The hangups in a shrunk inbox.
LEMMA ShrunkHangups ==
    ASSUME IInv, NEW e \in Endpoints, Shrunk(e), NEW s
    PROVE  /\ \A d \in Endpoints \ {e} : HangupsOf(s, d)' = HangupsOf(s, d)
           /\ \A i \in HangupsOf(s, e)' : i \in Nat \ {0} /\ i + 1 \in HangupsOf(s, e)
           /\ \A i \in HangupsOf(s, e) : i \in Nat \ {0} /\ (i = 1 \/ i - 1 \in HangupsOf(s, e)')
           /\ 1 \in HangupsOf(s, e) <=> Head(Inbox(e)).type = "hangup" /\ Head(Inbox(e)).arg0 = s
  <1>1. \A d \in Endpoints \ {e} : HangupsOf(s, d)' = HangupsOf(s, d)
    BY HangupsStay DEF Shrunk
  <1>2. /\ Len(Inbox(e)) \in Nat \ {0} /\ Len(Inbox(e)') = Len(Inbox(e)) - 1
        /\ \A i \in 1 .. Len(Inbox(e)') : (Inbox(e)')[i] = Inbox(e)[i + 1]
        /\ Head(Inbox(e)) = Inbox(e)[1]
    BY ShrunkItems
  <1>3. HangupsOf(s, e)' = {i \in 1 .. Len(Inbox(e)') : (Inbox(e)')[i].type = "hangup" /\ (Inbox(e)')[i].arg0 = s}
    BY DEF HangupsOf
  <1>4. HangupsOf(s, e) = {i \in 1 .. Len(Inbox(e)) : Inbox(e)[i].type = "hangup" /\ Inbox(e)[i].arg0 = s}
    BY DEF HangupsOf
  <1>5. \A i \in HangupsOf(s, e)' : i \in Nat \ {0} /\ i + 1 \in HangupsOf(s, e)
    BY <1>2, <1>3, <1>4
  <1>6. \A i \in HangupsOf(s, e) : i \in Nat \ {0} /\ (i = 1 \/ i - 1 \in HangupsOf(s, e)')
    BY <1>2, <1>3, <1>4
  <1>7. 1 \in HangupsOf(s, e) <=> Head(Inbox(e)).type = "hangup" /\ Head(Inbox(e)).arg0 = s
    BY <1>2, <1>4
  <1> QED
    BY <1>1, <1>5, <1>6, <1>7

----------------------------------------------------------------------------
(***************************************************************************)
(* The account of hangups, class of step by class of step.                 *)
(***************************************************************************)

Ledger ==
    /\ KernelStays
    /\ SilentWhileAlive
    /\ OnlyMessageOwes
    /\ SentIsReal
    /\ OneRecord
    /\ NoDuplicates
    /\ HangupIsLast
    /\ EveryPeerHears

\* A contact that is being recorded goes on being recorded.
KeepsNoting ==
    \A t \in Threads :
        call[t].at \in {"note", "note_alloc"} =>
            /\ call'[t].at \in {"note", "note_alloc"}
            /\ call'[t].src = call[t].src /\ call'[t].dst = call[t].dst

\* What a step that is no teardown leaves of the table and the lists.
Untouched == UNCHANGED <<type, owner, contacts, contacts_overflowed, reported>>

\* So a contact noted before such a step is noted after it.
LEMMA NotingKept ==
    ASSUME KeepsNoting, NEW s, NEW d, NotingContact(s, d)
    PROVE  NotingContact(s, d)'
  BY DEF KeepsNoting, NotingContact

\* Nothing moves.
LEMMA LedgerQuiet ==
    ASSUME Ledger, KeepsNoting, Untouched, UNCHANGED <<batch, heard, sent>>,
           \A e \in Endpoints : Inbox(e)' = Inbox(e)
    PROVE  Ledger'
  <1>1. \A s, d \in Endpoints : HangupsOf(s, d)' = HangupsOf(s, d)
    BY HangupsStay
  <1>2. KernelStays' /\ OnlyMessageOwes' /\ SentIsReal' /\ NoDuplicates'
    BY DEF Ledger, Untouched, KernelStays, Live, OnlyMessageOwes, SentIsReal, NoDuplicates, Distinct
  <1>3. SilentWhileAlive' /\ OneRecord'
    BY <1>1 DEF Ledger, Untouched, SilentWhileAlive, OneRecord
  <1>4. HangupIsLast'
    BY <1>1 DEF Ledger, HangupIsLast
  <1>5. EveryPeerHears'
    BY <1>1, NotingKept DEF Ledger, Untouched, EveryPeerHears, IsMessage
  <1> QED
    BY <1>2, <1>3, <1>4, <1>5 DEF Ledger

\* An item of no endpoint arrives: a kernel send, or the end of a watched context.
LEMMA LedgerStranger ==
    ASSUME IInv, Ledger, KeepsNoting, Untouched, UNCHANGED <<batch, heard, sent>>,
           NEW e \in Endpoints, NEW m \in Message, Grown(e, m),
           m.source \notin Endpoints, m.arg0 \notin Endpoints
    PROVE  Ledger'
  <1>1. \A s, d \in Endpoints : HangupsOf(s, d)' = HangupsOf(s, d)
    <2> SUFFICES ASSUME NEW s \in Endpoints, NEW d \in Endpoints
                 PROVE  HangupsOf(s, d)' = HangupsOf(s, d)
      OBVIOUS
    <2>1. m.arg0 # s
      OBVIOUS
    <2> QED
      BY <2>1, GrownByOther
  <1>2. KernelStays' /\ OnlyMessageOwes' /\ SentIsReal' /\ NoDuplicates'
    BY DEF Ledger, Untouched, KernelStays, Live, OnlyMessageOwes, SentIsReal, NoDuplicates, Distinct
  <1>3. SilentWhileAlive' /\ OneRecord'
    BY <1>1 DEF Ledger, Untouched, SilentWhileAlive, OneRecord
  <1>4. HangupIsLast'
    <2> SUFFICES ASSUME NEW s \in Endpoints, NEW d \in Endpoints, NEW j \in 1 .. Len(Inbox(d)'),
                        (Inbox(d)')[j].type = "data", (Inbox(d)')[j].source = s
                 PROVE  heard[d][s] = 0 /\ \A i \in HangupsOf(s, d) : j < i
      BY <1>1 DEF HangupIsLast
    <2>1. j \in 1 .. Len(Inbox(d)) /\ (Inbox(d)')[j] = Inbox(d)[j]
      <3>1. CASE d = e
        BY <3>1, GrownItems
      <3>2. CASE d # e
        BY <3>2 DEF Grown
      <3> QED
        BY <3>1, <3>2
    <2> QED
      BY <2>1 DEF Ledger, HangupIsLast
  <1>5. EveryPeerHears'
    BY <1>1, NotingKept DEF Ledger, Untouched, EveryPeerHears, IsMessage
  <1> QED
    BY <1>2, <1>3, <1>4, <1>5 DEF Ledger

\* Data of a live endpoint arrives: no hangup of it is there yet.
LEMMA LedgerData ==
    ASSUME IInv, Ledger, KeepsNoting, Untouched, UNCHANGED <<batch, heard>>,
           NEW s \in Endpoints, NEW d \in Endpoints, Grown(d, Data(s)), Live(s), IsMessage(d),
           NotingContact(s, d)',
           sent' = IF IsMessage(s) THEN [sent EXCEPT ![s] = @ \cup {d}] ELSE sent
    PROVE  Ledger'
  <1>0. Data(s) \in Message /\ Data(s).type = "data" /\ Data(s).source = s
    BY DataIsMessage DEF Data
  <1>1. \A x, y \in Endpoints : HangupsOf(x, y)' = HangupsOf(x, y)
    BY <1>0, GrownByOther
  <1>2. KernelStays' /\ OnlyMessageOwes' /\ NoDuplicates'
    BY DEF Ledger, Untouched, KernelStays, Live, OnlyMessageOwes, NoDuplicates, Distinct
  <1>3. SilentWhileAlive' /\ OneRecord'
    BY <1>1 DEF Ledger, Untouched, SilentWhileAlive, OneRecord
  <1>4. \A x, y \in Endpoints : y \in sent'[x] => y \in sent[x] \/ (x = s /\ y = d /\ IsMessage(s))
    BY DEF IInv, TypeOK
  <1>5. SentIsReal'
    BY <1>4 DEF Ledger, Untouched, SentIsReal, IsMessage
  <1>6. HangupIsLast'
    <2> SUFFICES ASSUME NEW x \in Endpoints, NEW y \in Endpoints, NEW j \in 1 .. Len(Inbox(y)'),
                        (Inbox(y)')[j].type = "data", (Inbox(y)')[j].source = x
                 PROVE  heard[y][x] = 0 /\ \A i \in HangupsOf(x, y) : j < i
      BY <1>1 DEF HangupIsLast
    <2>1. \/ j \in 1 .. Len(Inbox(y)) /\ (Inbox(y)')[j] = Inbox(y)[j]
          \/ x = s /\ y = d
      <3>1. CASE y = d
        BY <1>0, <3>1, GrownItems
      <3>2. CASE y # d
        BY <3>2 DEF Grown
      <3> QED
        BY <3>1, <3>2
    <2>2. heard[d][s] = 0 /\ HangupsOf(s, d) = {}
      BY DEF Ledger, SilentWhileAlive, Live
    <2> QED
      BY <2>1, <2>2 DEF Ledger, HangupIsLast
  <1>7. EveryPeerHears'
    <2> SUFFICES ASSUME NEW x \in Endpoints, NEW y \in Endpoints, y \in sent'[x], x # y,
                        owner[x] # KERNEL, IsMessage(y), ~NotingContact(x, y)'
                 PROVE  \/ SeqHas(contacts[x], y) \/ SeqHas(batch[x], y) \/ HangupsOf(x, y) # {}
                        \/ heard[y][x] > 0 \/ contacts_overflowed[x] \/ x \in reported
      BY <1>1 DEF EveryPeerHears, Untouched, IsMessage
    <2>1. y \in sent[x] /\ ~NotingContact(x, y)
      BY <1>4, NotingKept
    <2> QED
      BY <2>1 DEF Ledger, EveryPeerHears
  <1> QED
    BY <1>2, <1>3, <1>5, <1>6, <1>7 DEF Ledger

\* What the receiver of e learns by taking the first item.
LEMMA TakerHears ==
    ASSUME IInv, NEW e \in Endpoints, Shrunk(e), Hears(e, Head(Inbox(e)))
    PROVE  \A d, s \in Endpoints :
              /\ heard[d][s] \in Nat
              /\ d = e /\ 1 \in HangupsOf(s, e) => heard'[d][s] = heard[d][s] + 1
              /\ ~(d = e /\ 1 \in HangupsOf(s, e)) => heard'[d][s] = heard[d][s]
  <1> DEFINE m == Head(Inbox(e))
  <1>1. heard \in [Endpoints -> [Endpoints -> Nat]] /\ NONE \notin Endpoints
    BY EndpointAssumption DEF IInv, TypeOK
  <1>2. \A s : 1 \in HangupsOf(s, e) <=> m.type = "hangup" /\ m.arg0 = s
    BY ShrunkHangups
  <1>3. heard' = IF m.type = "hangup" /\ m.arg0 # NONE THEN [heard EXCEPT ![e][m.arg0] = @ + 1] ELSE heard
    BY DEF Hears
  <1> HIDE DEF m
  <1>4. CASE m.type = "hangup" /\ m.arg0 # NONE
    BY <1>1, <1>2, <1>3, <1>4
  <1>5. CASE ~(m.type = "hangup" /\ m.arg0 # NONE)
    BY <1>1, <1>2, <1>3, <1>5
  <1> QED
    BY <1>4, <1>5

\* A message is taken.
LEMMA LedgerTake ==
    ASSUME IInv, Ledger, KeepsNoting, Untouched, UNCHANGED <<batch, sent>>,
           NEW e \in Endpoints, Shrunk(e), Hears(e, Head(Inbox(e)))
    PROVE  Ledger'
  <1>0. \A d, s \in Endpoints :
           /\ heard[d][s] \in Nat
           /\ d = e /\ 1 \in HangupsOf(s, e) => heard'[d][s] = heard[d][s] + 1
           /\ ~(d = e /\ 1 \in HangupsOf(s, e)) => heard'[d][s] = heard[d][s]
    BY TakerHears
  <1>1. \A s \in Endpoints :
           /\ \A d \in Endpoints \ {e} : HangupsOf(s, d)' = HangupsOf(s, d)
           /\ \A i \in HangupsOf(s, e)' : i \in Nat \ {0} /\ i + 1 \in HangupsOf(s, e)
           /\ \A i \in HangupsOf(s, e) : i \in Nat \ {0} /\ (i = 1 \/ i - 1 \in HangupsOf(s, e)')
    BY ShrunkHangups
  <1>2. KernelStays' /\ OnlyMessageOwes' /\ SentIsReal' /\ NoDuplicates'
    BY DEF Ledger, Untouched, KernelStays, Live, OnlyMessageOwes, SentIsReal, NoDuplicates, Distinct
  <1>3. SilentWhileAlive'
    BY <1>0, <1>1 DEF Ledger, Untouched, SilentWhileAlive
  <1>4. OneRecord'
    <2> SUFFICES ASSUME NEW s \in Endpoints, NEW d \in Endpoints
                 PROVE  /\ SeqHas(batch[s], d) => HangupsOf(s, d)' = {} /\ heard'[d][s] = 0
                        /\ HangupsOf(s, d)' # {} => heard'[d][s] = 0
                        /\ \A i, j \in HangupsOf(s, d)' : i = j
                        /\ heard'[d][s] <= 1
      BY DEF OneRecord
    <2>1. CASE d # e
      BY <1>0, <1>1, <2>1 DEF Ledger, OneRecord
    <2>2. CASE d = e
      <3>1. /\ SeqHas(batch[s], e) => HangupsOf(s, e) = {} /\ heard[e][s] = 0
            /\ HangupsOf(s, e) # {} => heard[e][s] = 0
            /\ \A i, j \in HangupsOf(s, e) : i = j
            /\ heard[e][s] <= 1
        BY DEF Ledger, OneRecord
      <3>2. \A i \in HangupsOf(s, e)' : 1 \notin HangupsOf(s, e)
        BY <1>1, <3>1
      <3>3. \A i, j \in HangupsOf(s, e)' : i = j
        BY <1>1, <3>1
      <3> QED
        BY <1>0, <1>1, <2>2, <3>1, <3>2, <3>3
    <2> QED
      BY <2>1, <2>2
  <1>5. HangupIsLast'
    <2> SUFFICES ASSUME NEW s \in Endpoints, NEW d \in Endpoints, NEW j \in 1 .. Len(Inbox(d)'),
                        (Inbox(d)')[j].type = "data", (Inbox(d)')[j].source = s
                 PROVE  heard'[d][s] = 0 /\ \A i \in HangupsOf(s, d)' : j < i
      BY DEF HangupIsLast
    <2>1. CASE d # e
      <3>1. Inbox(d)' = Inbox(d)
        BY <2>1 DEF Shrunk
      <3> QED
        BY <1>0, <1>1, <2>1, <3>1 DEF Ledger, HangupIsLast
    <2>2. CASE d = e
      <3>1. j \in Nat \ {0} /\ j + 1 \in 1 .. Len(Inbox(e)) /\ (Inbox(e)')[j] = Inbox(e)[j + 1]
        BY <2>2, ShrunkItems
      <3>2. heard[e][s] = 0 /\ \A i \in HangupsOf(s, e) : j + 1 < i
        BY <2>2, <3>1 DEF Ledger, HangupIsLast
      <3> QED
        BY <1>0, <1>1, <2>2, <3>1, <3>2
    <2> QED
      BY <2>1, <2>2
  <1>6. EveryPeerHears'
    <2> SUFFICES ASSUME NEW s \in Endpoints, NEW d \in Endpoints, d \in sent[s], s # d,
                        owner[s] # KERNEL, IsMessage(d), ~NotingContact(s, d)', ~(heard'[d][s] > 0)
                 PROVE  \/ SeqHas(contacts[s], d) \/ SeqHas(batch[s], d) \/ HangupsOf(s, d)' # {}
                        \/ contacts_overflowed[s] \/ s \in reported
      BY DEF EveryPeerHears, Untouched, IsMessage
    <2>1. ~NotingContact(s, d)
      BY NotingKept
    <2>2. ~(heard[d][s] > 0) /\ ~(d = e /\ 1 \in HangupsOf(s, e))
      BY <1>0
    <2>3. HangupsOf(s, d) # {} => HangupsOf(s, d)' # {}
      BY <1>1, <2>2
    <2> QED
      BY <2>1, <2>2, <2>3 DEF Ledger, EveryPeerHears
  <1> QED
    BY <1>2, <1>3, <1>4, <1>5, <1>6 DEF Ledger

\* Popping a list of different items.
LEMMA DistinctTail ==
    ASSUME NEW q \in Seq(Endpoints), q # << >>, Distinct(q)
    PROVE  /\ Head(q) \in Endpoints /\ Tail(q) \in Seq(Endpoints) /\ Distinct(Tail(q))
           /\ SeqHas(q, Head(q)) /\ ~SeqHas(Tail(q), Head(q))
           /\ \A x : SeqHas(q, x) <=> x = Head(q) \/ SeqHas(Tail(q), x)
  <1>1. /\ Len(q) \in Nat \ {0} /\ Head(q) = q[1] /\ Tail(q) \in Seq(Endpoints) /\ Head(q) \in Endpoints
        /\ Len(Tail(q)) = Len(q) - 1
        /\ \A i \in 1 .. Len(q) - 1 : Tail(q)[i] = q[i + 1]
    BY HeadTailProperties, EmptySeq
  <1>2. Distinct(Tail(q)) /\ ~SeqHas(Tail(q), Head(q)) /\ SeqHas(q, Head(q))
    BY <1>1 DEF Distinct, SeqHas
  <1>3. ASSUME NEW x, SeqHas(q, x), x # Head(q)
        PROVE  SeqHas(Tail(q), x)
    <2>1. PICK i \in 1 .. Len(q) : q[i] = x
      BY <1>3 DEF SeqHas
    <2>2. i - 1 \in 1 .. Len(q) - 1 /\ Tail(q)[i - 1] = x
      BY <1>1, <1>3, <2>1
    <2> QED
      BY <1>1, <2>2 DEF SeqHas
  <1>4. ASSUME NEW x, SeqHas(Tail(q), x)
        PROVE  SeqHas(q, x)
    BY <1>1, <1>4 DEF SeqHas
  <1> QED
    BY <1>1, <1>2, <1>3, <1>4

\* A hangup leaves the batch and reaches its destination, if that lives.
LEMMA LedgerDeliver ==
    ASSUME IInv, Ledger, KeepsNoting, Untouched, UNCHANGED <<heard, sent>>,
           NEW s \in Endpoints, batch[s] # << >>, batch' = [batch EXCEPT ![s] = Tail(@)],
           NEW d \in Endpoints, d = Head(batch[s]), NEW m \in Message,
           m = HangupMessage(s, owner[s]),
           \/ IsMessage(d) /\ Grown(d, m)
           \/ ~IsMessage(d) /\ \A e \in Endpoints : Inbox(e)' = Inbox(e)
    PROVE  Ledger'
  <1>1. batch \in [Endpoints -> Seq(Endpoints)] /\ batch[s] \in Seq(Endpoints) /\ Distinct(batch[s])
    BY DEF IInv, TypeOK, Ledger, NoDuplicates
  <1>2. /\ Tail(batch[s]) \in Seq(Endpoints) /\ Distinct(Tail(batch[s]))
        /\ SeqHas(batch[s], d) /\ ~SeqHas(Tail(batch[s]), d)
        /\ \A x : SeqHas(batch[s], x) <=> x = d \/ SeqHas(Tail(batch[s]), x)
    BY <1>1, DistinctTail
  <1>3. type[s] = "released"
    BY DEF Ledger, SilentWhileAlive
  <1>4. batch'[s] = Tail(batch[s]) /\ \A x \in Endpoints : x # s => batch'[x] = batch[x]
    BY <1>1
  <1>5. HangupsOf(s, d) = {} /\ heard[d][s] = 0
    BY <1>2 DEF Ledger, OneRecord
  <1>6. m.type = "hangup" /\ m.arg0 = s
    BY DEF HangupMessage
  <1>7. \/ IsMessage(d) /\ Grown(d, m)
        \/ ~IsMessage(d) /\ \A e \in Endpoints : Inbox(e)' = Inbox(e)
    OBVIOUS
  <1>8. \A x, y \in Endpoints : x # s \/ y # d => HangupsOf(x, y)' = HangupsOf(x, y)
    <2>1. CASE IsMessage(d) /\ Grown(d, m)
      <3> SUFFICES ASSUME NEW x \in Endpoints, NEW y \in Endpoints, x # s \/ y # d
                   PROVE  HangupsOf(x, y)' = HangupsOf(x, y)
        OBVIOUS
      <3>1. CASE y # d
        BY <1>2, <1>6, <2>1, <3>1, GrownHangups
      <3>2. CASE x # s
        BY <1>2, <1>6, <2>1, <3>2, GrownByOther
      <3> QED
        BY <3>1, <3>2
    <2>2. CASE \A e \in Endpoints : Inbox(e)' = Inbox(e)
      BY <2>2, HangupsStay
    <2> QED
      BY <1>7, <2>1, <2>2
  <1>9. /\ \A i, j \in HangupsOf(s, d)' : i = j
        /\ IsMessage(d) => HangupsOf(s, d)' # {}
        /\ \A i \in HangupsOf(s, d)' : i = Len(Inbox(d)) + 1 /\ IsMessage(d)
    <2>1. CASE IsMessage(d) /\ Grown(d, m)
      <3>1. \A i : i \in HangupsOf(s, d)' <=> i = Len(Inbox(d)) + 1
        <4>1. \A i : i \in HangupsOf(s, d)' <=> \/ i \in HangupsOf(s, d)
                                                \/ i = Len(Inbox(d)) + 1 /\ m.type = "hangup" /\ m.arg0 = s
          BY <2>1, GrownHangups
        <4> QED
          BY <1>5, <1>6, <4>1
      <3>2. Len(Inbox(d)) + 1 \in HangupsOf(s, d)'
        BY <3>1
      <3>3. \A i, j \in HangupsOf(s, d)' : i = j
        BY <3>1
      <3> QED
        BY <2>1, <3>1, <3>2, <3>3
    <2>2. CASE ~IsMessage(d) /\ \A e \in Endpoints : Inbox(e)' = Inbox(e)
      <3>1. HangupsOf(s, d)' = {}
        BY <1>2, <1>5, <2>2, HangupsStay
      <3> QED
        BY <2>2, <3>1
    <2> QED
      BY <1>7, <2>1, <2>2
  <1>10. KernelStays' /\ OnlyMessageOwes' /\ SentIsReal'
    BY DEF Ledger, Untouched, KernelStays, Live, OnlyMessageOwes, SentIsReal
  <1>11. NoDuplicates'
    BY <1>2, <1>4 DEF Ledger, Untouched, NoDuplicates, Distinct
  <1>12. SilentWhileAlive'
    BY <1>3, <1>4, <1>8 DEF Ledger, Untouched, SilentWhileAlive
  <1>13. OneRecord'
    <2> SUFFICES ASSUME NEW x \in Endpoints, NEW y \in Endpoints
                 PROVE  /\ SeqHas(batch'[x], y) => HangupsOf(x, y)' = {} /\ heard[y][x] = 0
                        /\ HangupsOf(x, y)' # {} => heard[y][x] = 0
                        /\ \A i, j \in HangupsOf(x, y)' : i = j
                        /\ heard[y][x] <= 1
      BY DEF OneRecord
    <2>1. CASE x = s /\ y = d
      BY <1>2, <1>4, <1>5, <1>9, <2>1
    <2>2. CASE x # s \/ y # d
      <3>1. SeqHas(batch'[x], y) => SeqHas(batch[x], y)
        BY <1>2, <1>4
      <3> QED
        BY <1>8, <2>2, <3>1 DEF Ledger, OneRecord
    <2> QED
      BY <2>1, <2>2
  <1>14. HangupIsLast'
    <2> SUFFICES ASSUME NEW x \in Endpoints, NEW y \in Endpoints, NEW j \in 1 .. Len(Inbox(y)'),
                        (Inbox(y)')[j].type = "data", (Inbox(y)')[j].source = x
                 PROVE  heard[y][x] = 0 /\ \A i \in HangupsOf(x, y)' : j < i
      BY DEF HangupIsLast
    <2>1. j \in 1 .. Len(Inbox(y)) /\ (Inbox(y)')[j] = Inbox(y)[j]
      <3>1. CASE IsMessage(d) /\ Grown(d, m) /\ y = d
        BY <1>2, <1>6, <3>1, GrownItems
      <3>2. CASE ~(IsMessage(d) /\ Grown(d, m) /\ y = d)
        BY <1>7, <3>2 DEF Grown
      <3> QED
        BY <3>1, <3>2
    <2>2. Len(Inbox(y)) \in Nat
      BY InboxIsList
    <2>3. heard[y][x] = 0 /\ \A i \in HangupsOf(x, y) : j < i
      BY <2>1 DEF Ledger, HangupIsLast
    <2>4. CASE x = s /\ y = d
      BY <1>9, <2>1, <2>2, <2>3, <2>4
    <2>5. CASE x # s \/ y # d
      BY <1>8, <2>3, <2>5
    <2> QED
      BY <2>4, <2>5
  <1>15. EveryPeerHears'
    <2> SUFFICES ASSUME NEW x \in Endpoints, NEW y \in Endpoints, y \in sent[x], x # y,
                        owner[x] # KERNEL, IsMessage(y), ~NotingContact(x, y)'
                 PROVE  \/ SeqHas(contacts[x], y) \/ SeqHas(batch'[x], y) \/ HangupsOf(x, y)' # {}
                        \/ heard[y][x] > 0 \/ contacts_overflowed[x] \/ x \in reported
      BY DEF EveryPeerHears, Untouched, IsMessage
    <2>1. ~NotingContact(x, y)
      BY NotingKept
    <2>2. CASE x = s /\ y = d
      BY <1>9, <2>2
    <2>3. CASE x # s \/ y # d
      <3>1. SeqHas(batch[x], y) => SeqHas(batch'[x], y)
        BY <1>2, <1>4, <2>3
      <3> QED
        BY <1>8, <2>1, <2>3, <3>1 DEF Ledger, EveryPeerHears
    <2> QED
      BY <2>2, <2>3
  <1> QED
    BY <1>10, <1>11, <1>12, <1>13, <1>14, <1>15 DEF Ledger

\* Pushing a new item on a list of different items.
LEMMA DistinctPush ==
    ASSUME NEW q \in Seq(Endpoints), NEW d \in Endpoints, Distinct(q), ~SeqHas(q, d)
    PROVE  Distinct(<<d>> \o q) /\ \A x : SeqHas(<<d>> \o q, x) <=> x = d \/ SeqHas(q, x)
  <1> DEFINE r == <<d>> \o q
  <1>1. /\ Len(q) \in Nat /\ Len(r) = Len(q) + 1 /\ r[1] = d
        /\ \A i \in 1 .. Len(q) : r[i + 1] = q[i]
    OBVIOUS
  <1> HIDE DEF r
  <1>2. \A i \in 1 .. Len(r) : i = 1 \/ (i - 1 \in 1 .. Len(q) /\ r[i] = q[i - 1])
    <2> SUFFICES ASSUME NEW i \in 1 .. Len(r), i # 1
                 PROVE  i - 1 \in 1 .. Len(q) /\ r[i] = q[i - 1]
      OBVIOUS
    <2>1. i - 1 \in 1 .. Len(q) /\ (i - 1) + 1 = i
      BY <1>1
    <2> QED
      BY <1>1, <2>1
  <1>3. \A i \in 1 .. Len(q) : q[i] # d
    BY DEF SeqHas
  <1>4. Distinct(r)
    <2> SUFFICES ASSUME NEW i \in 1 .. Len(r), NEW j \in 1 .. Len(r), r[i] = r[j]
                 PROVE  i = j
      BY DEF Distinct
    <2>1. CASE i = 1 \/ j = 1
      BY <1>1, <1>2, <1>3, <2>1
    <2>2. CASE i # 1 /\ j # 1
      <3>1. i - 1 = j - 1
        BY <1>2, <2>2 DEF Distinct
      <3> QED
        BY <1>1, <3>1
    <2> QED
      BY <2>1, <2>2
  <1>5. ASSUME NEW x, SeqHas(q, x)
        PROVE  SeqHas(r, x)
    <2>1. PICK i \in 1 .. Len(q) : q[i] = x
      BY <1>5 DEF SeqHas
    <2>2. i + 1 \in 1 .. Len(r) /\ r[i + 1] = x
      BY <1>1, <2>1
    <2> QED
      BY <2>2 DEF SeqHas
  <1>6. SeqHas(r, d)
    <2>1. 1 \in 1 .. Len(r)
      BY <1>1
    <2> QED
      BY <1>1, <2>1 DEF SeqHas
  <1>7. ASSUME NEW x, SeqHas(r, x), x # d
        PROVE  SeqHas(q, x)
    <2>1. PICK i \in 1 .. Len(r) : r[i] = x
      BY <1>7 DEF SeqHas
    <2>2. i - 1 \in 1 .. Len(q) /\ q[i - 1] = x
      BY <1>1, <1>2, <1>7, <2>1
    <2> QED
      BY <2>2 DEF SeqHas
  <1> QED
    BY <1>4, <1>5, <1>6, <1>7 DEF r

\* Turning a list round keeps its items and their being different.
LEMMA DistinctReversed ==
    ASSUME NEW q \in Seq(Endpoints), Distinct(q)
    PROVE  Distinct(Reversed(q)) /\ \A x : SeqHas(Reversed(q), x) <=> SeqHas(q, x)
  <1> DEFINE r == Reversed(q)
             n == Len(q)
  <1>1. n \in Nat /\ Len(r) = n /\ \A i \in 1 .. n : r[i] = q[n + 1 - i] /\ n + 1 - i \in 1 .. n
    BY DEF Reversed
  <1> HIDE DEF r, n
  <1>2. \A i \in 1 .. n : q[i] = r[n + 1 - i] /\ n + 1 - i \in 1 .. n
    <2> SUFFICES ASSUME NEW i \in 1 .. n
                 PROVE  q[i] = r[n + 1 - i] /\ n + 1 - i \in 1 .. n
      OBVIOUS
    <2>1. n + 1 - i \in 1 .. n /\ n + 1 - (n + 1 - i) = i
      BY <1>1
    <2> QED
      BY <1>1, <2>1
  <1>3. Distinct(r)
    <2> SUFFICES ASSUME NEW i \in 1 .. n, NEW j \in 1 .. n, r[i] = r[j]
                 PROVE  i = j
      BY <1>1 DEF Distinct
    <2>1. n + 1 - i = n + 1 - j
      BY <1>1 DEF Distinct, n
    <2> QED
      BY <1>1, <2>1
  <1>4. ASSUME NEW x, SeqHas(r, x)
        PROVE  SeqHas(q, x)
    <2>1. PICK i \in 1 .. n : r[i] = x
      BY <1>1, <1>4 DEF SeqHas
    <2> QED
      BY <1>1, <2>1 DEF SeqHas, n
  <1>5. ASSUME NEW x, SeqHas(q, x)
        PROVE  SeqHas(r, x)
    <2>1. PICK i \in 1 .. n : q[i] = x
      BY <1>5 DEF SeqHas, n
    <2>2. n + 1 - i \in 1 .. Len(r) /\ r[n + 1 - i] = x
      BY <1>1, <1>2, <2>1
    <2> QED
      BY <2>2 DEF SeqHas
  <1> QED
    BY <1>3, <1>4, <1>5 DEF r

\* A contact is recorded, counted as an overflow or not needed.
LEMMA LedgerNote ==
    ASSUME IInv, Ledger, SendersLive, NEW t \in Threads, NEW s, NEW d \in Endpoints,
           call[t].at \in {"note", "note_alloc"}, call[t].src = s, call[t].dst = d,
           \A u \in Threads \ {t} : call'[u] = call[u],
           UNCHANGED <<type, owner, reported, batch, heard, sent>>,
           \A e \in Endpoints : Inbox(e)' = Inbox(e),
           OnlyMessageOwes', NoDuplicates',
           \A x, y \in Endpoints : SeqHas(contacts[x], y) => SeqHas(contacts'[x], y),
           \A x \in Endpoints : contacts_overflowed[x] => contacts_overflowed'[x],
           \/ NotingContact(s, d)'
           \/ s \in {NONE, d}
           \/ /\ s \in Endpoints
              /\ ~IsMessage(s) \/ owner[s] = KERNEL \/ SeqHas(contacts'[s], d) \/ contacts_overflowed'[s]
    PROVE  Ledger'
  <1>1. \A x, y \in Endpoints : HangupsOf(x, y)' = HangupsOf(x, y)
    BY HangupsStay
  <1>2. KernelStays' /\ SentIsReal'
    BY DEF Ledger, KernelStays, Live, SentIsReal
  <1>3. SilentWhileAlive' /\ OneRecord'
    BY <1>1 DEF Ledger, SilentWhileAlive, OneRecord
  <1>4. HangupIsLast'
    BY <1>1 DEF Ledger, HangupIsLast
  <1>5. EveryPeerHears'
    <2> SUFFICES ASSUME NEW x \in Endpoints, NEW y \in Endpoints, y \in sent[x], x # y,
                        owner[x] # KERNEL, IsMessage(y), ~NotingContact(x, y)'
                 PROVE  \/ SeqHas(contacts'[x], y) \/ SeqHas(batch[x], y) \/ HangupsOf(x, y) # {}
                        \/ heard[y][x] > 0 \/ contacts_overflowed'[x] \/ x \in reported
      BY <1>1 DEF EveryPeerHears, IsMessage
    <2>1. CASE x = s /\ y = d
      <3>1. type[s] \in {"message", "released"}
        BY <2>1 DEF Ledger, SentIsReal
      <3>2. Live(s)
        BY <2>1 DEF SendersLive, InSend
      <3>3. IsMessage(s)
        BY <3>1, <3>2 DEF Live, IsMessage
      <3>4. s \in Endpoints /\ s # NONE
        BY <2>1, EndpointAssumption
      <3> QED
        BY <2>1, <3>3, <3>4
    <2>2. CASE x # s \/ y # d
      <3>1. ~NotingContact(x, y)
        <4> SUFFICES ASSUME NEW u \in Threads, call[u].at \in {"note", "note_alloc"},
                            call[u].src = x, call[u].dst = y
                     PROVE  FALSE
          BY DEF NotingContact
        <4>1. u # t
          BY <2>2
        <4>2. call'[u] = call[u]
          BY <4>1
        <4> QED
          BY <4>2 DEF NotingContact
      <3> QED
        BY <3>1 DEF Ledger, EveryPeerHears
    <2> QED
      BY <2>1, <2>2
  <1> QED
    BY <1>2, <1>3, <1>4, <1>5 DEF Ledger

\* An id is handed out: it was nobody's source and nobody's destination.
LEMMA LedgerCreate ==
    ASSUME IInv, Ledger, NEW n \in Endpoints, type[n] = "free",
           NEW c \in Contexts \cup {KERNEL}, NEW ty \in {"message", "notification"},
           type' = [type EXCEPT ![n] = ty], owner' = [owner EXCEPT ![n] = c],
           UNCHANGED <<contacts, contacts_overflowed, reported, batch, heard, sent, call>>,
           \A e \in Endpoints : Inbox(e)' = Inbox(e)
    PROVE  Ledger'
  <1>1. \A x, y \in Endpoints : HangupsOf(x, y)' = HangupsOf(x, y)
    BY HangupsStay
  <1>2. /\ type'[n] = ty /\ owner'[n] = c
        /\ \A e \in Endpoints : e # n => type'[e] = type[e] /\ owner'[e] = owner[e]
    BY DEF IInv, TypeOK
  <1>3. KernelStays' /\ OnlyMessageOwes' /\ NoDuplicates'
    BY <1>2 DEF Ledger, KernelStays, Live, OnlyMessageOwes, NoDuplicates, Distinct
  <1>4. \A x, y \in Endpoints : y \in sent[x] => x # n /\ y # n
    BY DEF Ledger, SentIsReal
  <1>5. SentIsReal'
    BY <1>2, <1>4 DEF Ledger, SentIsReal
  <1>6. SilentWhileAlive' /\ OneRecord'
    BY <1>1, <1>2 DEF Ledger, SilentWhileAlive, OneRecord
  <1>7. HangupIsLast'
    BY <1>1 DEF Ledger, HangupIsLast
  <1>8. EveryPeerHears'
    BY <1>1, <1>2, <1>4 DEF Ledger, EveryPeerHears, IsMessage, NotingContact
  <1> QED
    BY <1>3, <1>5, <1>6, <1>7, <1>8 DEF Ledger

\* A process is torn down: what its endpoints owed is in the batch.
LEMMA LedgerRelease ==
    ASSUME IInv, Ledger, SendersLive, NEW c \in Contexts, ReleaseOwner(c)
    PROVE  Ledger'
  <1> DEFINE dying == OwnedBy(c)
  <1>1. /\ type' = [e \in Endpoints |-> IF e \in dying THEN "released" ELSE type[e]]
        /\ batch' = [e \in Endpoints |-> IF e \in dying THEN Reversed(contacts[e]) ELSE batch[e]]
        /\ contacts' = [e \in Endpoints |-> IF e \in dying THEN << >> ELSE contacts[e]]
        /\ reported' = reported \cup {e \in dying : contacts_overflowed[e]}
        /\ contacts_overflowed' =
              [e \in Endpoints |-> IF e \in dying THEN FALSE ELSE contacts_overflowed[e]]
        /\ UNCHANGED <<owner, heard, sent>>
    BY DEF ReleaseOwner, histVars
  <1>2. dying \in SUBSET Endpoints /\ \A e \in dying : owner[e] = c /\ Live(e)
    BY DEF OwnedBy
  <1>3. \A e \in Endpoints : Inbox(e)' = IF e \in dying THEN << >> ELSE Inbox(e)
    BY ReleaseEmpties
  <1>4. \A t \in Threads : call[t].at \in InSend => ThreadContext[t] # c /\ call'[t] = call[t]
    BY DEF ReleaseOwner, NoActiveDispatch, CallsAfterRelease, InSend, Parked
  <1> HIDE DEF dying
  <1>5. \A x, y \in Endpoints : HangupsOf(x, y)' = IF y \in dying THEN {} ELSE HangupsOf(x, y)
    <2> SUFFICES ASSUME NEW x \in Endpoints, NEW y \in Endpoints
                 PROVE  HangupsOf(x, y)' = IF y \in dying THEN {} ELSE HangupsOf(x, y)
      OBVIOUS
    <2>1. CASE y \in dying
      <3>1. Inbox(y)' = << >>
        BY <1>3, <2>1
      <3>2. Len(Inbox(y)') = 0
        BY <3>1
      <3> QED
        BY <2>1, <3>2 DEF HangupsOf
    <2>2. CASE y \notin dying
      BY <1>3, <2>2, HangupsStay
    <2> QED
      BY <2>1, <2>2
  <1>6. \A e \in Endpoints : /\ contacts[e] \in Seq(Endpoints) /\ Distinct(contacts[e])
                             /\ Distinct(Reversed(contacts[e]))
                             /\ \A x : SeqHas(Reversed(contacts[e]), x) <=> SeqHas(contacts[e], x)
    BY DistinctReversed DEF IInv, TypeOK, Ledger, NoDuplicates
  <1>7. \A x \in dying : batch[x] = << >> /\ \A y \in Endpoints : HangupsOf(x, y) = {} /\ heard[y][x] = 0
    BY <1>2 DEF Ledger, SilentWhileAlive, Live
  <1>8. KernelStays'
    BY <1>1, <1>2, EndpointAssumption DEF Ledger, KernelStays, Live
  <1>9. SilentWhileAlive'
    BY <1>1, <1>5 DEF Ledger, SilentWhileAlive
  <1>10. OnlyMessageOwes'
    BY <1>1 DEF Ledger, OnlyMessageOwes
  <1>11. SentIsReal'
    BY <1>1 DEF Ledger, SentIsReal
  <1>12. NoDuplicates'
    <2> SUFFICES ASSUME NEW e \in Endpoints PROVE Distinct(contacts'[e]) /\ Distinct(batch'[e])
      BY DEF NoDuplicates, Distinct
    <2>1. CASE e \in dying
      <3>1. Len(contacts'[e]) = 0 /\ batch'[e] = Reversed(contacts[e])
        BY <1>1, <2>1
      <3> QED
        BY <1>6, <3>1 DEF Distinct
    <2>2. CASE e \notin dying
      BY <1>1, <2>2 DEF Ledger, NoDuplicates
    <2> QED
      BY <2>1, <2>2
  <1>13. OneRecord'
    <2> SUFFICES ASSUME NEW x \in Endpoints, NEW y \in Endpoints
                 PROVE  /\ SeqHas(batch'[x], y) => HangupsOf(x, y)' = {} /\ heard[y][x] = 0
                        /\ HangupsOf(x, y)' # {} => heard[y][x] = 0
                        /\ \A i, j \in HangupsOf(x, y)' : i = j
                        /\ heard[y][x] <= 1
      BY <1>1 DEF OneRecord
    <2>1. CASE x \in dying
      BY <1>5, <1>7, <2>1
    <2>2. CASE x \notin dying
      BY <1>1, <1>5, <2>2 DEF Ledger, OneRecord
    <2> QED
      BY <2>1, <2>2
  <1>14. HangupIsLast'
    <2> SUFFICES ASSUME NEW x \in Endpoints, NEW y \in Endpoints, NEW j \in 1 .. Len(Inbox(y)'),
                        (Inbox(y)')[j].type = "data", (Inbox(y)')[j].source = x
                 PROVE  heard[y][x] = 0 /\ \A i \in HangupsOf(x, y)' : j < i
      BY <1>1 DEF HangupIsLast
    <2>1. y \notin dying
      <3> SUFFICES ASSUME y \in dying PROVE FALSE
        OBVIOUS
      <3>1. Inbox(y)' = << >>
        BY <1>3
      <3>2. Len(Inbox(y)') = 0
        BY <3>1
      <3> QED
        BY <3>2
    <2>2. Inbox(y)' = Inbox(y) /\ HangupsOf(x, y)' = HangupsOf(x, y)
      BY <1>3, <1>5, <2>1
    <2> QED
      BY <2>2 DEF Ledger, HangupIsLast
  <1>15. EveryPeerHears'
    <2> SUFFICES ASSUME NEW x \in Endpoints, NEW y \in Endpoints, y \in sent[x], x # y,
                        owner[x] # KERNEL, IsMessage(y)', ~NotingContact(x, y)'
                 PROVE  \/ SeqHas(contacts'[x], y) \/ SeqHas(batch'[x], y) \/ HangupsOf(x, y)' # {}
                        \/ heard[y][x] > 0 \/ contacts_overflowed'[x] \/ x \in reported'
      BY <1>1 DEF EveryPeerHears
    <2>1. y \notin dying /\ IsMessage(y)
      BY <1>1 DEF IsMessage
    <2>2. ~NotingContact(x, y)
      <3> SUFFICES ASSUME NEW u \in Threads, call[u].at \in {"note", "note_alloc"},
                          call[u].src = x, call[u].dst = y
                   PROVE  FALSE
        BY DEF NotingContact
      <3>1. call'[u] = call[u]
        BY <1>4 DEF InSend
      <3> QED
        BY <3>1 DEF NotingContact
    <2>3. CASE x \in dying
      <3>1. \/ SeqHas(contacts[x], y) \/ contacts_overflowed[x] \/ x \in reported
        BY <1>7, <2>1, <2>2, <2>3 DEF Ledger, EveryPeerHears, SeqHas
      <3>2. batch'[x] = Reversed(contacts[x])
        BY <1>1, <2>3
      <3> QED
        BY <1>1, <1>6, <2>3, <3>1, <3>2
    <2>4. CASE x \notin dying
      <3>1. contacts'[x] = contacts[x] /\ batch'[x] = batch[x] /\ HangupsOf(x, y)' = HangupsOf(x, y)
        BY <1>1, <1>5, <2>1, <2>4
      <3>2. contacts_overflowed[x] => contacts_overflowed'[x]
        BY <1>1, <2>4
      <3> QED
        BY <1>1, <2>1, <2>2, <3>1, <3>2 DEF Ledger, EveryPeerHears
    <2> QED
      BY <2>3, <2>4
  <1> QED
    BY <1>8, <1>9, <1>10, <1>11, <1>12, <1>13, <1>14, <1>15 DEF Ledger


----------------------------------------------------------------------------
(***************************************************************************)
(* The account of hangups, action by action.                               *)
(***************************************************************************)

\* The hangup account together with the senders it rests on.
Books == Ledger /\ SendersLive

\* The thread states p begin no send and break off no recording of a contact.
SendsKept(p) ==
    \A u \in Threads :
        /\ call[u].at \in {"note", "note_alloc"} =>
              /\ p[u].at \in {"note", "note_alloc"}
              /\ p[u].src = call[u].src /\ p[u].dst = call[u].dst
        /\ p[u].at \in InSend => call[u].at \in InSend /\ p[u].src = call[u].src

\* What that means for the step that leaves p.
LEMMA SendsKeptMeans ==
    ASSUME SendsKept(call')
    PROVE  /\ KeepsNoting
           /\ SendersLive /\ UNCHANGED <<type, owner>> => SendersLive'
  BY DEF SendsKept, KeepsNoting, SendersLive, Live

\* Leaving all threads where they are.
LEMMA SendsKeptSame == SendsKept(call)
  BY DEF SendsKept

\* Moving a thread that is recording nothing to a state outside a send.
LEMMA SendsKeptMove ==
    ASSUME IInv, NEW t \in Threads, call[t].at \notin {"note", "note_alloc"},
           NEW v, v.at \notin InSend
    PROVE  SendsKept([call EXCEPT ![t] = v])
  BY DEF SendsKept, IInv, TypeOK

\* In particular, ending a call.
LEMMA SendsKeptIdle ==
    ASSUME IInv, NEW t \in Threads, call[t].at \notin {"note", "note_alloc"}
    PROVE  SendsKept([call EXCEPT ![t] = Idle])
  <1>1. Idle.at \notin InSend
    BY DEF Idle, InSend
  <1> QED
    BY <1>1, SendsKeptMove

\* A thread that an enqueue wakes was parked and is in no send.
LEMMA SendsKeptWake ==
    ASSUME IInv, NEW e \in Endpoints, NEW p, Unparked(p), SendsKept(p)
    PROVE  SendsKept(EnqueueWake(e, p))
  <1>1. CASE waiters[e] = << >>
    BY <1>1, EnqueueWakes
  <1>2. CASE waiters[e] # << >>
    <2> DEFINE h == Head(waiters[e])
               r == EnqueueWake(e, p)
    <2>1. /\ h \in Threads /\ call[h].at \in Parked /\ r[h].at \in {"woken_recv", "drain"}
          /\ \A u \in Threads \ {h} : r[u] = p[u]
      BY <1>2, EnqueueWakes
    <2> HIDE DEF h, r
    <2>2. SendsKept(r)
      BY <2>1 DEF SendsKept, Parked, InSend
    <2> QED
      BY <2>2 DEF r
  <1> QED
    BY <1>1, <1>2

\* Steps that leave rings, lists and the table alone.
LEMMA QuietBooks ==
    ASSUME IInv, Books, SendsKept(call'), Untouched,
           UNCHANGED <<queue, pending, batch, heard, sent>>
    PROVE  Books'
  <1>1. \A e \in Endpoints : Inbox(e)' = Inbox(e)
    BY DEF Inbox
  <1>2. KeepsNoting /\ SendersLive'
    BY SendsKeptMeans DEF Books, Untouched
  <1>3. Ledger'
    BY <1>1, <1>2, LedgerQuiet DEF Books
  <1> QED
    BY <1>2, <1>3 DEF Books

\* A message is taken.
LEMMA TakeBooks ==
    ASSUME IInv, Books, NEW e \in Endpoints, queue[e] # << >>, NEW p, Unparked(p), SendsKept(p),
           DequeueLocked(e, p), Untouched, UNCHANGED <<batch, sent>>
    PROVE  Books'
  <1>1. SendsKept(call')
    <2>1. call' = p \/ call' = EnqueueWake(e, p)
      BY DEF DequeueLocked, EnqueueLocked
    <2> QED
      BY <2>1, SendsKeptWake
  <1>2. KeepsNoting /\ SendersLive'
    BY <1>1, SendsKeptMeans DEF Books, Untouched
  <1>3. Shrunk(e) /\ Head(queue[e]) = Head(Inbox(e))
    BY DequeueShrinks
  <1>4. Hears(e, Head(Inbox(e)))
    BY <1>3 DEF DequeueLocked
  <1>5. Ledger'
    BY <1>2, <1>3, <1>4, LedgerTake DEF Books
  <1> QED
    BY <1>2, <1>5 DEF Books

\* ipc_endpoint_create, ipc_notification_create.
LEMMA CreateBooks ==
    ASSUME IInv, Books, NEW c \in Contexts \cup {KERNEL}, NEW ty \in {"message", "notification"},
           CreateTyped(c, ty)
    PROVE  Books'
  <1>1. next_id \in Endpoints /\ next_id \in Nat
    BY EndpointAssumption DEF CreateTyped, IInv, TypeOK, Endpoints
  <1>2. type[next_id] = "free"
    BY <1>1 DEF IInv, UnbornIsFree
  <1>3. /\ type' = [type EXCEPT ![next_id] = ty] /\ owner' = [owner EXCEPT ![next_id] = c]
        /\ UNCHANGED <<queue, pending, contacts, contacts_overflowed, reported, batch, heard, sent, call>>
    BY DEF CreateTyped, hangVars, oweVars, histVars
  <1>4. \A e \in Endpoints : Inbox(e)' = Inbox(e)
    BY <1>3 DEF Inbox
  <1>5. Ledger'
    BY <1>1, <1>2, <1>3, <1>4, LedgerCreate DEF Books
  <1>6. SendersLive'
    <2>1. \A e \in Endpoints : Live(e) => e # next_id
      BY <1>2 DEF Live
    <2>2. \A e \in Endpoints : e # next_id => type'[e] = type[e] /\ owner'[e] = owner[e]
      BY <1>3 DEF IInv, TypeOK
    <2> QED
      BY <1>3, <2>1, <2>2 DEF Books, SendersLive, Live
  <1> QED
    BY <1>5, <1>6 DEF Books

\* The source check of ipc_send_from makes sure of the source.
LEMMA SendBeginBooks ==
    ASSUME IInv, Books, NEW t \in Threads, NEW s \in Endpoints \cup {NONE}, NEW d \in Endpoints,
           SendBegin(t, s, d)
    PROVE  Books'
  <1> DEFINE v == [at |-> "send", src |-> s, dst |-> d]
  <1>1. /\ call' = [call EXCEPT ![t] = v] /\ call[t].at = "idle" /\ MaySendAs(t, s)
        /\ UNCHANGED <<type, owner, contacts, contacts_overflowed, reported, queue, pending,
                       batch, heard, sent>>
    BY DEF SendBegin, epVars, hangVars, oweVars, histVars
  <1>2. v.src = s /\ v.at = "send"
    OBVIOUS
  <1> HIDE DEF v
  <1>3. call'[t] = v /\ \A u \in Threads \ {t} : call'[u] = call[u]
    BY <1>1 DEF IInv, TypeOK
  <1>4. KeepsNoting
    BY <1>1, <1>3 DEF KeepsNoting
  <1>5. \A e \in Endpoints : Inbox(e)' = Inbox(e)
    BY <1>1 DEF Inbox
  <1>6. Ledger'
    BY <1>1, <1>4, <1>5, LedgerQuiet DEF Books, Untouched
  <1>7. s \in Endpoints => Live(s) /\ owner[s] = ThreadContext[t]
    BY <1>1, EndpointAssumption DEF MaySendAs, Books, Ledger, KernelStays
  <1>8. SendersLive'
    BY <1>1, <1>2, <1>3, <1>7 DEF Books, SendersLive, Live
  <1> QED
    BY <1>6, <1>8 DEF Books

\* An accepted send: the thread goes on to note the contact.
LEMMA SendEnqueueBooks ==
    ASSUME IInv, Books, NEW t \in Threads, SendEnqueue(t)
    PROVE  Books'
  <1> DEFINE s == call[t].src
             d == call[t].dst
             p == [call EXCEPT ![t].at = "note"]
  <1>1. call[t] \in Call /\ s \in Endpoints \cup {NONE} /\ d \in Endpoints /\ call[t].at = "send"
    BY DEF SendEnqueue, IInv, TypeOK, CallsHaveTargets, Call
  <1>2. Unparked(p)
    BY UnparkedSending DEF SendEnqueue, InSend
  <1>3. /\ IsMessage(d) /\ HasRoom(d) /\ EnqueueLocked(d, queue[d], Data(s), p)
        /\ UNCHANGED <<type, owner, contacts, contacts_overflowed, pending, reported, batch, heard>>
        /\ sent' = IF s # NONE /\ IsMessage(s) THEN [sent EXCEPT ![s] = @ \cup {d}] ELSE sent
    BY DEF SendEnqueue, hangVars, oweVars
  <1>4. /\ p[t].at = "note" /\ p[t].src = s /\ p[t].dst = d
        /\ \A u \in Threads \ {t} : p[u] = call[u]
    BY <1>1 DEF IInv, TypeOK, Call
  <1> HIDE DEF p
  <1>5. SendsKept(p)
    BY <1>1, <1>4 DEF SendsKept, InSend
  <1>6. call' = EnqueueWake(d, p)
    BY <1>3 DEF EnqueueLocked
  <1>7. SendsKept(call')
    BY <1>1, <1>2, <1>5, <1>6, SendsKeptWake
  <1>8. KeepsNoting /\ SendersLive'
    BY <1>3, <1>7, SendsKeptMeans DEF Books
  <1>9. call'[t] = p[t]
    <2>1. call[t].at \notin Parked
      BY <1>1 DEF Parked
    <2> QED
      BY <1>1, <1>2, <1>6, <2>1, EnqueueWakes
  <1>10. PICK x \in Endpoints \cup {NONE} : x = s
    BY <1>1
  <1>11. PICK y \in Endpoints : y = d
    BY <1>1
  <1>12. NotingContact(x, y)'
    BY <1>4, <1>9, <1>10, <1>11 DEF NotingContact
  <1>13. Data(x) \in Message /\ Data(x).source = x /\ Data(x).arg0 = NONE
    BY DataIsMessage DEF Data
  <1>14. Grown(y, Data(x))
    <2>1. pending[y] = << >>
      BY <1>3, <1>11, RoomMeansNonePending
    <2> QED
      BY <1>3, <1>10, <1>11, <1>13, <2>1, EnqueueGrows
  <1>15. CASE x = NONE
    <2>1. sent' = sent
      BY <1>3, <1>10, <1>15
    <2>2. Ledger'
      BY <1>3, <1>8, <1>13, <1>14, <1>15, <2>1, EndpointAssumption, LedgerStranger DEF Books, Untouched
    <2> QED
      BY <1>8, <2>2 DEF Books
  <1>16. CASE x # NONE
    <2>1. x \in Endpoints /\ Live(x)
      BY <1>1, <1>10, <1>16 DEF Books, SendersLive, InSend
    <2>2. sent' = IF IsMessage(x) THEN [sent EXCEPT ![x] = @ \cup {y}] ELSE sent
      BY <1>3, <1>10, <1>11, <1>16
    <2>3. IsMessage(y)
      BY <1>3, <1>11
    <2>4. Ledger'
      BY <1>3, <1>8, <1>12, <1>14, <2>1, <2>2, <2>3, LedgerData DEF Books, Untouched
    <2> QED
      BY <1>8, <2>4 DEF Books
  <1> QED
    BY <1>15, <1>16

\* A send of the kernel itself names no source.
LEMMA KernelSendBooks ==
    ASSUME IInv, Books, NEW d \in Endpoints, KernelSend(d)
    PROVE  Books'
  <1>1. /\ HasRoom(d) /\ EnqueueLocked(d, queue[d], Data(NONE), call)
        /\ UNCHANGED <<type, owner, contacts, contacts_overflowed, pending, reported, batch, heard, sent>>
    BY DEF KernelSend, hangVars, oweVars, histVars
  <1>2. Data(NONE) \in Message /\ Data(NONE).source \notin Endpoints /\ Data(NONE).arg0 \notin Endpoints
    BY DataIsMessage, EndpointAssumption DEF Data
  <1>3. Grown(d, Data(NONE))
    BY <1>1, <1>2, RoomMeansNonePending, EnqueueGrows
  <1>4. SendsKept(call')
    BY <1>1, UnparkedSame, SendsKeptSame, SendsKeptWake DEF EnqueueLocked
  <1>5. KeepsNoting /\ SendersLive'
    BY <1>1, <1>4, SendsKeptMeans DEF Books
  <1>6. Ledger'
    BY <1>1, <1>2, <1>3, <1>5, LedgerStranger DEF Books, Untouched
  <1> QED
    BY <1>5, <1>6 DEF Books

\* A thread that notes a contact is inside a send and stays there or leaves it.
LEMMA NotingSenders ==
    ASSUME IInv, SendersLive, NEW t \in Threads, call[t].at \in InSend,
           call' = [call EXCEPT ![t] = Idle] \/ call' = [call EXCEPT ![t].at = "note_alloc"],
           UNCHANGED <<type, owner>>
    PROVE  SendersLive'
  <1>1. /\ \A u \in Threads \ {t} : call'[u] = call[u]
        /\ call'[t] = Idle \/ call'[t].src = call[t].src
    BY DEF IInv, TypeOK, Call
  <1>2. Idle.at \notin InSend
    BY DEF Idle, InSend
  <1>3. \A u \in Threads : call'[u].at \in InSend => call[u].at \in InSend /\ call'[u].src = call[u].src
    BY <1>1, <1>2
  <1> QED
    BY <1>3 DEF SendersLive, Live

\* The first look of ipc_endpoint_note_contact.
LEMMA NoteCheckBooks ==
    ASSUME IInv, Books, NEW t \in Threads, NoteCheck(t)
    PROVE  Books'
  <1>1. PICK s \in Endpoints \cup {NONE} : s = call[t].src
    BY DEF IInv, TypeOK, Call
  <1>2. PICK d \in Endpoints : d = call[t].dst
    BY DEF NoteCheck, IInv, CallsHaveTargets
  <1>3. /\ call[t].at = "note" /\ call[t].at \in InSend
        /\ UNCHANGED <<type, owner, queue, pending, contacts, reported, batch, heard, sent>>
    BY DEF NoteCheck, epVars, oweVars, histVars, InSend
  <1>4. call \in [Threads -> Call] /\ contacts_overflowed \in [Endpoints -> BOOLEAN]
    BY DEF IInv, TypeOK
  <1>5. \/ /\ NothingToNote(s, d) /\ call' = [call EXCEPT ![t] = Idle]
           /\ UNCHANGED contacts_overflowed
        \/ /\ ~NothingToNote(s, d) /\ call' = [call EXCEPT ![t] = Idle]
           /\ contacts_overflowed' = [contacts_overflowed EXCEPT ![s] = TRUE]
        \/ /\ ~NothingToNote(s, d) /\ call' = [call EXCEPT ![t].at = "note_alloc"]
           /\ UNCHANGED contacts_overflowed
    BY <1>1, <1>2 DEF NoteCheck
  <1>6. \A u \in Threads \ {t} : call'[u] = call[u]
    BY <1>4, <1>5
  <1>7. SendersLive'
    BY <1>3, <1>5, NotingSenders DEF Books
  <1>8. \A e \in Endpoints : Inbox(e)' = Inbox(e)
    BY <1>3 DEF Inbox
  <1>9. OnlyMessageOwes' /\ NoDuplicates'
    BY <1>3 DEF Books, Ledger, OnlyMessageOwes, NoDuplicates, Distinct
  <1>10. ~NothingToNote(s, d) => s \in Endpoints
    BY <1>1 DEF NothingToNote
  <1>11. /\ \A x \in Endpoints : contacts_overflowed[x] => contacts_overflowed'[x]
         /\ \/ NotingContact(s, d)'
            \/ s \in {NONE, d}
            \/ /\ s \in Endpoints
               /\ ~IsMessage(s) \/ owner[s] = KERNEL \/ SeqHas(contacts[s], d) \/ contacts_overflowed'[s]
    <2>1. CASE NothingToNote(s, d)
      BY <1>5, <2>1 DEF NothingToNote
    <2>2. CASE contacts_overflowed' = [contacts_overflowed EXCEPT ![s] = TRUE] /\ ~NothingToNote(s, d)
      <3>1. s \in Endpoints
        BY <1>10, <2>2
      <3>2. contacts_overflowed'[s] /\ \A x \in Endpoints : contacts_overflowed[x] => contacts_overflowed'[x]
        BY <1>4, <2>2, <3>1, Zenon
      <3> QED
        BY <3>1, <3>2
    <2>3. CASE call' = [call EXCEPT ![t].at = "note_alloc"] /\ UNCHANGED contacts_overflowed
      <3>1. call'[t].at = "note_alloc" /\ call'[t].src = s /\ call'[t].dst = d
        BY <1>1, <1>2, <1>4, <2>3 DEF Call
      <3>2. NotingContact(s, d)'
        BY <3>1 DEF NotingContact
      <3> QED
        BY <2>3, <3>2
    <2> QED
      BY <1>5, <2>1, <2>2, <2>3
  <1>12. Ledger'
    BY <1>1, <1>2, <1>3, <1>6, <1>8, <1>9, <1>11, LedgerNote DEF Books
  <1> QED
    BY <1>7, <1>12 DEF Books

\* The second look, which records the contact unless somebody else did.
LEMMA NoteRecordBooks ==
    ASSUME IInv, Books, NEW t \in Threads, NEW ok \in BOOLEAN, NoteRecord(t, ok)
    PROVE  Books'
  <1>1. PICK s \in Endpoints : s = call[t].src
    BY DEF NoteRecord, IInv, CallsHaveTargets
  <1>2. PICK d \in Endpoints : d = call[t].dst
    BY DEF NoteRecord, IInv, CallsHaveTargets
  <1>3. /\ call[t].at = "note_alloc" /\ call[t].at \in InSend
        /\ call' = [call EXCEPT ![t] = Idle]
        /\ UNCHANGED <<type, owner, queue, pending, reported, batch, heard, sent>>
    BY DEF NoteRecord, epVars, oweVars, histVars, InSend
  <1>4. /\ call \in [Threads -> Call] /\ contacts_overflowed \in [Endpoints -> BOOLEAN]
        /\ contacts \in [Endpoints -> Seq(Endpoints)]
    BY DEF IInv, TypeOK
  <1>5. \/ ~IsMessage(s) /\ UNCHANGED <<contacts, contacts_overflowed>>
        \/ /\ IsMessage(s) /\ UNCHANGED contacts
           /\ contacts_overflowed' = [contacts_overflowed EXCEPT ![s] = TRUE]
        \/ IsMessage(s) /\ SeqHas(contacts[s], d) /\ UNCHANGED <<contacts, contacts_overflowed>>
        \/ /\ IsMessage(s) /\ ~SeqHas(contacts[s], d) /\ UNCHANGED contacts_overflowed
           /\ contacts' = [contacts EXCEPT ![s] = <<d>> \o @]
    BY <1>1, <1>2 DEF NoteRecord, RecordedMeanwhile
  <1>6. \A u \in Threads \ {t} : call'[u] = call[u]
    BY <1>3, <1>4
  <1>7. SendersLive'
    BY <1>3, NotingSenders DEF Books
  <1>8. \A e \in Endpoints : Inbox(e)' = Inbox(e)
    BY <1>3 DEF Inbox
  <1>9. /\ OnlyMessageOwes' /\ NoDuplicates'
        /\ \A x, y \in Endpoints : SeqHas(contacts[x], y) => SeqHas(contacts'[x], y)
        /\ \A x \in Endpoints : contacts_overflowed[x] => contacts_overflowed'[x]
        /\ ~IsMessage(s) \/ SeqHas(contacts'[s], d) \/ contacts_overflowed'[s]
    <2>1. CASE UNCHANGED contacts
      <3>1. OnlyMessageOwes' /\ NoDuplicates'
        BY <1>3, <2>1 DEF Books, Ledger, OnlyMessageOwes, NoDuplicates, Distinct
      <3>2. CASE contacts_overflowed' = [contacts_overflowed EXCEPT ![s] = TRUE]
        <4>1. contacts_overflowed'[s] /\ \A x \in Endpoints : contacts_overflowed[x] => contacts_overflowed'[x]
          BY <1>4, <3>2, Zenon
        <4> QED
          BY <2>1, <3>1, <4>1
      <3>3. CASE UNCHANGED contacts_overflowed /\ (~IsMessage(s) \/ SeqHas(contacts[s], d))
        BY <2>1, <3>1, <3>3
      <3>4. CASE ~SeqHas(contacts[s], d) /\ contacts' = [contacts EXCEPT ![s] = <<d>> \o @]
        <4>1. SeqHas(<<d>> \o contacts[s], d)
          BY <1>4, <3>4, DistinctPush DEF Books, Ledger, NoDuplicates
        <4>2. contacts'[s] = <<d>> \o contacts[s]
          BY <1>4, <3>4
        <4> QED
          BY <2>1, <3>4, <4>1, <4>2
      <3> QED
        BY <1>5, <3>2, <3>3, <3>4
    <2>2. CASE /\ IsMessage(s) /\ ~SeqHas(contacts[s], d) /\ UNCHANGED contacts_overflowed
               /\ contacts' = [contacts EXCEPT ![s] = <<d>> \o @]
      <3> DEFINE r == <<d>> \o contacts[s]
      <3>1. Distinct(r) /\ \A x : SeqHas(r, x) <=> x = d \/ SeqHas(contacts[s], x)
        BY <1>4, <2>2, DistinctPush DEF Books, Ledger, NoDuplicates
      <3>2. contacts'[s] = r /\ \A x \in Endpoints : x # s => contacts'[x] = contacts[x]
        BY <1>4, <2>2
      <3> HIDE DEF r
      <3>3. OnlyMessageOwes'
        BY <1>3, <2>2, <3>2 DEF Books, Ledger, OnlyMessageOwes, IsMessage
      <3>4. \A x \in Endpoints : Distinct(contacts'[x]) /\ Distinct(batch[x])
        BY <3>1, <3>2 DEF Books, Ledger, NoDuplicates
      <3>5. NoDuplicates'
        BY <1>3, <3>4 DEF NoDuplicates, Distinct
      <3> QED
        BY <2>2, <3>1, <3>2, <3>3, <3>5
    <2> QED
      BY <1>5, <2>1, <2>2
  <1>10. Ledger'
    BY <1>1, <1>2, <1>3, <1>6, <1>8, <1>9, LedgerNote DEF Books
  <1> QED
    BY <1>7, <1>10 DEF Books

\* ipc_recv_for.
LEMMA RecvForBooks ==
    ASSUME IInv, Books, NEW t \in Threads, NEW e \in Endpoints, RecvFor(t, e)
    PROVE  Books'
  BY UnparkedSame, SendsKeptSame, TakeBooks DEF RecvFor, Untouched, oweVars

\* The receives of a thread that was woken, or told that the ring is readable.
LEMMA TakerBooks ==
    ASSUME IInv, Books, NEW t \in Threads, ResumeRecv(t) \/ Drain(t)
    PROVE  Books'
  <1>1. PICK e \in Endpoints : e = call[t].dst
    BY DEF ResumeRecv, Drain, IInv, CallsHaveTargets
  <1>2. /\ call[t].at \notin Parked /\ call[t].at \notin {"note", "note_alloc"}
        /\ UNCHANGED <<type, owner, contacts, contacts_overflowed, reported, batch, sent>>
    BY DEF ResumeRecv, Drain, Parked, oweVars
  <1>3. Unparked([call EXCEPT ![t] = Idle]) /\ SendsKept([call EXCEPT ![t] = Idle])
    BY <1>2, UnparkedIdle, SendsKeptIdle
  <1>4. \/ call' = [call EXCEPT ![t] = Idle] /\ UNCHANGED <<queue, pending, heard>>
        \/ queue[e] # << >> /\ DequeueLocked(e, [call EXCEPT ![t] = Idle])
    BY <1>1 DEF ResumeRecv, Drain
  <1>5. CASE call' = [call EXCEPT ![t] = Idle] /\ UNCHANGED <<queue, pending, heard>>
    BY <1>2, <1>3, <1>5, QuietBooks DEF Untouched
  <1>6. CASE queue[e] # << >> /\ DequeueLocked(e, [call EXCEPT ![t] = Idle])
    BY <1>2, <1>3, <1>6, TakeBooks DEF Untouched
  <1> QED
    BY <1>4, <1>5, <1>6

\* Steps of a thread that is in no send and touches no ring: it parks, is told
\* that the ring is readable, times out, or is refused a send.
LEMMA ElsewhereBooks ==
    ASSUME IInv, Books, NEW t \in Threads, NEW e \in Endpoints,
           SendRefused(t) \/ RecvBlocking(t, e) \/ EndpointWait(t, e) \/ WaitTimeout(t)
    PROVE  Books'
  <1>1. UNCHANGED <<type, owner, queue, contacts, contacts_overflowed, pending, reported, batch, heard, sent>>
    BY DEF SendRefused, RecvBlocking, EndpointWait, Park, WaitTimeout, epVars, hangVars, oweVars, histVars
  <1>2. call[t].at \notin {"note", "note_alloc"}
    BY DEF SendRefused, RecvBlocking, EndpointWait, Park, WaitTimeout
  <1>3. \E v : call' = [call EXCEPT ![t] = v] /\ v.at \notin InSend
    <2>1. CASE SendRefused(t)
      <3>1. Idle.at \notin InSend
        BY DEF Idle, InSend
      <3> QED
        BY <2>1, <3>1 DEF SendRefused
    <2>2. CASE WaitTimeout(t)
      <3>1. call[t] \in Call /\ call \in [Threads -> Call]
        BY DEF IInv, TypeOK
      <3>2. call' = [call EXCEPT ![t] = [call[t] EXCEPT !.at = "drain"]]
        BY <2>2, <3>1 DEF WaitTimeout
      <3>3. [call[t] EXCEPT !.at = "drain"].at \notin InSend
        BY <3>1 DEF Call, InSend
      <3> QED
        BY <3>2, <3>3
    <2>3. CASE RecvBlocking(t, e) \/ EndpointWait(t, e)
      <3>1. PICK l \in {"parked_recv", "parked_wait", "drain"} :
               call' = [call EXCEPT ![t] = [at |-> l, src |-> NONE, dst |-> e]]
        BY <2>3 DEF RecvBlocking, EndpointWait, Park
      <3>2. [at |-> l, src |-> NONE, dst |-> e].at \notin InSend
        BY DEF InSend
      <3> QED
        BY <3>1, <3>2
    <2> QED
      BY <2>1, <2>2, <2>3
  <1>4. SendsKept(call')
    BY <1>2, <1>3, SendsKeptMove
  <1> QED
    BY <1>1, <1>4, QuietBooks DEF Untouched

\* Steps that move no thread, no ring and no list of an endpoint.
LEMMA AsideBooks ==
    ASSUME IInv, Books, UNCHANGED <<type, owner, queue, contacts, contacts_overflowed, pending,
                                    reported, batch, call, heard, sent>>
    PROVE  Books'
  BY SendsKeptSame, QuietBooks DEF Untouched

\* A teardown waits for the sends of the dead process.
LEMMA ReleaseOwnerBooks ==
    ASSUME IInv, Books, NEW c \in Contexts, ReleaseOwner(c)
    PROVE  Books'
  <1>1. Ledger'
    BY LedgerRelease DEF Books
  <1>2. SendersLive'
    <2> SUFFICES ASSUME NEW t \in Threads, call'[t].at \in InSend, call'[t].src \in Endpoints
                 PROVE  /\ type'[call'[t].src] \in {"message", "notification"}
                        /\ owner'[call'[t].src] = ThreadContext[t]
      BY DEF SendersLive, Live
    <2>1. ThreadContext[t] # c /\ call'[t] = call[t]
      <3>1. call'[t] = IF ThreadContext[t] = c THEN Dead
                       ELSE IF call[t].at \in Parked /\ call[t].dst \in OwnedBy(c)
                            THEN [call[t] EXCEPT !.at = Resumed(@)]
                       ELSE call[t]
        BY DEF ReleaseOwner, CallsAfterRelease
      <3>2. Dead.at \notin InSend
        BY DEF Dead, InSend
      <3>3. [call[t] EXCEPT !.at = Resumed(@)].at \notin InSend
        BY DEF IInv, TypeOK, Call, Resumed, InSend
      <3> QED
        BY <3>1, <3>2, <3>3
    <2>2. Live(call[t].src) /\ owner[call[t].src] = ThreadContext[t] /\ call[t].src \in Endpoints
      BY <2>1 DEF Books, SendersLive
    <2>3. type'[call[t].src] = type[call[t].src] /\ UNCHANGED owner
      BY <2>1, <2>2 DEF ReleaseOwner, OwnedBy
    <2> QED
      BY <2>1, <2>2, <2>3 DEF Live
  <1> QED
    BY <1>1, <1>2 DEF Books

\* What ipc_hangup_deliver does to threads and inboxes.
LEMMA DeliveredHangup ==
    ASSUME IInv, NEW d \in Endpoints, NEW m \in Message, HangupDeliver(d, m)
    PROVE  /\ SendsKept(call')
           /\ \/ IsMessage(d) /\ Grown(d, m)
              \/ ~IsMessage(d) /\ \A e \in Endpoints : Inbox(e)' = Inbox(e)
  <1>1. call' = call \/ call' = EnqueueWake(d, call)
    BY DEF HangupDeliver, IntoRingOrPending, EnqueueLocked
  <1>2. SendsKept(call')
    BY <1>1, UnparkedSame, SendsKeptSame, SendsKeptWake
  <1>3. CASE IsMessage(d)
    BY <1>2, <1>3, HangupGrows
  <1>4. CASE ~IsMessage(d)
    BY <1>2, <1>4 DEF HangupDeliver, Inbox
  <1> QED
    BY <1>3, <1>4

\* One hangup of a dead endpoint leaves the batch.
LEMMA DeliverContactBooks ==
    ASSUME IInv, Books, NEW s \in Endpoints, DeliverContact(s)
    PROVE  Books'
  <1>1. /\ batch[s] # << >> /\ batch' = [batch EXCEPT ![s] = Tail(@)]
        /\ HangupDeliver(Head(batch[s]), HangupMessage(s, owner[s]))
        /\ UNCHANGED <<type, owner, contacts, contacts_overflowed, reported, heard, sent>>
    BY DEF DeliverContact, histVars
  <1>2. batch[s] \in Seq(Endpoints)
    BY DEF IInv, TypeOK
  <1>3. PICK d \in Endpoints : d = Head(batch[s])
    BY <1>1, <1>2, HeadTailProperties
  <1>4. PICK m \in Message : m = HangupMessage(s, owner[s])
    BY <1>1, HangupIsMessage DEF IInv, BatchIsOfProcess
  <1>5. /\ SendsKept(call')
        /\ \/ IsMessage(d) /\ Grown(d, m)
           \/ ~IsMessage(d) /\ \A e \in Endpoints : Inbox(e)' = Inbox(e)
    BY <1>1, <1>3, <1>4, DeliveredHangup
  <1>6. KeepsNoting /\ SendersLive'
    BY <1>1, <1>5, SendsKeptMeans DEF Books
  <1>7. Ledger'
    BY <1>1, <1>3, <1>4, <1>5, <1>6, LedgerDeliver DEF Books, Untouched
  <1> QED
    BY <1>6, <1>7 DEF Books

\* One watch on a dead context leaves the batch: it names no endpoint.
LEMMA DeliverWatchBooks ==
    ASSUME IInv, Books, NEW c \in Contexts, DeliverWatch(c)
    PROVE  Books'
  <1>1. /\ watch_batch[c] # << >>
        /\ HangupDeliver(Head(watch_batch[c]), HangupMessage(NONE, c))
        /\ UNCHANGED <<type, owner, contacts, contacts_overflowed, reported, batch, heard, sent>>
    BY DEF DeliverWatch, histVars
  <1>2. watch_batch[c] \in Seq(Endpoints)
    BY DEF IInv, TypeOK
  <1>3. PICK d \in Endpoints : d = Head(watch_batch[c])
    BY <1>1, <1>2, HeadTailProperties
  <1>4. PICK m \in Message : m = HangupMessage(NONE, c)
    BY HangupIsMessage
  <1>5. m.source \notin Endpoints /\ m.arg0 \notin Endpoints
    BY <1>4, EndpointAssumption DEF HangupMessage
  <1>6. /\ SendsKept(call')
        /\ \/ IsMessage(d) /\ Grown(d, m)
           \/ ~IsMessage(d) /\ \A e \in Endpoints : Inbox(e)' = Inbox(e)
    BY <1>1, <1>3, <1>4, DeliveredHangup
  <1>7. KeepsNoting /\ SendersLive'
    BY <1>1, <1>6, SendsKeptMeans DEF Books
  <1>8. CASE Grown(d, m)
    BY <1>1, <1>5, <1>7, <1>8, LedgerStranger DEF Books, Untouched
  <1>9. CASE \A e \in Endpoints : Inbox(e)' = Inbox(e)
    BY <1>1, <1>7, <1>9, LedgerQuiet DEF Books, Untouched
  <1> QED
    BY <1>6, <1>8, <1>9

\* An empty table owes nothing.
LEMMA InitBooks == Init => Books
  <1> SUFFICES ASSUME Init PROVE Books
    OBVIOUS
  <1>1. \A e \in Endpoints : Inbox(e) = << >> /\ Len(Inbox(e)) = 0
    BY DEF Init, Inbox
  <1>2. \A s, d \in Endpoints : HangupsOf(s, d) = {}
    BY <1>1 DEF HangupsOf
  <1>3. /\ type = [e \in Endpoints |-> "free"] /\ owner = [e \in Endpoints |-> NONE]
        /\ contacts = [e \in Endpoints |-> << >>] /\ batch = [e \in Endpoints |-> << >>]
        /\ heard = [d \in Endpoints |-> [s \in Endpoints |-> 0]]
        /\ sent = [s \in Endpoints |-> {}] /\ call = [t \in Threads |-> Idle]
    BY DEF Init
  <1>4. KernelStays /\ SentIsReal /\ OnlyMessageOwes
    BY <1>3, EndpointAssumption DEF KernelStays, SentIsReal, OnlyMessageOwes
  <1>5. SilentWhileAlive /\ OneRecord
    BY <1>2, <1>3 DEF SilentWhileAlive, OneRecord, SeqHas
  <1>6. NoDuplicates
    BY <1>3 DEF NoDuplicates, Distinct
  <1>7. HangupIsLast /\ EveryPeerHears
    BY <1>1, <1>3 DEF HangupIsLast, EveryPeerHears
  <1>8. SendersLive
    BY <1>3 DEF SendersLive, Idle, InSend
  <1> QED
    BY <1>4, <1>5, <1>6, <1>7, <1>8 DEF Books, Ledger

\* Every step keeps the account.
LEMMA NextBooks == IInv /\ Books /\ [Next]_vars => Books'
  <1> SUFFICES ASSUME IInv, Books, [Next]_vars PROVE Books'
    OBVIOUS
  <1>1. ASSUME NEW t \in Threads, ThreadCall(t)
        PROVE  Books'
    <2>1. ASSUME NEW e \in Endpoints, NotifyFrom(t, e) \/ WaitFor(t, e)
          PROVE  Books'
      BY <2>1, AsideBooks DEF NotifyFrom, WaitFor, hangVars, oweVars, histVars
    <2> QED
      BY <1>1, <2>1, SendBeginBooks, RecvForBooks, ElsewhereBooks DEF ThreadCall
  <1>2. ASSUME NEW t \in Threads, ThreadStep(t)
        PROVE  Books'
    <2>1. CASE SendRefused(t) \/ WaitTimeout(t)
      <3>1. call[t].dst \in Endpoints
        BY <2>1 DEF SendRefused, WaitTimeout, IInv, CallsHaveTargets
      <3> QED
        BY <2>1, <3>1, ElsewhereBooks
    <2> QED
      BY <1>2, <2>1, SendEnqueueBooks, NoteCheckBooks, NoteRecordBooks, TakerBooks DEF ThreadStep
  <1>3. ASSUME NEW c \in Contexts, NEW d \in Endpoints, ContextWatch(c, d)
        PROVE  Books'
    BY <1>3, AsideBooks DEF ContextWatch, epVars, hangVars, histVars
  <1>4. ASSUME NEW c \in Contexts, Exit(c)
        PROVE  Books'
    BY <1>4, AsideBooks DEF Exit, epVars, hangVars, oweVars, histVars
  <1>5. CASE UNCHANGED vars
    BY <1>5, AsideBooks DEF vars, epVars, hangVars, oweVars, histVars
  <1> QED
    BY <1>1, <1>2, <1>3, <1>4, <1>5, CreateBooks, KernelSendBooks, ReleaseOwnerBooks,
       DeliverContactBooks, DeliverWatchBooks DEF Next, Reaper

\* The account is right throughout every behaviour.
LEMMA BooksInductive == Spec => [](IInv /\ Books)
  <1>1. Init => IInv /\ Books
    BY InitIInv, InitBooks
  <1>2. (IInv /\ Books) /\ [Next]_vars => (IInv /\ Books)'
    BY NextIInv, NextBooks
  <1> QED
    BY <1>1, <1>2, PTL DEF Spec

\* However sends, receives and teardowns interleave, a hangup is the last an
\* endpoint hears of a peer (ipc_hangup_deliver behind ipc_send_from): the
\* teardown waits for the sends of the dying process, so everything the peer
\* sent is already in front of it.
THEOREM HangupsAreLast == Spec => []HangupIsLast
  <1>1. IInv /\ Books => HangupIsLast
    BY DEF Books, Ledger
  <1> QED
    BY <1>1, BooksInductive, PTL

\* No peer that accepted a message is forgotten without a trace, although the
\* contact is noted after the message was queued and with the lock dropped for
\* the allocation (ipc_endpoint_note_contact).
THEOREM PeersHear == Spec => []EveryPeerHears
  <1>1. IInv /\ Books => EveryPeerHears
    BY DEF Books, Ledger
  <1> QED
    BY <1>1, BooksInductive, PTL

\* A set of positions with at most one member has at most one.
LEMMA AtMostOneIn ==
    ASSUME NEW S, \A i, j \in S : i = j
    PROVE  Cardinality(S) \in {0, 1} /\ (S = {} => Cardinality(S) = 0)
  <1>1. CASE S = {}
    BY <1>1, FS_EmptySet
  <1>2. CASE S # {}
    <2>1. PICK x : x \in S
      BY <1>2
    <2>2. S = {x}
      BY <2>1
    <2> QED
      BY <2>2, FS_Singleton
  <1> QED
    BY <1>1, <1>2

\* A hangup is owed, on its way or received, once.
LEMMA OncePerPeer == IInv /\ Books => HangupAtMostOnce
  <1> SUFFICES ASSUME IInv, Books, NEW s \in Endpoints, NEW d \in Endpoints
               PROVE  Occurrences(d, contacts[s]) + Occurrences(d, batch[s])
                        + Cardinality(HangupsOf(s, d)) + heard[d][s] <= 1
    BY DEF HangupAtMostOnce
  <1>1. /\ Occurrences(d, contacts[s]) \in {0, 1}
        /\ ~SeqHas(contacts[s], d) => Occurrences(d, contacts[s]) = 0
    <2> DEFINE S == {i \in 1 .. Len(contacts[s]) : contacts[s][i] = d}
    <2>1. \A i, j \in S : i = j
      BY DEF Books, Ledger, NoDuplicates, Distinct
    <2>2. ~SeqHas(contacts[s], d) => S = {}
      BY DEF SeqHas
    <2>3. Occurrences(d, contacts[s]) = Cardinality(S)
      BY DEF Occurrences
    <2> HIDE DEF S
    <2> QED
      BY <2>1, <2>2, <2>3, AtMostOneIn
  <1>2. /\ Occurrences(d, batch[s]) \in {0, 1}
        /\ ~SeqHas(batch[s], d) => Occurrences(d, batch[s]) = 0
    <2> DEFINE S == {i \in 1 .. Len(batch[s]) : batch[s][i] = d}
    <2>1. \A i, j \in S : i = j
      BY DEF Books, Ledger, NoDuplicates, Distinct
    <2>2. ~SeqHas(batch[s], d) => S = {}
      BY DEF SeqHas
    <2>3. Occurrences(d, batch[s]) = Cardinality(S)
      BY DEF Occurrences
    <2> HIDE DEF S
    <2> QED
      BY <2>1, <2>2, <2>3, AtMostOneIn
  <1>3. /\ SeqHas(batch[s], d) => HangupsOf(s, d) = {} /\ heard[d][s] = 0
        /\ HangupsOf(s, d) # {} => heard[d][s] = 0
        /\ \A i, j \in HangupsOf(s, d) : i = j
        /\ heard[d][s] \in Nat /\ heard[d][s] <= 1
    BY DEF Books, Ledger, OneRecord, IInv, TypeOK
  <1>4. /\ Cardinality(HangupsOf(s, d)) \in {0, 1}
        /\ HangupsOf(s, d) = {} => Cardinality(HangupsOf(s, d)) = 0
    BY <1>3, AtMostOneIn
  <1>5. SeqHas(contacts[s], d) => ~SeqHas(batch[s], d) /\ HangupsOf(s, d) = {} /\ heard[d][s] = 0
    <2> SUFFICES ASSUME SeqHas(contacts[s], d)
                 PROVE  ~SeqHas(batch[s], d) /\ HangupsOf(s, d) = {} /\ heard[d][s] = 0
      OBVIOUS
    <2>1. contacts[s] # << >>
      BY DEF SeqHas
    <2>2. type[s] = "message"
      BY <2>1 DEF Books, Ledger, OnlyMessageOwes
    <2>3. batch[s] = << >> /\ HangupsOf(s, d) = {} /\ heard[d][s] = 0
      BY <2>2 DEF Books, Ledger, SilentWhileAlive
    <2> QED
      BY <2>3 DEF SeqHas
  <1> QED
    BY <1>1, <1>2, <1>3, <1>4, <1>5

\* The record of a hangup is in one place at a time and is received at most
\* once, for any number of threads that send for the first time at once: the
\* duplicate test is repeated after the allocation (ipc_endpoint_note_contact).
THEOREM HangupsComeOnce == Spec => []HangupAtMostOnce
  BY OncePerPeer, BooksInductive, PTL

----------------------------------------------------------------------------
(***************************************************************************)
(* Wake-ups.                                                               *)
(***************************************************************************)

\* An id that was not handed out has no owner.
FreeIsUnowned == \A e \in Endpoints : type[e] = "free" => owner[e] = NONE

\* A thread on its way to a ring may take from it.
TakersMayUse ==
    \A t \in Threads :
        call[t].at \in {"woken_recv", "drain"} => MayUse(t, call[t].dst)

\* Threads that the thread states p have on their way to the ring of e.
Flying(p, e) == {t \in Threads : p[t].at \in {"woken_recv", "drain"} /\ p[t].dst = e}

\* Somebody sleeps on e.
Slept(e) == \E t \in Threads : call[t].at \in Parked /\ call[t].dst = e

WakeInv ==
    /\ FreeIsUnowned
    /\ TakersMayUse
    /\ NoLostWakeup

\* The threads on their way to a ring can be counted.
LEMMA FlyingIsFinite ==
    ASSUME NEW p, NEW e
    PROVE  IsFiniteSet(Flying(p, e)) /\ Cardinality(Flying(p, e)) \in Nat
  <1>1. Flying(p, e) \in SUBSET Threads
    BY DEF Flying
  <1> QED
    BY <1>1, EndpointAssumption, FS_Subset, FS_CardinalityType

\* What no lost wake-up means in these terms.
LEMMA WakeupMeans ==
    NoLostWakeup <=> \A e \in Endpoints : Slept(e) => Len(queue[e]) <= Cardinality(Flying(call, e))
  BY DEF NoLostWakeup, Slept, Flying, InFlight

\* A thread that moves out of the way of a ring leaves the others on theirs.
LEMMA FlyingWithout ==
    ASSUME IInv, NEW t \in Threads, NEW v, v.at \notin {"woken_recv", "drain"}, NEW e
    PROVE  Flying([call EXCEPT ![t] = v], e) = Flying(call, e) \ {t}
  BY DEF Flying, IInv, TypeOK

\* So their number falls by one, or stays.
LEMMA FlyingCount ==
    ASSUME IInv, NEW t \in Threads, NEW v, v.at \notin {"woken_recv", "drain"}, NEW e
    PROVE  /\ t \in Flying(call, e) =>
                Cardinality(Flying([call EXCEPT ![t] = v], e)) = Cardinality(Flying(call, e)) - 1
           /\ t \notin Flying(call, e) => Flying([call EXCEPT ![t] = v], e) = Flying(call, e)
  <1>1. Flying([call EXCEPT ![t] = v], e) = Flying(call, e) \ {t}
    BY FlyingWithout
  <1>2. IsFiniteSet(Flying(call, e))
    BY FlyingIsFinite
  <1>3. t \in Flying(call, e) => Cardinality(Flying(call, e) \ {t}) = Cardinality(Flying(call, e)) - 1
    BY <1>2, FS_RemoveElement
  <1>4. t \notin Flying(call, e) => Flying(call, e) \ {t} = Flying(call, e)
    OBVIOUS
  <1> QED
    BY <1>1, <1>3, <1>4

\* An enqueue wakes a thread for the item it adds: enough threads are on their
\* way if p had one less than there are items on e, and enough for the others.
LEMMA WakeCovers ==
    ASSUME IInv, NEW e \in Endpoints, NEW p, Unparked(p), call' = EnqueueWake(e, p),
           \A f \in Endpoints \ {e} : Slept(f) => Len(queue'[f]) <= Cardinality(Flying(p, f)),
           Slept(e) => Len(queue'[e]) <= Cardinality(Flying(p, e)) + 1
    PROVE  NoLostWakeup'
  <1>1. ASSUME NEW f \in Endpoints, Slept(f)'
        PROVE  Slept(f) /\ Len(queue'[f]) <= Cardinality(Flying(call', f))
    <2>1. CASE waiters[e] = << >>
      <3>1. call' = p
        BY <2>1, EnqueueWakes
      <3>2. Slept(f)
        BY <1>1, <3>1 DEF Slept, Unparked
      <3>3. f # e
        <4> SUFFICES ASSUME f = e PROVE FALSE
          OBVIOUS
        <4>1. PICK t \in Threads : call[t].at \in Parked /\ call[t].dst = e
          BY <3>2 DEF Slept
        <4>2. SeqHas(waiters[e], t)
          BY <4>1 DEF IInv, WaitersAreParked
        <4> QED
          BY <2>1, <4>2 DEF SeqHas
      <3> QED
        BY <3>1, <3>2, <3>3
    <2>2. CASE waiters[e] # << >>
      <3> DEFINE h == Head(waiters[e])
      <3>1. /\ h \in Threads /\ call[h].at \in Parked /\ call[h].dst = e
            /\ call'[h].at \in {"woken_recv", "drain"} /\ call'[h].dst = e
            /\ \A t \in Threads \ {h} : call'[t] = p[t]
        BY <2>2, EnqueueWakes
      <3> HIDE DEF h
      <3>2. p[h].at \in Parked /\ call'[h].at \notin Parked /\ p[h].at \notin {"woken_recv", "drain"}
        BY <3>1 DEF Unparked, Parked
      <3>3. Slept(f)
        BY <1>1, <3>1, <3>2 DEF Slept, Unparked
      <3>4. CASE f = e
        <4>1. Flying(call', e) = Flying(p, e) \cup {h} /\ h \notin Flying(p, e)
          BY <3>1, <3>2 DEF Flying
        <4>2. IsFiniteSet(Flying(p, e)) /\ Cardinality(Flying(p, e)) \in Nat
          BY FlyingIsFinite
        <4>3. Cardinality(Flying(call', e)) = Cardinality(Flying(p, e)) + 1
          BY <4>1, <4>2, FS_AddElement
        <4> QED
          BY <3>3, <3>4, <4>3
      <3>5. CASE f # e
        <4>1. Flying(call', f) = Flying(p, f)
          BY <3>1, <3>2, <3>5 DEF Flying
        <4> QED
          BY <3>3, <3>5, <4>1
      <3> QED
        BY <3>4, <3>5
    <2> QED
      BY <2>1, <2>2
  <1>2. \A f \in Endpoints : Slept(f)' => Len(queue'[f]) <= Cardinality(Flying(call', f))
    BY <1>1
  <1> QED
    BY <1>2 DEF NoLostWakeup, Slept, Flying, InFlight

\* No wake-up is lost while no ring grows, nobody new sleeps on a ring that is
\* not empty, and nobody leaves the way to one.
LEMMA CoverKept ==
    ASSUME IInv, NoLostWakeup,
           \A f \in Endpoints :
              \/ queue'[f] = << >>
              \/ /\ queue'[f] = queue[f]
                 /\ Slept(f)' => Slept(f)
                 /\ Flying(call, f) \subseteq Flying(call', f)
    PROVE  NoLostWakeup'
  <1>1. ASSUME NEW f \in Endpoints, Slept(f)'
        PROVE  Len(queue'[f]) <= Cardinality(Flying(call', f))
    <2>1. /\ IsFiniteSet(Flying(call', f)) /\ Cardinality(Flying(call', f)) \in Nat
          /\ IsFiniteSet(Flying(call, f)) /\ Cardinality(Flying(call, f)) \in Nat
      BY FlyingIsFinite
    <2>2. CASE queue'[f] = << >>
      BY <2>1, <2>2
    <2>3. CASE queue'[f] = queue[f] /\ Slept(f) /\ Flying(call, f) \subseteq Flying(call', f)
      <3>1. Len(queue[f]) <= Cardinality(Flying(call, f))
        BY <2>3, WakeupMeans
      <3>2. Cardinality(Flying(call, f)) <= Cardinality(Flying(call', f))
        BY <2>1, <2>3, FS_Subset
      <3>3. Len(queue[f]) \in Nat
        BY DEF IInv, TypeOK
      <3> QED
        BY <2>1, <2>3, <3>1, <3>2, <3>3
    <2> QED
      BY <1>1, <2>2, <2>3
  <1>2. \A f \in Endpoints : Slept(f)' => Len(queue'[f]) <= Cardinality(Flying(call', f))
    BY <1>1
  <1> QED
    BY <1>2 DEF NoLostWakeup, Slept, Flying, InFlight

\* The thread states p move only threads that neither sleep on a ring nor are on
\* their way to one, and do not make them do so.
Bystands(p) ==
    \A u \in Threads : p[u] = call[u] \/ {call[u].at, p[u].at} \subseteq {"idle"} \cup InSend

\* Such a move leaves sleepers and takers as they are.
LEMMA BystandsMeans ==
    ASSUME NEW p, Bystands(p), NEW e
    PROVE  /\ Flying(p, e) = Flying(call, e)
           /\ \A u \in Threads : p[u].at \in Parked \cup {"woken_recv", "drain"} => p[u] = call[u]
  BY DEF Bystands, Flying, InSend, Parked

\* Moving one thread inside or out of a send.
LEMMA BystandsMove ==
    ASSUME IInv, NEW t \in Threads, call[t].at \in {"idle"} \cup InSend,
           NEW v, v.at \in {"idle"} \cup InSend
    PROVE  Bystands([call EXCEPT ![t] = v])
  BY DEF Bystands, IInv, TypeOK

\* Ending a call that is none of a receiver.
LEMMA BystandsIdle ==
    ASSUME IInv, NEW t \in Threads, call[t].at \in {"idle"} \cup InSend
    PROVE  Bystands([call EXCEPT ![t] = Idle])
  <1>1. Idle.at \in {"idle"} \cup InSend
    BY DEF Idle
  <1> QED
    BY <1>1, BystandsMove

\* Going on inside a send.
LEMMA BystandsSending ==
    ASSUME IInv, NEW t \in Threads, call[t].at \in InSend, NEW a \in InSend
    PROVE  Bystands([call EXCEPT ![t].at = a])
  BY DEF Bystands, IInv, TypeOK, Call

\* Who is on the way to a ring may use it, as long as only sleepers are woken and
\* the table stays.
LEMMA TakersKept ==
    ASSUME IInv, WakeInv, UNCHANGED <<type, owner>>,
           \A t \in Threads : call'[t].at \in {"woken_recv", "drain"} =>
              \/ call[t].at \in Parked \cup {"woken_recv", "drain"} /\ call'[t].dst = call[t].dst
              \/ MayUse(t, call'[t].dst)
    PROVE  FreeIsUnowned' /\ TakersMayUse'
  <1>1. FreeIsUnowned'
    BY DEF WakeInv, FreeIsUnowned
  <1>2. TakersMayUse'
    BY DEF WakeInv, TakersMayUse, IInv, ParkedMayUse, MayUse
  <1> QED
    BY <1>1, <1>2

\* A step that moves bystanders only and touches no ring.
LEMMA BystandKeepsWake ==
    ASSUME IInv, WakeInv, Bystands(call'), UNCHANGED <<type, owner, queue>>
    PROVE  WakeInv'
  <1>1. \A f : Flying(call', f) = Flying(call, f)
    BY BystandsMeans
  <1>2. \A u \in Threads : call'[u].at \in Parked \cup {"woken_recv", "drain"} => call'[u] = call[u]
    BY BystandsMeans
  <1>3. FreeIsUnowned' /\ TakersMayUse'
    BY <1>2, TakersKept
  <1>4. \A f \in Endpoints : Slept(f)' => Slept(f)
    BY <1>2 DEF Slept
  <1>5. NoLostWakeup'
    BY <1>1, <1>4, CoverKept DEF WakeInv
  <1> QED
    BY <1>3, <1>5 DEF WakeInv

\* Woken threads were sleeping on the ring they are on their way to.
LEMMA WokenWereAsleep ==
    ASSUME IInv, NEW e \in Endpoints, NEW p, Unparked(p), call' = EnqueueWake(e, p)
    PROVE  \A u \in Threads : \/ call'[u] = p[u]
                              \/ call[u].at \in Parked /\ call'[u].dst = call[u].dst
  BY EnqueueWakes

\* An item is added to a ring: as many threads more are on their way to it.
LEMMA EnqueueKeepsWake ==
    ASSUME IInv, WakeInv, NEW e \in Endpoints, NEW m \in Message, NEW p, Unparked(p), Bystands(p),
           EnqueueLocked(e, queue[e], m, p), UNCHANGED <<type, owner>>
    PROVE  WakeInv'
  <1>1. queue[e] \in Seq(Message) /\ queue \in [Endpoints -> Seq(Message)]
    BY DEF IInv, TypeOK
  <1>2. call' = EnqueueWake(e, p) /\ queue' = [queue EXCEPT ![e] = Append(queue[e], m)]
    BY DEF EnqueueLocked
  <1>3. Len(Append(queue[e], m)) = Len(queue[e]) + 1 /\ Len(queue[e]) \in Nat
    BY <1>1, AppendProperties
  <1>4. FreeIsUnowned' /\ TakersMayUse'
    <2>1. \A u \in Threads : p[u].at \in Parked \cup {"woken_recv", "drain"} => p[u] = call[u]
      BY BystandsMeans
    <2> QED
      BY <1>2, <2>1, WokenWereAsleep, TakersKept
  <1>5. \A f \in Endpoints : Slept(f) => Len(queue[f]) <= Cardinality(Flying(p, f))
    BY BystandsMeans, WakeupMeans DEF WakeInv
  <1>6. Cardinality(Flying(p, e)) \in Nat
    BY FlyingIsFinite
  <1>7. Slept(e) => Len(queue'[e]) <= Cardinality(Flying(p, e)) + 1
    BY <1>1, <1>2, <1>3, <1>5, <1>6
  <1>8. \A f \in Endpoints \ {e} : Slept(f) => Len(queue'[f]) <= Cardinality(Flying(p, f))
    BY <1>1, <1>2, <1>5
  <1>9. NoLostWakeup'
    BY <1>2, <1>7, <1>8, WakeCovers
  <1> QED
    BY <1>4, <1>9 DEF WakeInv

\* An item is taken, by a thread on its way to it or by another: at most one
\* thread less is on its way.
LEMMA DequeueKeepsWake ==
    ASSUME IInv, WakeInv, NEW e \in Endpoints, queue[e] # << >>, NEW p, Unparked(p),
           \A u \in Threads : p[u].at \in {"woken_recv", "drain"} => p[u] = call[u],
           \A f \in Endpoints \ {e} : Flying(p, f) = Flying(call, f),
           Cardinality(Flying(call, e)) <= Cardinality(Flying(p, e)) + 1,
           DequeueLocked(e, p), UNCHANGED <<type, owner>>
    PROVE  WakeInv'
  <1>1. /\ queue[e] \in Seq(Message) /\ queue \in [Endpoints -> Seq(Message)]
        /\ pending[e] \in Seq(Message)
    BY DEF IInv, TypeOK
  <1>2. /\ Tail(queue[e]) \in Seq(Message) /\ Len(Tail(queue[e])) = Len(queue[e]) - 1
        /\ Len(queue[e]) \in Nat \ {0}
    BY <1>1, HeadTailProperties
  <1>3. Cardinality(Flying(p, e)) \in Nat /\ Cardinality(Flying(call, e)) \in Nat
    BY FlyingIsFinite
  <1>4. \A f \in Endpoints : Slept(f) => Len(queue[f]) <= Cardinality(Flying(call, f))
    BY WakeupMeans DEF WakeInv
  <1>5. Slept(e) => Len(queue[e]) <= Cardinality(Flying(p, e)) + 1
    BY <1>2, <1>3, <1>4
  <1>6. CASE pending[e] = << >>
    <2>1. queue' = [queue EXCEPT ![e] = Tail(@)] /\ call' = p
      BY <1>6 DEF DequeueLocked
    <2>2. FreeIsUnowned' /\ TakersMayUse'
      BY <2>1, TakersKept
    <2>3. ASSUME NEW f \in Endpoints, Slept(f)'
          PROVE  Len(queue'[f]) <= Cardinality(Flying(call', f))
      <3>1. Slept(f)
        BY <2>1, <2>3 DEF Slept, Unparked
      <3>2. CASE f = e
        BY <1>1, <1>2, <1>3, <1>5, <2>1, <3>1, <3>2
      <3>3. CASE f # e
        BY <1>1, <1>4, <2>1, <3>1, <3>3
      <3> QED
        BY <3>2, <3>3
    <2>4. \A f \in Endpoints : Slept(f)' => Len(queue'[f]) <= Cardinality(Flying(call', f))
      BY <2>3
    <2>5. NoLostWakeup'
      BY <2>4 DEF NoLostWakeup, Slept, Flying, InFlight
    <2> QED
      BY <2>2, <2>5 DEF WakeInv
  <1>7. CASE pending[e] # << >>
    <2>1. /\ queue' = [queue EXCEPT ![e] = Append(Tail(queue[e]), Head(pending[e]))]
          /\ call' = EnqueueWake(e, p)
      BY <1>7 DEF DequeueLocked, EnqueueLocked
    <2>2. Len(Append(Tail(queue[e]), Head(pending[e]))) = Len(queue[e])
      <3>1. Head(pending[e]) \in Message
        BY <1>1, <1>7, HeadTailProperties
      <3> QED
        BY <1>2, <3>1, AppendProperties
    <2>3. FreeIsUnowned' /\ TakersMayUse'
      BY <2>1, WokenWereAsleep, TakersKept
    <2>4. Slept(e) => Len(queue'[e]) <= Cardinality(Flying(p, e)) + 1
      BY <1>1, <1>5, <2>1, <2>2
    <2>5. \A f \in Endpoints \ {e} : Slept(f) => Len(queue'[f]) <= Cardinality(Flying(p, f))
      BY <1>1, <1>4, <2>1
    <2>6. NoLostWakeup'
      BY <2>1, <2>4, <2>5, WakeCovers
    <2> QED
      BY <2>3, <2>6 DEF WakeInv
  <1> QED
    BY <1>6, <1>7

\* An id is handed out: nobody was on the way to it.
LEMMA CreateKeepsWake ==
    ASSUME IInv, WakeInv, NEW c \in Contexts \cup {KERNEL}, NEW ty \in {"message", "notification"},
           CreateTyped(c, ty)
    PROVE  WakeInv'
  <1>1. next_id \in Endpoints /\ next_id \in Nat
    BY EndpointAssumption DEF CreateTyped, IInv, TypeOK, Endpoints
  <1>2. type[next_id] = "free" /\ owner[next_id] = NONE
    BY <1>1 DEF IInv, UnbornIsFree, WakeInv, FreeIsUnowned
  <1>3. /\ type' = [type EXCEPT ![next_id] = ty] /\ owner' = [owner EXCEPT ![next_id] = c]
        /\ UNCHANGED <<queue, call>>
    BY DEF CreateTyped
  <1>4. \A e \in Endpoints : e # next_id => type'[e] = type[e] /\ owner'[e] = owner[e]
    BY <1>3 DEF IInv, TypeOK
  <1>5. FreeIsUnowned'
    BY <1>1, <1>3, <1>4 DEF WakeInv, FreeIsUnowned, IInv, TypeOK
  <1>6. TakersMayUse'
    <2> SUFFICES ASSUME NEW t \in Threads, call[t].at \in {"woken_recv", "drain"}
                 PROVE  ThreadContext[t] \in {KERNEL, owner'[call[t].dst]}
      BY <1>3 DEF TakersMayUse, MayUse
    <2>1. ThreadContext[t] \in {KERNEL, owner[call[t].dst]} /\ call[t].dst \in Endpoints
      BY DEF WakeInv, TakersMayUse, MayUse, IInv, CallsHaveTargets
    <2>2. ThreadContext[t] # NONE
      BY EndpointAssumption
    <2> QED
      BY <1>2, <1>4, <2>1, <2>2
  <1>7. NoLostWakeup'
    BY <1>3 DEF WakeInv, NoLostWakeup, InFlight
  <1> QED
    BY <1>5, <1>6, <1>7 DEF WakeInv

\* Steps inside a send that queue nothing.
LEMMA SendingKeepsWake ==
    ASSUME IInv, WakeInv, NEW t \in Threads, NEW d \in Endpoints, NEW s, NEW ok,
           SendBegin(t, s, d) \/ SendRefused(t) \/ NoteCheck(t) \/ NoteRecord(t, ok)
    PROVE  WakeInv'
  <1>1. UNCHANGED <<type, owner, queue>>
    BY DEF SendBegin, SendRefused, NoteCheck, NoteRecord, epVars
  <1>2. Bystands(call')
    <2>1. CASE SendBegin(t, s, d)
      <3>1. [at |-> "send", src |-> s, dst |-> d].at \in {"idle"} \cup InSend
        BY DEF InSend
      <3> QED
        BY <2>1, <3>1, BystandsMove DEF SendBegin
    <2>2. CASE SendRefused(t) \/ NoteCheck(t) \/ NoteRecord(t, ok)
      <3>1. call[t].at \in InSend
        BY <2>2 DEF SendRefused, NoteCheck, NoteRecord, InSend
      <3>2. call' = [call EXCEPT ![t] = Idle] \/ call' = [call EXCEPT ![t].at = "note_alloc"]
        BY <2>2 DEF SendRefused, NoteCheck, NoteRecord
      <3>3. "note_alloc" \in InSend
        BY DEF InSend
      <3> QED
        BY <3>1, <3>2, <3>3, BystandsIdle, BystandsSending
    <2> QED
      BY <2>1, <2>2
  <1> QED
    BY <1>1, <1>2, BystandKeepsWake

\* Steps that move neither threads nor rings.
LEMMA AsideKeepsWake ==
    ASSUME IInv, WakeInv, UNCHANGED <<type, owner, queue, call>>
    PROVE  WakeInv'
  BY BystandKeepsWake DEF Bystands

\* An accepted send, and one of the kernel.
LEMMA SendKeepsWake ==
    ASSUME IInv, WakeInv, \/ \E t \in Threads : SendEnqueue(t)
                          \/ \E d \in Endpoints : KernelSend(d)
    PROVE  WakeInv'
  <1>1. ASSUME NEW t \in Threads, SendEnqueue(t)
        PROVE  WakeInv'
    <2> DEFINE s == call[t].src
               d == call[t].dst
               p == [call EXCEPT ![t].at = "note"]
    <2>1. s \in Endpoints \cup {NONE} /\ d \in Endpoints /\ call[t].at \in InSend
      BY <1>1 DEF SendEnqueue, IInv, TypeOK, CallsHaveTargets, Call, InSend
    <2>2. Unparked(p) /\ Bystands(p)
      BY <2>1, UnparkedSending, BystandsSending DEF InSend
    <2>3. EnqueueLocked(d, queue[d], Data(s), p) /\ UNCHANGED <<type, owner>>
      BY <1>1 DEF SendEnqueue
    <2>4. Data(s) \in Message
      BY <2>1, DataIsMessage
    <2> HIDE DEF s, d, p
    <2> QED
      BY <2>1, <2>2, <2>3, <2>4, EnqueueKeepsWake
  <1>2. ASSUME NEW d \in Endpoints, KernelSend(d)
        PROVE  WakeInv'
    <2>1. EnqueueLocked(d, queue[d], Data(NONE), call) /\ UNCHANGED <<type, owner>>
      BY <1>2 DEF KernelSend
    <2>2. Data(NONE) \in Message /\ Unparked(call) /\ Bystands(call)
      BY DataIsMessage, UnparkedSame DEF Bystands
    <2> QED
      BY <2>1, <2>2, EnqueueKeepsWake
  <1> QED
    BY <1>1, <1>2

\* A hangup into the ring, behind it, or nowhere.
LEMMA HangupKeepsWake ==
    ASSUME IInv, WakeInv, NEW d \in Endpoints, NEW m \in Message, HangupDeliver(d, m),
           UNCHANGED <<type, owner>>
    PROVE  WakeInv'
  <1>1. EnqueueLocked(d, queue[d], m, call) \/ UNCHANGED <<queue, call>>
    BY DEF HangupDeliver, IntoRingOrPending
  <1>2. Unparked(call) /\ Bystands(call)
    BY UnparkedSame DEF Bystands
  <1> QED
    BY <1>1, <1>2, EnqueueKeepsWake, AsideKeepsWake

\* ipc_recv_for by a thread nobody woke.
LEMMA RecvForKeepsWake ==
    ASSUME IInv, WakeInv, NEW t \in Threads, NEW e \in Endpoints, RecvFor(t, e)
    PROVE  WakeInv'
  <1>1. queue[e] # << >> /\ DequeueLocked(e, call) /\ UNCHANGED <<type, owner>>
    BY DEF RecvFor
  <1>2. Cardinality(Flying(call, e)) \in Nat
    BY FlyingIsFinite
  <1>3. Cardinality(Flying(call, e)) <= Cardinality(Flying(call, e)) + 1
    BY <1>2
  <1> QED
    BY <1>1, <1>3, UnparkedSame, DequeueKeepsWake

\* The receive of a thread on its way.  When it finds nothing, there was nothing.
LEMMA TakerKeepsWake ==
    ASSUME IInv, WakeInv, NEW t \in Threads, ResumeRecv(t) \/ Drain(t)
    PROVE  WakeInv'
  <1> DEFINE p == [call EXCEPT ![t] = Idle]
  <1>1. PICK e \in Endpoints : e = call[t].dst
    BY DEF ResumeRecv, Drain, IInv, CallsHaveTargets
  <1>2. /\ call[t].at \in {"woken_recv", "drain"} /\ call[t].at \notin Parked
        /\ UNCHANGED <<type, owner>>
    BY DEF ResumeRecv, Drain, Parked
  <1>3. t \in Flying(call, e) /\ \A f \in Endpoints \ {e} : t \notin Flying(call, f)
    BY <1>1, <1>2 DEF Flying
  <1>4. Idle.at = "idle" /\ Idle.at \notin {"woken_recv", "drain"} /\ Idle.at \notin Parked
    BY DEF Idle, Parked
  <1>5. /\ \A f \in Endpoints \ {e} : Flying(p, f) = Flying(call, f)
        /\ Cardinality(Flying(p, e)) = Cardinality(Flying(call, e)) - 1
    BY <1>3, <1>4, FlyingCount
  <1>6. /\ Unparked(p)
        /\ \A u \in Threads : p[u].at \in {"woken_recv", "drain"} \cup Parked => p[u] = call[u]
    <2>1. Unparked(p)
      BY <1>2, UnparkedIdle
    <2>2. p[t] = Idle /\ \A u \in Threads \ {t} : p[u] = call[u]
      BY DEF IInv, TypeOK
    <2> QED
      BY <1>4, <2>1, <2>2
  <1>7. \/ /\ call' = p /\ UNCHANGED queue /\ queue[e] = << >>
        \/ /\ queue[e] # << >> /\ DequeueLocked(e, p)
    BY <1>1 DEF ResumeRecv, Drain, Live, IsMessage, IInv, OnlyMessageHolds
  <1> HIDE DEF p
  <1>8. CASE call' = p /\ UNCHANGED queue /\ queue[e] = << >>
    <2>1. FreeIsUnowned' /\ TakersMayUse'
      BY <1>2, <1>6, <1>8, TakersKept
    <2>2. \A f \in Endpoints : Slept(f)' => Slept(f)
      BY <1>6, <1>8 DEF Slept
    <2>3. NoLostWakeup'
      BY <1>5, <1>8, <2>2, CoverKept DEF WakeInv
    <2> QED
      BY <2>1, <2>3 DEF WakeInv
  <1>9. CASE queue[e] # << >> /\ DequeueLocked(e, p)
    <2>1. Cardinality(Flying(p, e)) \in Nat /\ Cardinality(Flying(call, e)) \in Nat
      BY FlyingIsFinite
    <2>2. Cardinality(Flying(call, e)) <= Cardinality(Flying(p, e)) + 1
      BY <1>5, <2>1
    <2> QED
      BY <1>2, <1>5, <1>6, <1>9, <2>2, DequeueKeepsWake
  <1> QED
    BY <1>7, <1>8, <1>9

\* A thread goes to sleep on an empty ring, learns that it is readable, or gives
\* up waiting.
LEMMA WaitKeepsWake ==
    ASSUME IInv, WakeInv, NEW t \in Threads, NEW e \in Endpoints,
           RecvBlocking(t, e) \/ EndpointWait(t, e) \/ (WaitTimeout(t) /\ e = call[t].dst)
    PROVE  WakeInv'
  <1>1. UNCHANGED <<type, owner, queue>> /\ call \in [Threads -> Call]
    BY DEF RecvBlocking, EndpointWait, Park, WaitTimeout, epVars, IInv, TypeOK
  <1>2. PICK v :
           /\ call' = [call EXCEPT ![t] = v] /\ v.dst = e
           /\ \/ call[t].at = "idle" /\ v.at \in Parked /\ queue[e] = << >> /\ MayUse(t, e)
              \/ call[t].at = "idle" /\ v.at = "drain" /\ MayUse(t, e)
              \/ call[t].at \in Parked /\ call[t].dst = e /\ v.at = "drain"
    <2>1. CASE RecvBlocking(t, e) \/ EndpointWait(t, e)
      <3>1. PICK l \in {"parked_recv", "parked_wait", "drain"} :
               /\ call' = [call EXCEPT ![t] = [at |-> l, src |-> NONE, dst |-> e]]
               /\ call[t].at = "idle" /\ MayUse(t, e)
               /\ l # "drain" => queue[e] = << >>
        BY <2>1 DEF RecvBlocking, EndpointWait, Park
      <3> DEFINE w == [at |-> l, src |-> NONE, dst |-> e]
      <3>2. w.at = l /\ w.dst = e
        OBVIOUS
      <3>3. call' = [call EXCEPT ![t] = w]
        BY <3>1
      <3> HIDE DEF w
      <3> QED
        BY <3>1, <3>2, <3>3 DEF Parked
    <2>2. CASE WaitTimeout(t) /\ e = call[t].dst
      <3> DEFINE w == [call[t] EXCEPT !.at = "drain"]
      <3>1. call[t] \in Call /\ call[t].at \in Parked
        BY <1>1, <2>2 DEF WaitTimeout, Parked
      <3>2. w.at = "drain" /\ w.dst = e
        BY <2>2, <3>1 DEF Call
      <3>3. call' = [call EXCEPT ![t] = w]
        BY <1>1, <2>2 DEF WaitTimeout
      <3> HIDE DEF w
      <3> QED
        BY <2>2, <3>1, <3>2, <3>3
    <2> QED
      BY <2>1, <2>2
  <1>3. call'[t] = v /\ \A u \in Threads \ {t} : call'[u] = call[u]
    BY <1>1, <1>2
  <1>4. FreeIsUnowned' /\ TakersMayUse'
    BY <1>1, <1>2, <1>3, TakersKept
  <1>5. \A f \in Endpoints : Flying(call, f) \subseteq Flying(call', f)
    BY <1>2, <1>3 DEF Flying, Parked
  <1>6. \A f \in Endpoints : Slept(f)' => Slept(f) \/ (f = e /\ queue[e] = << >>)
    BY <1>2, <1>3 DEF Slept, Parked
  <1>7. NoLostWakeup'
    BY <1>1, <1>5, <1>6, CoverKept DEF WakeInv
  <1> QED
    BY <1>4, <1>7 DEF WakeInv

\* A teardown takes its threads from rings of the dead process only, and those
\* are gone with it.
LEMMA ReleaseKeepsWake ==
    ASSUME IInv, WakeInv, NEW c \in Contexts, ReleaseOwner(c)
    PROVE  WakeInv'
  <1> DEFINE dying == OwnedBy(c)
  <1>1. /\ type' = [e \in Endpoints |-> IF e \in dying THEN "released" ELSE type[e]]
        /\ queue' = [e \in Endpoints |-> IF e \in dying THEN << >> ELSE queue[e]]
        /\ UNCHANGED owner
    BY DEF ReleaseOwner
  <1>2. \A e \in Endpoints : e \in dying <=> Live(e) /\ owner[e] = c
    BY DEF OwnedBy
  <1>3. ASSUME NEW t \in Threads
        PROVE  /\ call'[t].at \in Parked => call'[t] = call[t]
               /\ call'[t].at \in {"woken_recv", "drain"} =>
                    call[t].at \in Parked \cup {"woken_recv", "drain"} /\ call'[t].dst = call[t].dst
               /\ call[t].at \in {"woken_recv", "drain"} => call'[t] = call[t] \/ ThreadContext[t] = c
    <2>1. call'[t] = IF ThreadContext[t] = c THEN Dead
                     ELSE IF call[t].at \in Parked /\ call[t].dst \in dying
                          THEN [call[t] EXCEPT !.at = Resumed(@)]
                     ELSE call[t]
      BY DEF ReleaseOwner, CallsAfterRelease
    <2>2. call[t] \in Call
      BY DEF IInv, TypeOK
    <2>3. CASE ThreadContext[t] = c
      BY <2>1, <2>3 DEF Dead, Parked
    <2>4. CASE ThreadContext[t] # c /\ call[t].at \in Parked /\ call[t].dst \in dying
      <3>1. call'[t] = [call[t] EXCEPT !.at = Resumed(@)]
        BY <2>1, <2>4
      <3>2. call'[t].at \in {"woken_recv", "drain"} /\ call'[t].dst = call[t].dst
        BY <2>2, <3>1 DEF Call, Resumed
      <3> QED
        BY <2>4, <3>2 DEF Parked
    <2>5. CASE ThreadContext[t] # c /\ ~(call[t].at \in Parked /\ call[t].dst \in dying)
      BY <2>1, <2>5
    <2> QED
      BY <2>3, <2>4, <2>5
  <1> HIDE DEF dying
  <1>4. FreeIsUnowned'
    BY <1>1 DEF WakeInv, FreeIsUnowned
  <1>5. TakersMayUse'
    BY <1>1, <1>3 DEF WakeInv, TakersMayUse, MayUse, IInv, ParkedMayUse
  <1>6. ASSUME NEW f \in Endpoints
        PROVE  \/ queue'[f] = << >>
               \/ /\ queue'[f] = queue[f]
                  /\ Slept(f)' => Slept(f)
                  /\ Flying(call, f) \subseteq Flying(call', f)
    <2>1. Slept(f)' => Slept(f)
      BY <1>3 DEF Slept
    <2>2. CASE owner[f] = c
      BY <1>1, <1>2, <2>2 DEF Live, IInv, OnlyMessageHolds
    <2>3. CASE owner[f] # c
      <3>1. queue'[f] = queue[f]
        BY <1>1, <1>2, <2>3
      <3>2. Flying(call, f) \subseteq Flying(call', f)
        <4> SUFFICES ASSUME NEW t \in Threads, call[t].at \in {"woken_recv", "drain"}, call[t].dst = f
                     PROVE  call'[t] = call[t]
          BY DEF Flying
        <4>1. ThreadContext[t] \in {KERNEL, owner[f]}
          BY DEF WakeInv, TakersMayUse, MayUse
        <4> QED
          BY <1>3, <2>3, <4>1, EndpointAssumption
      <3> QED
        BY <2>1, <3>1, <3>2
    <2> QED
      BY <2>2, <2>3
  <1>7. NoLostWakeup'
    BY <1>6, CoverKept DEF WakeInv
  <1> QED
    BY <1>4, <1>5, <1>7 DEF WakeInv

\* One hangup leaves the teardown batch.
LEMMA ReaperKeepsWake ==
    ASSUME IInv, WakeInv, Reaper
    PROVE  WakeInv'
  <1>1. ASSUME NEW s \in Endpoints, DeliverContact(s)
        PROVE  WakeInv'
    <2>1. /\ batch[s] # << >> /\ batch[s] \in Seq(Endpoints)
          /\ HangupDeliver(Head(batch[s]), HangupMessage(s, owner[s])) /\ UNCHANGED <<type, owner>>
      BY <1>1 DEF DeliverContact, IInv, TypeOK
    <2>2. Head(batch[s]) \in Endpoints
      BY <2>1, HeadTailProperties
    <2>3. HangupMessage(s, owner[s]) \in Message
      BY <2>1, HangupIsMessage DEF IInv, BatchIsOfProcess
    <2> QED
      BY <2>1, <2>2, <2>3, HangupKeepsWake
  <1>2. ASSUME NEW c \in Contexts, DeliverWatch(c)
        PROVE  WakeInv'
    <2>1. /\ watch_batch[c] # << >> /\ watch_batch[c] \in Seq(Endpoints)
          /\ HangupDeliver(Head(watch_batch[c]), HangupMessage(NONE, c)) /\ UNCHANGED <<type, owner>>
      BY <1>2 DEF DeliverWatch, IInv, TypeOK
    <2>2. Head(watch_batch[c]) \in Endpoints /\ HangupMessage(NONE, c) \in Message
      BY <2>1, HeadTailProperties, HangupIsMessage
    <2> QED
      BY <2>1, <2>2, HangupKeepsWake
  <1> QED
    BY <1>1, <1>2 DEF Reaper

\* Nobody sleeps in an empty table.
LEMMA InitWake == Init => WakeInv
  BY DEF Init, WakeInv, FreeIsUnowned, TakersMayUse, NoLostWakeup, Idle, Parked

\* Every step leaves as many threads on their way as a sleeper's ring has items.
LEMMA NextWake == IInv /\ WakeInv /\ [Next]_vars => WakeInv'
  <1> SUFFICES ASSUME IInv, WakeInv, [Next]_vars PROVE WakeInv'
    OBVIOUS
  <1>1. ASSUME NEW t \in Threads, ThreadCall(t)
        PROVE  WakeInv'
    <2>1. ASSUME NEW e \in Endpoints, NotifyFrom(t, e) \/ WaitFor(t, e)
          PROVE  WakeInv'
      BY <2>1, AsideKeepsWake DEF NotifyFrom, WaitFor
    <2> QED
      BY <1>1, <2>1, SendingKeepsWake, RecvForKeepsWake, WaitKeepsWake DEF ThreadCall
  <1>2. ASSUME NEW t \in Threads, ThreadStep(t)
        PROVE  WakeInv'
    <2>1. ASSUME SendRefused(t) \/ NoteCheck(t) \/ (\E ok \in BOOLEAN : NoteRecord(t, ok)) \/ WaitTimeout(t)
          PROVE  WakeInv'
      <3>1. call[t].dst \in Endpoints
        BY <2>1 DEF SendRefused, NoteCheck, NoteRecord, WaitTimeout, IInv, CallsHaveTargets
      <3> QED
        BY <2>1, <3>1, SendingKeepsWake, WaitKeepsWake
    <2> QED
      BY <1>2, <2>1, SendKeepsWake, TakerKeepsWake DEF ThreadStep
  <1>3. ASSUME NEW c \in Contexts, NEW d \in Endpoints, ContextWatch(c, d)
        PROVE  WakeInv'
    BY <1>3, AsideKeepsWake DEF ContextWatch, epVars
  <1>4. ASSUME NEW c \in Contexts, Exit(c)
        PROVE  WakeInv'
    BY <1>4, AsideKeepsWake DEF Exit, epVars
  <1>5. CASE UNCHANGED vars
    BY <1>5, AsideKeepsWake DEF vars, epVars
  <1> QED
    BY <1>1, <1>2, <1>3, <1>4, <1>5, CreateKeepsWake, SendKeepsWake, ReleaseKeepsWake,
       ReaperKeepsWake DEF Next

\* No wake-up is lost, for any number of threads on one endpoint: a thread sleeps
\* only while every item in the ring has a thread on its way, although woken
\* threads take their item under no lock held since the wake, others may take it
\* first, and a dequeue may refill the ring (ipc_endpoint_enqueue_locked,
\* ipc_endpoint_dequeue_locked, ipc_endpoint_teardown).
THEOREM WakeupsAreKept == Spec => []NoLostWakeup
  <1>1. Init => IInv /\ WakeInv
    BY InitIInv, InitWake
  <1>2. (IInv /\ WakeInv) /\ [Next]_vars => (IInv /\ WakeInv)'
    BY NextIInv, NextWake
  <1>3. IInv /\ WakeInv => NoLostWakeup
    BY DEF WakeInv
  <1> QED
    BY <1>1, <1>2, <1>3, PTL DEF Spec

============================================================================
