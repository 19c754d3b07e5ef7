----------------------- MODULE IpcEndpointRefinement -----------------------
(***************************************************************************)
(* The endpoints implement the mailboxes of Mailbox, for every queue depth *)
(* and every number of endpoints, contexts and threads: seen through       *)
(* Inbox (the ring, then the hangups waiting behind it), every step of the *)
(* kernel is a step of one mailbox, the end of a set of them, or no step   *)
(* at all.  The proof uses the invariant of IpcEndpointProofs.             *)
(***************************************************************************)
EXTENDS IpcEndpointProofs

(***************************************************************************)
(* Steps of the endpoints as steps of the mailboxes.                       *)
(***************************************************************************)

Boxed == [e \in Endpoints |-> Inbox(e)]

\* What leaves rings, pending lists and the table alone is no mailbox step.
LEMMA NoStep ==
    ASSUME UNCHANGED <<type, queue, pending>>
    PROVE  UNCHANGED Mailbox!vars
  BY DEF Mailbox!vars, MailboxState, Inbox

\* An item that arrives at the end of one inbox is put into that mailbox.
LEMMA PutStep ==
    ASSUME IInv, NEW e \in Endpoints, IsMessage(e), NEW m \in Message,
           m.type = "data" => Len(Inbox(e)) < QUEUE_DEPTH,
           Grown(e, m), UNCHANGED type
    PROVE  Mailbox!Next
  <1>1. MailboxState[e] = "open" /\ UNCHANGED MailboxState
    BY DEF MailboxState, IsMessage
  <1>2. Boxed' = [Boxed EXCEPT ![e] = Append(@, m)]
    BY DEF Boxed, Grown
  <1>3. Mailbox!Put(e, m)
    BY <1>1, <1>2 DEF Mailbox!Put, Boxed
  <1> QED
    BY <1>3 DEF Mailbox!Next

\* The oldest item of one inbox leaving it is taken from that mailbox.
LEMMA TakeStep ==
    ASSUME IInv, NEW e \in Endpoints, IsMessage(e), Shrunk(e), UNCHANGED type
    PROVE  Mailbox!Next
  <1>1. MailboxState[e] = "open" /\ UNCHANGED MailboxState
    BY DEF MailboxState, IsMessage
  <1>2. Boxed' = [Boxed EXCEPT ![e] = Tail(@)] /\ Inbox(e) # << >>
    BY DEF Boxed, Shrunk
  <1>3. Mailbox!Take(e)
    BY <1>1, <1>2 DEF Mailbox!Take, Boxed
  <1> QED
    BY <1>3 DEF Mailbox!Next

\* An enqueue on a ring with nothing pending.
LEMMA EnqueuePuts ==
    ASSUME IInv, NEW e \in Endpoints, IsMessage(e), NEW m \in Message, NEW p,
           pending[e] = << >>, m.type = "data" => Len(queue[e]) < QUEUE_DEPTH,
           EnqueueLocked(e, queue[e], m, p), UNCHANGED <<type, pending>>
    PROVE  Mailbox!Next
  BY EnqueueGrows, PutStep

\* A dequeue, whether or not a hangup moves up.
LEMMA DequeueTakes ==
    ASSUME IInv, NEW e \in Endpoints, IsMessage(e), queue[e] # << >>, NEW p,
           DequeueLocked(e, p), UNCHANGED type
    PROVE  Mailbox!Next
  BY DequeueShrinks, TakeStep

\* A hangup reaches the mailbox whether its ring has room or not, and is
\* dropped only with a mailbox that is not open.
LEMMA HangupPuts ==
    ASSUME IInv, NEW d \in Endpoints, NEW s, NEW c, HangupMessage(s, c) \in Message,
           HangupDeliver(d, HangupMessage(s, c)), UNCHANGED type
    PROVE  Mailbox!Next \/ UNCHANGED Mailbox!vars
  <1> DEFINE m == HangupMessage(s, c)
  <1>1. m \in Message /\ m.type # "data"
    BY DEF HangupMessage
  <1> HIDE DEF m
  <1>2. HangupDeliver(d, m)
    BY DEF m
  <1>3. CASE ~IsMessage(d)
    BY <1>2, <1>3, NoStep DEF HangupDeliver
  <1>4. CASE IsMessage(d)
    BY <1>1, <1>2, <1>4, HangupGrows, PutStep
  <1> QED
    BY <1>3, <1>4

\* The endpoint a create hands out opens its mailbox; that of a notification
\* endpoint is shut from the start.
LEMMA CreateOpens ==
    ASSUME IInv, NEW c \in Contexts \cup {KERNEL}, NEW ty \in {"message", "notification"},
           CreateTyped(c, ty)
    PROVE  Mailbox!Next
  <1>1. next_id \in Endpoints /\ type' = [type EXCEPT ![next_id] = ty]
        /\ UNCHANGED <<queue, pending>>
    BY EndpointAssumption DEF CreateTyped, IInv, TypeOK, Endpoints, hangVars
  <1>2. type[next_id] = "free" /\ type \in [Endpoints -> {"free", "message", "notification", "released"}]
    BY <1>1 DEF IInv, TypeOK, UnbornIsFree, Endpoints
  <1>3. MailboxState[next_id] = "new"
    BY <1>1, <1>2 DEF MailboxState
  <1>4. \E s \in {"open", "shut"} : MailboxState' = [MailboxState EXCEPT ![next_id] = s]
    <2>1. CASE ty = "message"
      <3>1. MailboxState' = [MailboxState EXCEPT ![next_id] = "open"]
        BY <1>1, <1>2, <2>1 DEF MailboxState
      <3> QED
        BY <3>1
    <2>2. CASE ty = "notification"
      <3>1. MailboxState' = [MailboxState EXCEPT ![next_id] = "shut"]
        BY <1>1, <1>2, <2>2 DEF MailboxState
      <3> QED
        BY <3>1
    <2> QED
      BY <2>1, <2>2
  <1>5. UNCHANGED Boxed
    BY <1>1 DEF Boxed, Inbox
  <1>6. Mailbox!Open(next_id)
    BY <1>3, <1>4, <1>5 DEF Mailbox!Open, Boxed
  <1> QED
    BY <1>1, <1>6 DEF Mailbox!Next

\* A teardown shuts every mailbox of the dead process at once.
LEMMA ReleaseShuts ==
    ASSUME IInv, NEW c \in Contexts, ReleaseOwner(c)
    PROVE  Mailbox!Next
  <1> DEFINE dying == OwnedBy(c)
  <1>1. /\ type' = [e \in Endpoints |-> IF e \in dying THEN "released" ELSE type[e]]
        /\ queue' = [e \in Endpoints |-> IF e \in dying THEN << >> ELSE queue[e]]
        /\ pending' = [e \in Endpoints |-> IF e \in dying THEN << >> ELSE pending[e]]
    BY DEF ReleaseOwner, ClearPending
  <1>2. dying \in SUBSET Endpoints /\ \A e \in dying : type[e] \in {"message", "notification"}
    BY DEF OwnedBy, Live
  <1> HIDE DEF dying
  <1>3. \A e \in dying : MailboxState[e] # "new"
    BY <1>2 DEF MailboxState
  <1>4. MailboxState' = [e \in Endpoints |-> IF e \in dying THEN "shut" ELSE MailboxState[e]]
    BY <1>1 DEF MailboxState
  <1>5. Boxed' = [e \in Endpoints |-> IF e \in dying THEN << >> ELSE Boxed[e]]
    <2>1. \A e \in Endpoints : Inbox(e)' = IF e \in dying THEN << >> ELSE Inbox(e)
      BY ReleaseEmpties DEF dying
    <2> QED
      BY <2>1 DEF Boxed
  <1>6. Mailbox!Shut(dying)
    BY <1>4, <1>5 DEF Mailbox!Shut, Boxed
  <1> QED
    BY <1>2, <1>3, <1>6 DEF Mailbox!Next

----------------------------------------------------------------------------
\* The empty table maps to mailboxes that were never opened.
LEMMA InitRefines == Init => Mailbox!Init
  BY ConcatEmptySeq DEF Init, Mailbox!Init, MailboxState, Inbox

\* Every step of the kernel is a mailbox step or none.
LEMMA NextRefines == IInv /\ [Next]_vars => [Mailbox!Next]_(Mailbox!vars)
  <1> SUFFICES ASSUME IInv, [Next]_vars PROVE Mailbox!Next \/ UNCHANGED Mailbox!vars
    OBVIOUS
  <1>1. ASSUME NEW c \in Contexts \cup {KERNEL}, NEW ty \in {"message", "notification"},
               CreateTyped(c, ty)
        PROVE  Mailbox!Next
    BY <1>1, CreateOpens
  <1>2. ASSUME NEW t \in Threads, ThreadCall(t)
        PROVE  Mailbox!Next \/ UNCHANGED Mailbox!vars
    <2>1. ASSUME NEW e \in Endpoints, RecvFor(t, e)
          PROVE  Mailbox!Next
      BY <2>1, DequeueTakes DEF RecvFor
    <2>2. CASE UNCHANGED <<type, queue, pending>>
      BY <2>2, NoStep
    <2> QED
      BY <1>2, <2>1, <2>2 DEF ThreadCall, SendBegin, RecvBlocking, EndpointWait, Park, NotifyFrom,
                              WaitFor, epVars, hangVars
  <1>3. ASSUME NEW t \in Threads, ThreadStep(t)
        PROVE  Mailbox!Next \/ UNCHANGED Mailbox!vars
    <2> DEFINE e == call[t].dst
    <2>1. CASE SendEnqueue(t)
      <3>1. e \in Endpoints /\ Data(call[t].src) \in Message
        BY <2>1, DataIsMessage DEF SendEnqueue, IInv, TypeOK, CallsHaveTargets, Call
      <3>2. /\ IsMessage(e) /\ HasRoom(e) /\ UNCHANGED <<type, pending>>
            /\ EnqueueLocked(e, queue[e], Data(call[t].src), [call EXCEPT ![t].at = "note"])
        BY <2>1 DEF SendEnqueue, hangVars
      <3> HIDE DEF e
      <3>3. pending[e] = << >>
        BY <3>1, <3>2, RoomMeansNonePending
      <3> QED
        BY <3>1, <3>2, <3>3, EnqueuePuts DEF HasRoom
    <2>2. CASE ResumeRecv(t)
      <3>1. e \in Endpoints /\ UNCHANGED type
        BY <2>2 DEF ResumeRecv, IInv, CallsHaveTargets
      <3>2. CASE UNCHANGED <<queue, waiters, pending, heard>>
        BY <3>1, <3>2, NoStep
      <3>3. CASE queue[e] # << >> /\ DequeueLocked(e, [call EXCEPT ![t] = Idle])
        <4>1. IsMessage(e)
          BY <3>1, <3>3 DEF IInv, OnlyMessageHolds, IsMessage
        <4> HIDE DEF e
        <4> QED
          BY <3>1, <3>3, <4>1, DequeueTakes
      <3> QED
        BY <2>2, <3>2, <3>3 DEF ResumeRecv
    <2>3. CASE Drain(t)
      <3>1. e \in Endpoints /\ UNCHANGED type
        BY <2>3 DEF Drain, IInv, CallsHaveTargets
      <3>2. CASE UNCHANGED <<queue, waiters, pending, heard>>
        BY <3>1, <3>2, NoStep
      <3>3. CASE IsMessage(e) /\ queue[e] # << >> /\ DequeueLocked(e, [call EXCEPT ![t] = Idle])
        <4> HIDE DEF e
        <4> QED
          BY <3>1, <3>3, DequeueTakes
      <3> QED
        BY <2>3, <3>2, <3>3 DEF Drain
    <2>4. CASE UNCHANGED <<type, queue, pending>>
      BY <2>4, NoStep
    <2> QED
      BY <1>3, <2>1, <2>2, <2>3, <2>4 DEF ThreadStep, SendRefused, NoteCheck, NoteRecord,
                                          WaitTimeout, epVars, hangVars
  <1>4. ASSUME NEW d \in Endpoints, KernelSend(d)
        PROVE  Mailbox!Next
    <2>1. Data(NONE) \in Message
      BY DataIsMessage
    <2>2. /\ IsMessage(d) /\ HasRoom(d) /\ UNCHANGED <<type, pending>>
          /\ EnqueueLocked(d, queue[d], Data(NONE), call)
      BY <1>4 DEF KernelSend, hangVars
    <2> QED
      BY <2>1, <2>2, RoomMeansNonePending, EnqueuePuts DEF HasRoom
  <1>5. ASSUME NEW c \in Contexts, ReleaseOwner(c)
        PROVE  Mailbox!Next
    BY <1>5, ReleaseShuts
  <1>6. CASE Reaper
    <2>1. ASSUME NEW s \in Endpoints, DeliverContact(s)
          PROVE  Mailbox!Next \/ UNCHANGED Mailbox!vars
      <3>1. /\ batch[s] # << >> /\ UNCHANGED type
            /\ HangupDeliver(Head(batch[s]), HangupMessage(s, owner[s]))
        BY <2>1 DEF DeliverContact
      <3>2. Head(batch[s]) \in Endpoints
        BY <3>1, HeadTailProperties DEF IInv, TypeOK
      <3>3. HangupMessage(s, owner[s]) \in Message
        BY <3>1, HangupIsMessage DEF IInv, BatchIsOfProcess
      <3> QED
        BY <3>1, <3>2, <3>3, HangupPuts
    <2>2. ASSUME NEW c \in Contexts, DeliverWatch(c)
          PROVE  Mailbox!Next \/ UNCHANGED Mailbox!vars
      <3>1. /\ watch_batch[c] # << >> /\ UNCHANGED type
            /\ HangupDeliver(Head(watch_batch[c]), HangupMessage(NONE, c))
        BY <2>2 DEF DeliverWatch
      <3>2. Head(watch_batch[c]) \in Endpoints
        BY <3>1, HeadTailProperties DEF IInv, TypeOK
      <3>3. HangupMessage(NONE, c) \in Message
        BY HangupIsMessage
      <3> QED
        BY <3>1, <3>2, <3>3, HangupPuts
    <2> QED
      BY <1>6, <2>1, <2>2 DEF Reaper
  <1>7. CASE UNCHANGED <<type, queue, pending>>
    BY <1>7, NoStep
  <1> QED
    BY <1>1, <1>2, <1>3, <1>4, <1>5, <1>6, <1>7
       DEF Next, ContextWatch, Exit, vars, epVars, hangVars

\* The endpoints implement their abstract specification: what an endpoint
\* accepts (ipc_send_from, ipc_hangup_deliver) is taken in that order, each item
\* once, none lost while the endpoint lives, and no hangup is ever refused.
THEOREM Refinement == Spec => MailboxSpec
  BY Inductive, InitRefines, NextRefines, PTL DEF Spec, MailboxSpec, Mailbox!Spec

============================================================================
