----------------------------- MODULE IpcSelect -----------------------------
(***************************************************************************)
(* Select sets and the poll hub (src/src/kernel/ipc.c, poll.c): a thread   *)
(* waits for any of several endpoints to become readable.                  *)
(*                                                                         *)
(* An endpoint is reduced to what a scan sees of it: whether it lives, how *)
(* many messages or notifications it holds, and the hub of sets watching   *)
(* it.  IpcEndpoint models the endpoints themselves.  A scan looks at one  *)
(* endpoint at a time, each under that endpoint's own lock, so sends land  *)
(* between two looks; g_select_table_lock is held across the whole scan    *)
(* and is a variable here.  Everything done under one endpoint or event    *)
(* lock is one step.                                                       *)
(***************************************************************************)
EXTENDS Naturals, Sequences, FiniteSets, KernelList

CONSTANTS
    Endpoints,   \* the endpoints sets may watch
    MaxSel,      \* bound: select set ids handed out are 1 .. MaxSel
    Threads,     \* threads of the process that owns the sets
    Reactors,    \* the sets that are used by one thread at a time
    NONE,        \* IPC_ENDPOINT_NONE; also "no holder" of the table lock
    EPS_MAX,     \* IPC_SELECT_EPS_MAX
    SETS_MAX,    \* IPC_SELECT_PER_CONTEXT_MAX
    MaxQueued    \* bound: messages an endpoint holds (IPC_QUEUE_DEPTH)

Sets == 1 .. MaxSel

ASSUME SelectAssumption ==
    /\ MaxSel \in Nat
    /\ EPS_MAX \in Nat \ {0}
    /\ SETS_MAX \in Nat \ {0}
    /\ MaxQueued \in Nat \ {0}
    /\ NONE \notin Endpoints
    /\ NONE \notin Threads
    /\ Reactors \subseteq Sets

VARIABLES
    live,         \* endpoint resolves
    count,        \* ep->count or ep->notify_count
    hub,          \* ep->poll_struct: how many watcher nodes name each set
    next_sel,     \* idtable's counter for select sets
    sel_live,     \* the set is allocated
    ep_ids,       \* endpoints the set watches, in the order they were added
    ready_ep,     \* the readiness latch
    scan_cursor,  \* index into ep_ids, from 0
    wait_list,    \* threads parked on the set's event, longest first
    table_lock,   \* holder of g_select_table_lock, or NONE
    call          \* what each thread is doing: at, set, index n, result ep

epVars  == <<live, count, hub>>
selVars == <<next_sel, sel_live, ep_ids, ready_ep, scan_cursor, wait_list>>
vars == <<epVars, selVars, table_lock, call>>

Idle == [at |-> "idle", set |-> 0, n |-> 0, ep |-> NONE]

\* Where a thread can be: "scan"/"rescan" looking at endpoint n of its set,
\* "clear" with an answer from the scan, "got" with an answer to consume.
CallLabels == {"idle", "scan", "clear", "parked", "woken", "rescan", "got", "destroy"}

\* Every variable keeps its type; a wait consumes no more than an endpoint's ring
\* holds, however many waits were told of the same message.
TypeOK ==
    /\ live \in [Endpoints -> BOOLEAN]
    /\ count \in [Endpoints -> 0 .. MaxQueued]
    /\ hub \in [Endpoints -> [Sets -> Nat]]
    /\ next_sel \in 1 .. MaxSel + 1
    /\ sel_live \in [Sets -> BOOLEAN]
    /\ ep_ids \in [Sets -> Seq(Endpoints)]
    /\ ready_ep \in [Sets -> Endpoints \cup {NONE}]
    /\ scan_cursor \in [Sets -> Nat]
    /\ wait_list \in [Sets -> Seq(Threads)]
    /\ table_lock \in Threads \cup {NONE}
    /\ call \in [Threads -> [at : CallLabels, set : Sets \cup {0}, n : Nat,
                             ep : Endpoints \cup {NONE}]]

NoWatchers == [s \in Sets |-> 0]

Init ==
    /\ live = [e \in Endpoints |-> TRUE]
    /\ count = [e \in Endpoints |-> 0]
    /\ hub = [e \in Endpoints |-> NoWatchers]
    /\ next_sel = 1
    /\ sel_live = [s \in Sets |-> FALSE]
    /\ ep_ids = [s \in Sets |-> << >>]
    /\ ready_ep = [s \in Sets |-> NONE]
    /\ scan_cursor = [s \in Sets |-> 0]
    /\ wait_list = [s \in Sets |-> << >>]
    /\ table_lock = NONE
    /\ call = [t \in Threads |-> Idle]

----------------------------------------------------------------------------
(***************************************************************************)
(* Endpoint side: a send or a notify, the receive that consumes it, and    *)
(* the teardown of an endpoint.                                            *)
(***************************************************************************)

\* The sets poll_notify signals for e: every watcher on its hub.
Signalled(e) == {s \in Sets : hub[e][s] > 0}

\* The threads sched_event_wake_one releases, one per signalled set.
Released(S) == {Head(wait_list[s]) : s \in {x \in S : wait_list[x] # << >>}}

Dequeued(S) ==
    [s \in Sets |->
        IF s \in S /\ wait_list[s] # << >> THEN Tail(wait_list[s]) ELSE wait_list[s]]

Wake(T, c) == [t \in Threads |-> IF t \in T THEN [c[t] EXCEPT !.at = "woken"] ELSE c[t]]

\* ipc_endpoint_enqueue_locked, or ipc_notify_from: under ep->lock the message
\* is counted and ipc_select_signal runs for every watcher, which latches the
\* endpoint and wakes one waiter under the set's event lock.
Send(e) ==
    /\ live[e]
    /\ count[e] < MaxQueued
    /\ count' = [count EXCEPT ![e] = @ + 1]
    /\ ready_ep' = [s \in Sets |-> IF s \in Signalled(e) THEN e ELSE ready_ep[s]]
    /\ wait_list' = Dequeued(Signalled(e))
    /\ call' = Wake(Released(Signalled(e)), call)
    /\ UNCHANGED <<live, hub, next_sel, sel_live, ep_ids, scan_cursor, table_lock>>

\* Mutation: the count is decremented although a racing receiver emptied it.
ConsumeUnchecked(t) ==
    LET e == call[t].ep
    IN  /\ call[t].at = "got"
        /\ call' = [call EXCEPT ![t] = Idle]
        /\ count' = [count EXCEPT ![e] = @ - 1]
        /\ UNCHANGED <<live, hub, selVars, table_lock>>

\* ipc_recv_for / ipc_wait_for on the endpoint a wait reported.  A racing
\* receiver may have emptied it.
Consume(t) ==
    LET e == call[t].ep
    IN  /\ call[t].at = "got"
        /\ call' = [call EXCEPT ![t] = Idle]
        /\ count' = [count EXCEPT ![e] = IF live[e] /\ @ > 0 THEN @ - 1 ELSE @]
        /\ UNCHANGED <<live, hub, selVars, table_lock>>

\* ipc_endpoint_teardown: the hub is freed; the sets keep the dead id.
Teardown(e) ==
    /\ live[e]
    /\ live' = [live EXCEPT ![e] = FALSE]
    /\ count' = [count EXCEPT ![e] = 0]
    /\ hub' = [hub EXCEPT ![e] = NoWatchers]
    /\ UNCHANGED <<selVars, table_lock, call>>

----------------------------------------------------------------------------
(***************************************************************************)
(* Building a set.                                                         *)
(***************************************************************************)

\* ipc_select_create
SelectCreate(t) ==
    /\ call[t].at = "idle"
    /\ table_lock = NONE
    /\ next_sel <= MaxSel
    /\ Cardinality({s \in Sets : sel_live[s]}) < SETS_MAX
    /\ next_sel' = next_sel + 1
    /\ sel_live' = [sel_live EXCEPT ![next_sel] = TRUE]
    /\ UNCHANGED <<epVars, ep_ids, ready_ep, scan_cursor, wait_list, table_lock, call>>

Watches(s, e) == e \in Elems(ep_ids[s])

\* Mutation: an endpoint the set watches is registered again.
SelectAddAgain(t, s, e) ==
    /\ call[t].at = "idle"
    /\ table_lock = NONE
    /\ sel_live[s]
    /\ Len(ep_ids[s]) < EPS_MAX
    /\ live[e]
    /\ hub' = [hub EXCEPT ![e][s] = @ + 1]
    /\ ep_ids' = [ep_ids EXCEPT ![s] = Append(@, e)]
    /\ UNCHANGED <<live, count, next_sel, sel_live, ready_ep, scan_cursor, wait_list,
                   table_lock, call>>

\* ipc_select_add: a watched endpoint is a no-op, a full set or a dead endpoint
\* is refused; otherwise the watcher is registered under ep->lock and the id
\* recorded before the table lock is dropped.  Nobody is signalled.
SelectAdd(t, s, e) ==
    /\ call[t].at = "idle"
    /\ table_lock = NONE
    /\ sel_live[s]
    /\ ~Watches(s, e)
    /\ Len(ep_ids[s]) < EPS_MAX
    /\ live[e]
    /\ hub' = [hub EXCEPT ![e][s] = @ + 1]
    /\ ep_ids' = [ep_ids EXCEPT ![s] = Append(@, e)]
    /\ UNCHANGED <<live, count, next_sel, sel_live, ready_ep, scan_cursor, wait_list,
                   table_lock, call>>

----------------------------------------------------------------------------
(***************************************************************************)
(* ipc_select_wait.                                                        *)
(***************************************************************************)

\* The scan starts at the cursor, reset when it ran past the end.
StartCursor(s) == IF scan_cursor[s] >= Len(ep_ids[s]) THEN 0 ELSE scan_cursor[s]

\* Enter: take the table lock and find the set.
WaitEnter(t, s) ==
    /\ call[t].at = "idle"
    /\ table_lock = NONE
    /\ sel_live[s]
    /\ table_lock' = t
    /\ scan_cursor' = [scan_cursor EXCEPT ![s] = StartCursor(s)]
    /\ call' = [call EXCEPT ![t] = [at |-> "scan", set |-> s, n |-> 0, ep |-> NONE]]
    /\ UNCHANGED <<epVars, next_sel, sel_live, ep_ids, ready_ep, wait_list>>

\* The index a scan looks at after n endpoints were found empty.
ScanIndex(s, n) == (scan_cursor[s] + n) % Len(ep_ids[s])

\* Mutation: the cursor stays on the endpoint just reported.
AdvanceCursorNot(s, i) == i

\* The next scan starts past the endpoint reported.
AdvanceCursor(s, i) == (i + 1) % Len(ep_ids[s])

\* One look of ipc_select_scan_ready, under one endpoint's lock.
ScanStep(t) ==
    LET s == call[t].set
        i == ScanIndex(s, call[t].n)
        e == ep_ids[s][i + 1]
    IN  /\ call[t].at \in {"scan", "rescan"}
        /\ call[t].n < Len(ep_ids[s])
        /\ IF live[e] /\ count[e] > 0
           THEN /\ call' = [call EXCEPT ![t] = [@ EXCEPT !.at = "clear", !.ep = e]]
                /\ scan_cursor' = [scan_cursor EXCEPT ![s] = AdvanceCursor(s, i)]
           ELSE /\ call' = [call EXCEPT ![t].n = @ + 1]
                /\ UNCHANGED scan_cursor
        /\ UNCHANGED <<epVars, next_sel, sel_live, ep_ids, ready_ep, wait_list, table_lock>>

\* ipc_select_clear_latch on the returning path, then the table unlock.
ClearLatch(t) ==
    /\ call[t].at = "clear"
    /\ ready_ep' = [ready_ep EXCEPT ![call[t].set] = NONE]
    /\ table_lock' = NONE
    /\ call' = [call EXCEPT ![t].at = "got"]
    /\ UNCHANGED <<epVars, next_sel, sel_live, ep_ids, scan_cursor, wait_list>>

Scanned(t, label) == call[t].at = label /\ call[t].n >= Len(ep_ids[call[t].set])

\* The scan found nothing.  Under the event lock, taken before the table lock
\* is dropped: consume the latch and return the endpoint it names.
TakeReady(t) ==
    LET s == call[t].set
    IN  /\ Scanned(t, "scan") \/ Scanned(t, "rescan")
        /\ ready_ep[s] # NONE
        /\ ready_ep' = [ready_ep EXCEPT ![s] = NONE]
        /\ table_lock' = NONE
        /\ call' = [call EXCEPT ![t] = [@ EXCEPT !.at = "got", !.ep = ready_ep[s]]]
        /\ UNCHANGED <<epVars, next_sel, sel_live, ep_ids, scan_cursor, wait_list>>

\* Mutation: a latch set since the scan is ignored.
MayParkBlindly(s) == TRUE

\* The latch is the only trace of a signal that landed after the scan.
MayPark(s) == ready_ep[s] = NONE

\* Nothing scanned and nothing latched: join the wait list, still under the
\* event lock.
SelectPark(t) ==
    LET s == call[t].set
    IN  /\ Scanned(t, "scan")
        /\ MayPark(s)
        /\ wait_list' = [wait_list EXCEPT ![s] = Append(@, t)]
        /\ table_lock' = NONE
        /\ call' = [call EXCEPT ![t].at = "parked"]
        /\ UNCHANGED <<epVars, next_sel, sel_live, ep_ids, ready_ep, scan_cursor>>

\* The deadline passes: the thread leaves the wait list.
SelectTimeout(t) ==
    LET s == call[t].set
    IN  /\ call[t].at = "parked"
        /\ wait_list' = [wait_list EXCEPT ![s] = Without(@, t)]
        /\ call' = [call EXCEPT ![t].at = "woken"]
        /\ UNCHANGED <<epVars, next_sel, sel_live, ep_ids, ready_ep, scan_cursor, table_lock>>

\* Resumed: the set is found again by id, or is gone (IPC_EMPTY).
Resume(t) ==
    LET s == call[t].set
    IN  /\ call[t].at = "woken"
        /\ table_lock = NONE
        /\ IF sel_live[s]
           THEN /\ table_lock' = t
                /\ scan_cursor' = [scan_cursor EXCEPT ![s] = StartCursor(s)]
                /\ call' = [call EXCEPT ![t] = [@ EXCEPT !.at = "rescan", !.n = 0]]
           ELSE /\ call' = [call EXCEPT ![t] = Idle]
                /\ UNCHANGED <<table_lock, scan_cursor>>
        /\ UNCHANGED <<epVars, next_sel, sel_live, ep_ids, ready_ep, wait_list>>

\* A resumed wait that finds nothing answers IPC_EMPTY: it does not park again.
ReturnEmpty(t) ==
    /\ Scanned(t, "rescan")
    /\ ready_ep[call[t].set] = NONE
    /\ table_lock' = NONE
    /\ call' = [call EXCEPT ![t] = Idle]
    /\ UNCHANGED <<epVars, selVars>>

----------------------------------------------------------------------------
(***************************************************************************)
(* ipc_select_destroy, under the table lock throughout, one endpoint lock  *)
(* at a time.                                                              *)
(***************************************************************************)
DestroyEnter(t, s) ==
    /\ call[t].at = "idle"
    /\ table_lock = NONE
    /\ sel_live[s]
    /\ table_lock' = t
    /\ call' = [call EXCEPT ![t] = [at |-> "destroy", set |-> s, n |-> 0, ep |-> NONE]]
    /\ UNCHANGED <<epVars, selVars>>

\* Mutation: the last watched endpoint is not visited.
UnwatchedAllButOne(s, n) == n + 1 >= Len(ep_ids[s])

UnwatchedAll(s, n) == n >= Len(ep_ids[s])

\* poll_struct_remove on the hub of the next watched endpoint, if it lives: every
\* node that names the set.
DestroyUnwatch(t) ==
    LET s == call[t].set
        e == ep_ids[s][call[t].n + 1]
    IN  /\ call[t].at = "destroy"
        /\ ~UnwatchedAll(s, call[t].n)
        /\ hub' = [hub EXCEPT ![e][s] = 0]
        /\ call' = [call EXCEPT ![t].n = @ + 1]
        /\ UNCHANGED <<live, count, selVars, table_lock>>

\* Abort every waiter, then free the id.
DestroyFinish(t) ==
    LET s == call[t].set
    IN  /\ call[t].at = "destroy"
        /\ UnwatchedAll(s, call[t].n)
        /\ sel_live' = [sel_live EXCEPT ![s] = FALSE]
        /\ ep_ids' = [ep_ids EXCEPT ![s] = << >>]
        /\ ready_ep' = [ready_ep EXCEPT ![s] = NONE]
        /\ scan_cursor' = [scan_cursor EXCEPT ![s] = 0]
        /\ wait_list' = [wait_list EXCEPT ![s] = << >>]
        /\ table_lock' = NONE
        /\ call' = [Wake(Elems(wait_list[s]), call) EXCEPT ![t] = Idle]
        /\ UNCHANGED <<epVars, next_sel>>

----------------------------------------------------------------------------
\* A thread inside a wait moves on by itself.
WaitStep(t) ==
    \/ ScanStep(t)
    \/ ClearLatch(t)
    \/ TakeReady(t)
    \/ SelectPark(t)
    \/ Resume(t)
    \/ ReturnEmpty(t)
    \/ Consume(t)

DestroyStep(t) == DestroyUnwatch(t) \/ DestroyFinish(t)

NobodyIn(s) == \A t \in Threads : call[t].set # s

\* A reactor waits on its set and adds to it in one thread at a time; any thread
\* destroys it.
MayUse(s) == s \in Reactors => NobodyIn(s)

Next ==
    \/ \E e \in Endpoints : Send(e) \/ Teardown(e)
    \/ \E t \in Threads :
          \/ SelectCreate(t)
          \/ \E s \in Sets :
                \/ MayUse(s) /\ (WaitEnter(t, s) \/ \E e \in Endpoints : SelectAdd(t, s, e))
                \/ DestroyEnter(t, s)
          \/ WaitStep(t)
          \/ SelectTimeout(t)
          \/ DestroyStep(t)

Spec == Init /\ [][Next]_vars

\* Threads inside a call are scheduled, and a reactor whose set nobody is in calls
\* ipc_select_wait on it again.
FairSpec ==
    /\ Spec
    /\ \A t \in Threads : WF_vars(WaitStep(t)) /\ WF_vars(DestroyStep(t))
    /\ WF_vars(\E t \in Threads, s \in Reactors : MayUse(s) /\ WaitEnter(t, s))

\* The sets of ipc_select_listen: nobody waits on a set before it has its
\* endpoints, and nobody adds to one that is waited on.
ListenNext ==
    \/ \E e \in Endpoints : Send(e) \/ Teardown(e)
    \/ \E t \in Threads :
          \/ SelectCreate(t)
          \/ \E s \in Sets :
                \/ Len(ep_ids[s]) = EPS_MAX /\ WaitEnter(t, s)
                \/ DestroyEnter(t, s)
                \/ NobodyIn(s) /\ \E e \in Endpoints : SelectAdd(t, s, e)
          \/ WaitStep(t)
          \/ SelectTimeout(t)
          \/ DestroyStep(t)

ListenSpec == Init /\ [][ListenNext]_vars

----------------------------------------------------------------------------
(***************************************************************************)
(* Properties.                                                             *)
(***************************************************************************)

\* poll_notify never walks to a freed set: every watcher on a hub is a set that
\* still exists, also while sends run between the steps of a destroy.
NoDanglingWatcher == \A e \in Endpoints : \A s \in Sets : hub[e][s] > 0 => sel_live[s]

BeingDestroyed(s) == \E t \in Threads : call[t].at = "destroy" /\ call[t].set = s

\* A set that watches a live endpoint is on its hub exactly once, unless it is
\* just being destroyed: without a watcher it would never be signalled.
WatchedIsRegistered ==
    \A s \in Sets, e \in Endpoints :
        (sel_live[s] /\ live[e] /\ Watches(s, e) /\ ~BeingDestroyed(s)) => hub[e][s] = 1

\* No wake-up is lost between the scan and the park: whatever was sent while the
\* scan went from endpoint to endpoint, a thread joins the wait list only when every
\* live endpoint of the set is empty (the latch read under event.lock).
ParksOnlyOnEmpty ==
    [][\A t \in Threads, s \in Sets :
          t \in Elems(wait_list'[s]) \ Elems(wait_list[s]) =>
              \A e \in Endpoints : Watches(s, e) /\ live[e] => count[e] = 0]_vars

\* The reactor's promise, where one thread waits on the set: while the thread sleeps
\* every live endpoint of its set is empty, unless the set is being destroyed and
\* the abort of its waiter is about to come.
NoStuckWaiter ==
    \A s \in Reactors :
        (wait_list[s] # << >> /\ ~BeingDestroyed(s)) =>
            \A e \in Endpoints : Watches(s, e) /\ live[e] => count[e] = 0

\* Threads of set s that are awake inside a wait, about to consume, or destroying it.
InFlight(s) == {t \in Threads : call[t].set = s /\ call[t].at # "parked"}

\* Level-triggered readiness, as ipc.h states it: a wait reports an endpoint that
\* holds a message, "whatever made it ready and whenever that happened".  No
\* thread sleeps on a set while one of its endpoints is readable and nobody is
\* on the way to report it.
LevelTriggered ==
    \A s \in Sets :
        (wait_list[s] # << >> /\ InFlight(s) = {}) =>
            ~\E e \in Endpoints : Watches(s, e) /\ live[e] /\ count[e] > 0

\* No starvation: an endpoint that is readable and watched by the set of a
\* reactor is eventually reported (or drained, or torn down), however often the
\* other endpoints of the set are sent to.
EveryReadyEndpointReported ==
    \A s \in Reactors, e \in Endpoints :
        (Watches(s, e) /\ live[e] /\ count[e] > 0)
            ~> (count[e] = 0 \/ ~Watches(s, e) \/ \E t \in Threads : call[t].at = "got" /\ call[t].ep = e)

============================================================================
