-------------------------- MODULE IpcSelectProofs ---------------------------
(***************************************************************************)
(* Theorems of IpcSelect, for any number of endpoints, sets and threads:   *)
(* types, the agreement of sets and hubs, no wake-up lost between the scan *)
(* and the park, and the reactor's promise for sets used by one thread.    *)
(***************************************************************************)
EXTENDS IpcSelect, ListLemmas

Calls == [at : CallLabels, set : Sets \cup {0}, n : Nat, ep : Endpoints \cup {NONE}]

\* Where a thread holds g_select_table_lock.
Holding == {"scan", "rescan", "clear", "destroy"}

\* Calls name the set and the endpoint they work on, and the table lock belongs to
\* the one thread that is inside.
InCall == \A t \in Threads :
             /\ call[t].at # "idle" => call[t].set \in Sets
             /\ call[t].at = "idle" => call[t].set = 0
             /\ call[t].at \in {"clear", "got"} => call[t].ep \in Endpoints
             /\ call[t].at \in Holding <=> table_lock = t
             /\ call[t].at \in Holding => sel_live[call[t].set]

\* The list of a set holds exactly the threads parked on it, once.
Parked == \A s \in Sets : /\ NoRepeats(wait_list[s])
                          /\ \A t \in Elems(wait_list[s]) : call[t].at = "parked" /\ call[t].set = s

\* Ids not handed out yet, and sets destroyed, watch nothing.
Fresh == \A s \in Sets : /\ s >= next_sel => ~sel_live[s]
                         /\ ~sel_live[s] => ep_ids[s] = << >>

\* A destroy has unwatched the set's endpoints up to n.
UnwatchedSoFar(s, e) == \E t \in Threads :
    /\ call[t].at = "destroy" /\ call[t].set = s
    /\ \E j \in 1 .. Len(ep_ids[s]) : j <= call[t].n /\ ep_ids[s][j] = e

\* Hubs and sets agree, but for the endpoints a destroy has visited.
Registered == \A s \in Sets, e \in Endpoints :
    /\ hub[e][s] \in {0, 1}
    /\ hub[e][s] = 1 => sel_live[s] /\ live[e] /\ Watches(s, e) /\ ~UnwatchedSoFar(s, e)
    /\ sel_live[s] /\ live[e] /\ Watches(s, e) /\ ~UnwatchedSoFar(s, e) => hub[e][s] = 1

\* While nothing is latched, the endpoints a scan has looked at are still empty.
Empty(e) == live[e] => count[e] = 0
Looked(t) == \A k \in Nat : k < call[t].n => Empty(ep_ids[call[t].set][ScanIndex(call[t].set, k) + 1])
ScanClean == \A t \in Threads : call[t].at \in {"scan", "rescan"} =>
    /\ Len(ep_ids[call[t].set]) # 0 => scan_cursor[call[t].set] < Len(ep_ids[call[t].set])
    /\ call[t].n <= Len(ep_ids[call[t].set])
    /\ ready_ep[call[t].set] = NONE => Looked(t)

IInv == TypeOK /\ InCall /\ Parked /\ Fresh /\ Registered /\ ScanClean

-----------------------------------------------------------------------------
(* Arithmetic of the rotating scan. *)

\* A scan that starts inside the list of length m wraps around at most once.
LEMMA WrapsOnce ==
    ASSUME NEW m \in Nat, NEW c \in Nat, NEW k \in Nat, c < m, k < m
    PROVE  (c + k) % m = IF c + k < m THEN c + k ELSE c + k - m
  OBVIOUS

\* So it looks at every index.
LEMMA RotationCovers ==
    ASSUME NEW m \in Nat, NEW c \in Nat, c < m, NEW i \in Nat, i < m
    PROVE  \E k \in Nat : k < m /\ (c + k) % m = i
  <1> DEFINE k == IF c <= i THEN i - c ELSE i + m - c
  <1>1. k \in Nat /\ k < m /\ (IF c + k < m THEN c + k ELSE c + k - m) = i
    OBVIOUS
  <1> HIDE DEF k
  <1>2. (c + k) % m = i
    BY <1>1, WrapsOnce
  <1> QED
    BY <1>1, <1>2

\* Every index of a scan is one of the list's.
LEMMA ScanInside ==
    ASSUME NEW m \in Nat, m # 0, NEW a \in Nat
    PROVE  a % m \in Nat /\ a % m < m /\ (a % m) + 1 \in 1 .. m
  OBVIOUS

-----------------------------------------------------------------------------
(* Types. *)

\* The parts of a call record, and the constants.
LEMMA CallParts ==
    ASSUME TypeOK, NEW t \in Threads
    PROVE  /\ call[t] \in Calls /\ call[t].at \in CallLabels /\ call[t].set \in Sets \cup {0}
           /\ call[t].n \in Nat /\ call[t].ep \in Endpoints \cup {NONE}
           /\ Idle \in Calls /\ NONE \notin Endpoints /\ NONE \notin Threads /\ t # NONE
           /\ 0 \notin Sets /\ MaxSel \in Nat /\ Sets \subseteq Nat /\ MaxQueued \in Nat \ {0}
           /\ NoWatchers \in [Sets -> Nat]
  BY SelectAssumption DEF TypeOK, Calls, CallLabels, Idle, Sets, NoWatchers

\* A step of one thread replaces its call by another of the type.
LEMMA CallReplaced ==
    ASSUME TypeOK, NEW t \in Threads, NEW r \in Calls, call' = [call EXCEPT ![t] = r]
    PROVE  /\ call' \in [Threads -> Calls] /\ call'[t] = r
           /\ \A u \in Threads : u # t => call'[u] = call[u]
  BY DEF TypeOK, Calls

\* Releasing threads changes where they are and nothing else.
LEMMA WakeType ==
    ASSUME TypeOK, NEW T
    PROVE  /\ Wake(T, call) \in [Threads -> Calls]
           /\ \A t \in Threads : Wake(T, call)[t] = IF t \in T THEN [call[t] EXCEPT !.at = "woken"]
                                                    ELSE call[t]
           /\ \A t \in Threads : /\ Wake(T, call)[t].set = call[t].set /\ Wake(T, call)[t].n = call[t].n
                                 /\ Wake(T, call)[t].ep = call[t].ep
                                 /\ Wake(T, call)[t].at = IF t \in T THEN "woken" ELSE call[t].at
  BY DEF TypeOK, Calls, Wake, CallLabels

\* A wait that looks at an endpoint looks at one of its set.
LEMMA ScanLooks ==
    ASSUME TypeOK, InCall, NEW t \in Threads, call[t].at \in {"scan", "rescan"},
           NEW k \in Nat, Len(ep_ids[call[t].set]) # 0
    PROVE  /\ call[t].set \in Sets /\ ep_ids[call[t].set] \in Seq(Endpoints)
           /\ Len(ep_ids[call[t].set]) \in Nat /\ scan_cursor[call[t].set] \in Nat
           /\ ScanIndex(call[t].set, k) \in Nat
           /\ ScanIndex(call[t].set, k) < Len(ep_ids[call[t].set])
           /\ ScanIndex(call[t].set, k) + 1 \in 1..Len(ep_ids[call[t].set])
           /\ ep_ids[call[t].set][ScanIndex(call[t].set, k) + 1] \in Endpoints
  <1> DEFINE s == call[t].set
             m == Len(ep_ids[s])
             a == scan_cursor[s] + k
  <1>1. s \in Sets /\ ep_ids[s] \in Seq(Endpoints) /\ m \in Nat /\ m # 0 /\ scan_cursor[s] \in Nat
    BY DEF TypeOK, InCall
  <1>2. a \in Nat
    BY <1>1
  <1> HIDE DEF a
  <1>3. a % m \in Nat /\ a % m < m /\ (a % m) + 1 \in 1..m
    BY <1>1, <1>2, ScanInside
  <1>4. ScanIndex(s, k) = a % m
    BY DEF ScanIndex, a
  <1> QED
    BY <1>1, <1>3, <1>4

\* What threads do with endpoints: types.
LEMMA EndpointType ==
    ASSUME TypeOK, InCall, NEW e \in Endpoints, Send(e) \/ Teardown(e)
    PROVE  TypeOK'
  <1>1. CASE Send(e)
    <2>1. call' \in [Threads -> Calls]
      BY <1>1, WakeType DEF Send
    <2>2. count' \in [Endpoints -> 0 .. MaxQueued]
      BY <1>1, SelectAssumption DEF Send, TypeOK
    <2>3. ready_ep' \in [Sets -> Endpoints \cup {NONE}]
      BY <1>1 DEF Send, TypeOK
    <2>4. wait_list' \in [Sets -> Seq(Threads)]
      <3>1. \A s \in Sets : wait_list[s] # << >> => Tail(wait_list[s]) \in Seq(Threads)
        BY TailElems DEF TypeOK
      <3> QED
        BY <1>1, <3>1 DEF Send, Dequeued, TypeOK
    <2> QED
      BY <1>1, <2>1, <2>2, <2>3, <2>4 DEF Send, TypeOK, Calls
  <1>2. CASE Teardown(e)
    <2>1. NoWatchers \in [Sets -> Nat] /\ 0 \in 0..MaxQueued
      BY SelectAssumption DEF NoWatchers
    <2> QED
      BY <1>2, <2>1 DEF Teardown, TypeOK, selVars
  <1> QED
    BY <1>1, <1>2

\* The sends and teardowns of endpoints leave calls inside or outside the lock.
LEMMA EndpointCalls ==
    ASSUME TypeOK, InCall, Parked, NEW e \in Endpoints, Send(e) \/ Teardown(e)
    PROVE  InCall'
  <1>1. CASE Send(e)
    <2>1. \A t \in Threads : t \in Released(Signalled(e)) => call[t].at = "parked"
      <3>1. \A s \in Sets : wait_list[s] # << >> => Head(wait_list[s]) \in Elems(wait_list[s])
        BY TailElems DEF TypeOK
      <3> QED
        BY <3>1 DEF Released, Signalled, Parked
    <2>2. \A t \in Threads : /\ call'[t].set = call[t].set /\ call'[t].ep = call[t].ep
                             /\ call'[t].at = IF t \in Released(Signalled(e)) THEN "woken"
                                              ELSE call[t].at
      BY <1>1, WakeType DEF Send
    <2>3. sel_live' = sel_live /\ table_lock' = table_lock
      BY <1>1 DEF Send
    <2> QED
      BY <2>1, <2>2, <2>3 DEF InCall, Holding
  <1>2. CASE Teardown(e)
    BY <1>2 DEF Teardown, selVars, InCall
  <1> QED
    BY <1>1, <1>2

\* A new set, and an endpoint added to one.
LEMMA BuildCalls ==
    ASSUME TypeOK, InCall, Fresh, NEW t \in Threads,
           SelectCreate(t) \/ \E s \in Sets, e \in Endpoints : SelectAdd(t, s, e)
    PROVE  TypeOK' /\ InCall'
  <1>1. CASE SelectCreate(t)
    <2>1. next_sel \in Sets /\ next_sel + 1 \in 1 .. MaxSel + 1
      BY <1>1, SelectAssumption DEF SelectCreate, TypeOK, Sets
    <2>2. TypeOK'
      BY <1>1, <2>1 DEF SelectCreate, TypeOK, epVars
    <2>3. InCall'
      BY <1>1, <2>1 DEF SelectCreate, InCall, TypeOK
    <2> QED
      BY <2>2, <2>3
  <1>2. ASSUME NEW s \in Sets, NEW e \in Endpoints, SelectAdd(t, s, e)
        PROVE  TypeOK' /\ InCall'
    <2>1. hub' \in [Endpoints -> [Sets -> Nat]]
      BY <1>2 DEF SelectAdd, TypeOK
    <2>2. ep_ids' \in [Sets -> Seq(Endpoints)]
      BY <1>2 DEF SelectAdd, TypeOK
    <2> QED
      BY <1>2, <2>1, <2>2 DEF SelectAdd, TypeOK, InCall
  <1> QED
    BY <1>1, <1>2

\* One thread moves: the others stay inside or outside the lock.
LEMMA OneMoves ==
    ASSUME InCall, NEW t \in Threads, \A u \in Threads : u # t => call'[u] = call[u],
           sel_live' = sel_live,
           \/ table_lock' = table_lock
           \/ table_lock = NONE /\ table_lock' = t
           \/ table_lock = t /\ table_lock' = NONE,
           /\ call'[t].at # "idle" => call'[t].set \in Sets
           /\ call'[t].at = "idle" => call'[t].set = 0
           /\ call'[t].at \in {"clear", "got"} => call'[t].ep \in Endpoints
           /\ call'[t].at \in Holding <=> table_lock' = t
           /\ call'[t].at \in Holding => sel_live[call'[t].set]
    PROVE  InCall'
  <1> SUFFICES ASSUME NEW u \in Threads, u # t
               PROVE  /\ call'[u] = call[u]
                      /\ call[u].at \in Holding <=> table_lock' = u
    BY DEF InCall
  <1> QED
    BY SelectAssumption DEF InCall

\* A thread that enters takes the free table lock.
LEMMA EnterCalls ==
    ASSUME TypeOK, InCall, NEW t \in Threads, NEW s \in Sets,
           WaitEnter(t, s) \/ DestroyEnter(t, s)
    PROVE  TypeOK' /\ InCall'
  <1> DEFINE w == [at |-> "scan", set |-> s, n |-> 0, ep |-> NONE]
             d == [at |-> "destroy", set |-> s, n |-> 0, ep |-> NONE]
  <1>1. w \in Calls /\ d \in Calls /\ t # NONE
    BY CallParts DEF Calls, CallLabels
  <1>2. CASE WaitEnter(t, s)
    <2>1. /\ call' \in [Threads -> Calls] /\ call'[t] = w
          /\ \A u \in Threads : u # t => call'[u] = call[u]
      BY <1>1, <1>2, CallReplaced DEF WaitEnter
    <2>2. scan_cursor' \in [Sets -> Nat]
      BY <1>2 DEF WaitEnter, StartCursor, TypeOK
    <2>3. TypeOK'
      BY <1>2, <2>1, <2>2 DEF WaitEnter, TypeOK, epVars, Calls
    <2>4. InCall'
      BY <1>1, <1>2, <2>1, OneMoves DEF WaitEnter, Holding
    <2> QED
      BY <2>3, <2>4
  <1>3. CASE DestroyEnter(t, s)
    <2>1. /\ call' \in [Threads -> Calls] /\ call'[t] = d
          /\ \A u \in Threads : u # t => call'[u] = call[u]
      BY <1>1, <1>3, CallReplaced DEF DestroyEnter
    <2>2. TypeOK'
      BY <1>3, <2>1 DEF DestroyEnter, TypeOK, epVars, selVars, Calls
    <2>3. InCall'
      BY <1>1, <1>3, <2>1, OneMoves DEF DestroyEnter, Holding, selVars
    <2> QED
      BY <2>2, <2>3
  <1> QED
    BY <1>2, <1>3

\* The others stay as they are.
OnlyMoves(t) == call' \in [Threads -> Calls] /\ \A u \in Threads : u # t => call'[u] = call[u]

\* The call of t goes on, at another point of the same set.
GoesOn(t, at, n, ep) ==
    call'[t].at = at /\ call'[t].set = call[t].set /\ call'[t].n = n /\ call'[t].ep = ep

\* What the updates of a call's fields do.
LEMMA FieldUpdates ==
    ASSUME TypeOK, NEW t \in Threads, NEW l \in CallLabels, NEW k \in Nat,
           NEW e \in Endpoints \cup {NONE}
    PROVE  /\ call' = [call EXCEPT ![t].at = l] =>
                 OnlyMoves(t) /\ GoesOn(t, l, call[t].n, call[t].ep)
           /\ call' = [call EXCEPT ![t].n = @ + 1] =>
                 OnlyMoves(t) /\ GoesOn(t, call[t].at, call[t].n + 1, call[t].ep)
           /\ call' = [call EXCEPT ![t] = [@ EXCEPT !.at = l, !.ep = e]] =>
                 OnlyMoves(t) /\ GoesOn(t, l, call[t].n, e)
           /\ call' = [call EXCEPT ![t] = [@ EXCEPT !.at = l, !.n = k]] =>
                 OnlyMoves(t) /\ GoesOn(t, l, k, call[t].ep)
  <1>1. call \in [Threads -> Calls] /\ call[t] \in Calls
    BY DEF TypeOK, Calls
  <1>2. /\ [call[t] EXCEPT !.at = l] \in Calls /\ [call[t] EXCEPT !.n = @ + 1] \in Calls
        /\ [call[t] EXCEPT !.at = l, !.ep = e] \in Calls
        /\ [call[t] EXCEPT !.at = l, !.n = k] \in Calls
    <2>1. [call[t] EXCEPT !.at = l] \in Calls
      BY <1>1 DEF Calls
    <2>2. [call[t] EXCEPT !.n = @ + 1] \in Calls
      BY <1>1 DEF Calls
    <2>3. [call[t] EXCEPT !.at = l, !.ep = e] \in Calls
      BY <1>1 DEF Calls
    <2>4. [call[t] EXCEPT !.at = l, !.n = k] \in Calls
      BY <1>1 DEF Calls
    <2> QED
      BY <2>1, <2>2, <2>3, <2>4
  <1>3. ASSUME call' = [call EXCEPT ![t].at = l]
        PROVE  OnlyMoves(t) /\ GoesOn(t, l, call[t].n, call[t].ep)
    <2>1. call'[t] = [call[t] EXCEPT !.at = l]
      BY <1>1, <1>3
    <2> QED
      BY <1>1, <1>2, <1>3, <2>1 DEF OnlyMoves, GoesOn, Calls
  <1>4. ASSUME call' = [call EXCEPT ![t].n = @ + 1]
        PROVE  OnlyMoves(t) /\ GoesOn(t, call[t].at, call[t].n + 1, call[t].ep)
    <2>1. call'[t] = [call[t] EXCEPT !.n = @ + 1]
      BY <1>1, <1>4
    <2> QED
      BY <1>1, <1>2, <1>4, <2>1 DEF OnlyMoves, GoesOn, Calls
  <1>5. ASSUME call' = [call EXCEPT ![t] = [@ EXCEPT !.at = l, !.ep = e]]
        PROVE  OnlyMoves(t) /\ GoesOn(t, l, call[t].n, e)
    <2>1. call'[t] = [call[t] EXCEPT !.at = l, !.ep = e]
      BY <1>1, <1>5
    <2> QED
      BY <1>1, <1>2, <1>5, <2>1 DEF OnlyMoves, GoesOn, Calls
  <1>6. ASSUME call' = [call EXCEPT ![t] = [@ EXCEPT !.at = l, !.n = k]]
        PROVE  OnlyMoves(t) /\ GoesOn(t, l, k, call[t].ep)
    <2>1. call'[t] = [call[t] EXCEPT !.at = l, !.n = k]
      BY <1>1, <1>6
    <2> QED
      BY <1>1, <1>2, <1>6, <2>1 DEF OnlyMoves, GoesOn, Calls
  <1> QED
    BY <1>3, <1>4, <1>5, <1>6

\* The steps inside a wait or a destroy, by what they do to the call.
LEMMA ScanMoves ==
    ASSUME TypeOK, InCall, NEW t \in Threads, ScanStep(t)
    PROVE  /\ OnlyMoves(t) /\ Len(ep_ids[call[t].set]) # 0
           /\ LET e == ep_ids[call[t].set][ScanIndex(call[t].set, call[t].n) + 1]
              IN  /\ e \in Endpoints
                  /\ \/ /\ live[e] /\ count[e] > 0
                        /\ GoesOn(t, "clear", call[t].n, e)
                     \/ /\ Empty(e) /\ scan_cursor' = scan_cursor
                        /\ GoesOn(t, call[t].at, call[t].n + 1, call[t].ep)
  <1> DEFINE e == ep_ids[call[t].set][ScanIndex(call[t].set, call[t].n) + 1]
  <1>1. call[t].at \in {"scan", "rescan"} /\ call[t].n \in Nat /\ call[t].set \in Sets
    BY CallParts DEF ScanStep, InCall
  <1>2. Len(ep_ids[call[t].set]) # 0
    BY <1>1 DEF ScanStep, TypeOK
  <1>3. e \in Endpoints
    BY <1>1, <1>2, ScanLooks
  <1> HIDE DEF e
  <1>4. IF live[e] /\ count[e] > 0
        THEN call' = [call EXCEPT ![t] = [@ EXCEPT !.at = "clear", !.ep = e]]
        ELSE call' = [call EXCEPT ![t].n = @ + 1] /\ scan_cursor' = scan_cursor
    BY DEF ScanStep, e
  <1>5. CASE live[e] /\ count[e] > 0
    <2>1. call' = [call EXCEPT ![t] = [@ EXCEPT !.at = "clear", !.ep = e]]
      BY <1>4, <1>5
    <2> QED
      BY <1>2, <1>3, <1>5, <2>1, FieldUpdates DEF e, CallLabels
  <1>6. CASE ~(live[e] /\ count[e] > 0)
    <2>1. call' = [call EXCEPT ![t].n = @ + 1] /\ scan_cursor' = scan_cursor
      BY <1>4, <1>6
    <2>2. Empty(e)
      BY <1>3, <1>6 DEF Empty, TypeOK
    <2> QED
      BY <1>1, <1>2, <1>3, <2>1, <2>2, FieldUpdates DEF e, CallLabels
  <1> QED
    BY <1>5, <1>6

\* The same for the other steps.
LEMMA OtherMoves ==
    ASSUME TypeOK, InCall, NEW t \in Threads
    PROVE  /\ ClearLatch(t) => OnlyMoves(t) /\ GoesOn(t, "got", call[t].n, call[t].ep)
           /\ TakeReady(t) => OnlyMoves(t) /\ GoesOn(t, "got", call[t].n, ready_ep[call[t].set])
           /\ SelectPark(t) => OnlyMoves(t) /\ GoesOn(t, "parked", call[t].n, call[t].ep)
           /\ SelectTimeout(t) => OnlyMoves(t) /\ GoesOn(t, "woken", call[t].n, call[t].ep)
           /\ DestroyUnwatch(t) => OnlyMoves(t) /\ GoesOn(t, "destroy", call[t].n + 1, call[t].ep)
           /\ Consume(t) \/ ReturnEmpty(t) => OnlyMoves(t) /\ call'[t] = Idle
           /\ Resume(t) => /\ OnlyMoves(t)
                           /\ \/ sel_live[call[t].set] /\ GoesOn(t, "rescan", 0, call[t].ep)
                              \/ ~sel_live[call[t].set] /\ call'[t] = Idle
  <1>1. ClearLatch(t) => OnlyMoves(t) /\ GoesOn(t, "got", call[t].n, call[t].ep)
    BY CallParts, FieldUpdates DEF ClearLatch, CallLabels
  <1>2. TakeReady(t) => OnlyMoves(t) /\ GoesOn(t, "got", call[t].n, ready_ep[call[t].set])
    <2>1. TakeReady(t) => call[t].set \in Sets
      BY DEF TakeReady, Scanned, InCall
    <2>2. TakeReady(t) => ready_ep[call[t].set] \in Endpoints \cup {NONE}
      BY <2>1 DEF TypeOK
    <2> QED
      BY <2>2, FieldUpdates DEF TakeReady, CallLabels
  <1>3. SelectPark(t) => OnlyMoves(t) /\ GoesOn(t, "parked", call[t].n, call[t].ep)
    BY CallParts, FieldUpdates DEF SelectPark, CallLabels
  <1>4. SelectTimeout(t) => OnlyMoves(t) /\ GoesOn(t, "woken", call[t].n, call[t].ep)
    BY CallParts, FieldUpdates DEF SelectTimeout, CallLabels
  <1>5. DestroyUnwatch(t) => OnlyMoves(t) /\ GoesOn(t, "destroy", call[t].n + 1, call[t].ep)
    BY CallParts, FieldUpdates DEF DestroyUnwatch, CallLabels
  <1>6. Consume(t) \/ ReturnEmpty(t) => OnlyMoves(t) /\ call'[t] = Idle
    BY CallParts, CallReplaced DEF Consume, ReturnEmpty, OnlyMoves
  <1>7. ASSUME Resume(t)
        PROVE  /\ OnlyMoves(t)
               /\ \/ sel_live[call[t].set] /\ GoesOn(t, "rescan", 0, call[t].ep)
                  \/ ~sel_live[call[t].set] /\ call'[t] = Idle
    <2>1. CASE sel_live[call[t].set]
      BY <1>7, <2>1, FieldUpdates DEF Resume, CallLabels
    <2>2. CASE ~sel_live[call[t].set]
      BY <1>7, <2>2, CallParts, CallReplaced DEF Resume, OnlyMoves
    <2> QED
      BY <2>1, <2>2
  <1> QED
    BY <1>1, <1>2, <1>3, <1>4, <1>5, <1>6, <1>7

\* A destroy that ends wakes everyone on the set's list and is done.
LEMMA FinishMoves ==
    ASSUME TypeOK, InCall, NEW t \in Threads, DestroyFinish(t)
    PROVE  /\ call' \in [Threads -> Calls] /\ call'[t] = Idle
           /\ \A u \in Threads : u # t =>
                 /\ call'[u].set = call[u].set /\ call'[u].n = call[u].n /\ call'[u].ep = call[u].ep
                 /\ call'[u].at = IF u \in Elems(wait_list[call[t].set]) THEN "woken" ELSE call[u].at
  <1> DEFINE W == Wake(Elems(wait_list[call[t].set]), call)
  <1>1. /\ W \in [Threads -> Calls]
        /\ \A u \in Threads :
              /\ W[u].set = call[u].set /\ W[u].n = call[u].n /\ W[u].ep = call[u].ep
              /\ W[u].at = IF u \in Elems(wait_list[call[t].set]) THEN "woken" ELSE call[u].at
    BY WakeType
  <1>2. call' = [W EXCEPT ![t] = Idle] /\ Idle \in Calls
    BY CallParts DEF DestroyFinish
  <1> HIDE DEF W
  <1> QED
    BY <1>1, <1>2

\* The steps of a wait keep the types.
LEMMA WaitType ==
    ASSUME TypeOK, InCall, NEW t \in Threads, WaitStep(t) \/ SelectTimeout(t)
    PROVE  TypeOK'
  <1>0. /\ call[t].at # "idle" => call[t].set \in Sets
        /\ call[t].at = "got" => call[t].ep \in Endpoints
        /\ t # NONE
    BY SelectAssumption DEF InCall
  <1>1. CASE ScanStep(t)
    <2>1. call' \in [Threads -> Calls] /\ Len(ep_ids[call[t].set]) # 0
      BY <1>1, ScanMoves DEF OnlyMoves
    <2>2. scan_cursor' \in [Sets -> Nat]
      <3> DEFINE s == call[t].set
                 i == ScanIndex(s, call[t].n)
      <3>1. s \in Sets /\ call[t].n \in Nat /\ call[t].at \in {"scan", "rescan"}
        BY <1>0, <1>1, CallParts DEF ScanStep
      <3>2. i \in Nat /\ Len(ep_ids[s]) \in Nat
        BY <3>1, <2>1, ScanLooks
      <3>3. scan_cursor' = [scan_cursor EXCEPT ![s] = AdvanceCursor(s, i)] \/ scan_cursor' = scan_cursor
        BY <1>1 DEF ScanStep
      <3> HIDE DEF i
      <3>4. AdvanceCursor(s, i) \in Nat
        <4> DEFINE m == Len(ep_ids[s])
                   j == i + 1
        <4>1. m \in Nat /\ m # 0 /\ j \in Nat
          BY <3>2, <2>1
        <4>2. AdvanceCursor(s, i) = j % m
          BY DEF AdvanceCursor
        <4> HIDE DEF m, j
        <4> QED
          BY <4>1, <4>2, ScanInside
      <3> QED
        BY <3>1, <3>3, <3>4 DEF TypeOK
    <2> QED
      BY <1>1, <2>1, <2>2 DEF ScanStep, TypeOK, epVars, Calls
  <1>2. CASE ClearLatch(t)
    <2>1. call' \in [Threads -> Calls]
      BY <1>2, OtherMoves DEF OnlyMoves
    <2> QED
      BY <1>2, <2>1 DEF ClearLatch, TypeOK, epVars, Calls
  <1>3. CASE TakeReady(t)
    <2>1. call' \in [Threads -> Calls]
      BY <1>3, OtherMoves DEF OnlyMoves
    <2> QED
      BY <1>3, <2>1 DEF TakeReady, TypeOK, epVars, Calls
  <1>4. CASE SelectPark(t)
    <2>1. call' \in [Threads -> Calls]
      BY <1>4, OtherMoves DEF OnlyMoves
    <2>2. wait_list' \in [Sets -> Seq(Threads)]
      <3>1. \A s \in Sets : Append(wait_list[s], t) \in Seq(Threads)
        BY DEF TypeOK
      <3> QED
        BY <1>4, <3>1 DEF SelectPark, TypeOK
    <2> QED
      BY <1>4, <2>1, <2>2 DEF SelectPark, TypeOK, epVars, Calls
  <1>5. CASE Resume(t)
    <2>1. call' \in [Threads -> Calls]
      BY <1>5, OtherMoves DEF OnlyMoves
    <2>2. scan_cursor' \in [Sets -> Nat] /\ table_lock' \in Threads \cup {NONE}
      <3>1. \A s \in Sets : StartCursor(s) \in Nat
        BY DEF StartCursor, TypeOK
      <3>2. CASE sel_live[call[t].set]
        BY <1>0, <1>5, <3>1, <3>2 DEF Resume, TypeOK
      <3>3. CASE ~sel_live[call[t].set]
        BY <1>5, <3>3 DEF Resume, TypeOK
      <3> QED
        BY <3>2, <3>3
    <2> QED
      BY <1>5, <2>1, <2>2 DEF Resume, TypeOK, epVars, Calls
  <1>6. CASE ReturnEmpty(t)
    <2>1. call' \in [Threads -> Calls]
      BY <1>6, OtherMoves DEF OnlyMoves
    <2> QED
      BY <1>6, <2>1 DEF ReturnEmpty, TypeOK, epVars, selVars, Calls
  <1>7. CASE Consume(t)
    <2>1. call' \in [Threads -> Calls]
      BY <1>7, OtherMoves DEF OnlyMoves
    <2>2. count' \in [Endpoints -> 0 .. MaxQueued]
      <3>1. \A e \in Endpoints : count[e] \in 0 .. MaxQueued /\ (count[e] > 0 => count[e] - 1 \in 0 .. MaxQueued)
        BY SelectAssumption DEF TypeOK
      <3> QED
        BY <1>0, <1>7, <3>1 DEF Consume, TypeOK
    <2> QED
      BY <1>7, <2>1, <2>2 DEF Consume, TypeOK, selVars, Calls
  <1>8. CASE SelectTimeout(t)
    <2>1. call' \in [Threads -> Calls]
      BY <1>8, OtherMoves DEF OnlyMoves
    <2>2. wait_list' \in [Sets -> Seq(Threads)]
      BY <1>8, WithoutProperties DEF SelectTimeout, TypeOK
    <2> QED
      BY <1>8, <2>1, <2>2 DEF SelectTimeout, TypeOK, epVars, Calls
  <1> QED
    BY <1>1, <1>2, <1>3, <1>4, <1>5, <1>6, <1>7, <1>8 DEF WaitStep

\* The steps of a destroy keep the types.
LEMMA DestroyType ==
    ASSUME TypeOK, InCall, NEW t \in Threads, DestroyStep(t)
    PROVE  TypeOK'
  <1>1. CASE DestroyUnwatch(t)
    <2>1. call' \in [Threads -> Calls]
      BY <1>1, OtherMoves DEF OnlyMoves
    <2>2. hub' \in [Endpoints -> [Sets -> Nat]]
      BY <1>1 DEF DestroyUnwatch, TypeOK
    <2> QED
      BY <1>1, <2>1, <2>2 DEF DestroyUnwatch, TypeOK, selVars, Calls
  <1>2. CASE DestroyFinish(t)
    <2>1. call' \in [Threads -> Calls]
      BY <1>2, FinishMoves
    <2>2. << >> \in Seq(Endpoints) /\ << >> \in Seq(Threads)
      OBVIOUS
    <2>3. /\ ep_ids' \in [Sets -> Seq(Endpoints)] /\ wait_list' \in [Sets -> Seq(Threads)]
      BY <1>2, <2>2 DEF DestroyFinish, TypeOK
    <2>4. /\ sel_live' \in [Sets -> BOOLEAN] /\ ready_ep' \in [Sets -> Endpoints \cup {NONE}]
          /\ scan_cursor' \in [Sets -> Nat]
      BY <1>2 DEF DestroyFinish, TypeOK
    <2> QED
      BY <1>2, <2>1, <2>3, <2>4 DEF DestroyFinish, TypeOK, epVars, Calls
  <1> QED
    BY <1>1, <1>2 DEF DestroyStep

\* Inside a call: a wait takes and drops the table lock as it goes.
LEMMA WaitCalls ==
    ASSUME TypeOK, InCall, NEW t \in Threads, WaitStep(t) \/ SelectTimeout(t) \/ DestroyUnwatch(t)
    PROVE  InCall'
  <1>0. /\ call[t].at # "idle" => call[t].set \in Sets
        /\ call[t].at \in {"clear", "got"} => call[t].ep \in Endpoints
        /\ call[t].at \in Holding <=> table_lock = t
        /\ call[t].at \in Holding => sel_live[call[t].set]
        /\ t # NONE /\ Idle.at = "idle" /\ Idle.set = 0
    BY SelectAssumption DEF InCall, Idle
  <1>1. CASE ScanStep(t)
    <2>1. /\ OnlyMoves(t) /\ call'[t].set = call[t].set
          /\ \/ call'[t].at = "clear" /\ call'[t].ep \in Endpoints
             \/ call'[t].at = call[t].at
      BY <1>1, ScanMoves DEF GoesOn
    <2> QED
      BY <1>0, <1>1, <2>1, OneMoves DEF ScanStep, OnlyMoves, Holding
  <1>2. CASE ClearLatch(t)
    BY <1>0, <1>2, OtherMoves, OneMoves DEF ClearLatch, OnlyMoves, GoesOn, Holding
  <1>3. CASE TakeReady(t)
    <2>1. ready_ep[call[t].set] \in Endpoints
      BY <1>0, <1>3 DEF TakeReady, Scanned, TypeOK
    <2> QED
      BY <1>0, <1>3, <2>1, OtherMoves, OneMoves DEF TakeReady, Scanned, OnlyMoves, GoesOn, Holding
  <1>4. CASE SelectPark(t)
    BY <1>0, <1>4, OtherMoves, OneMoves DEF SelectPark, Scanned, OnlyMoves, GoesOn, Holding
  <1>5. CASE Resume(t)
    <2>1. CASE sel_live[call[t].set]
      BY <1>0, <1>5, <2>1, OtherMoves, OneMoves DEF Resume, OnlyMoves, GoesOn, Holding
    <2>2. CASE ~sel_live[call[t].set]
      BY <1>0, <1>5, <2>2, OtherMoves, OneMoves DEF Resume, OnlyMoves, Holding
    <2> QED
      BY <2>1, <2>2
  <1>6. CASE ReturnEmpty(t)
    BY <1>0, <1>6, OtherMoves, OneMoves DEF ReturnEmpty, Scanned, OnlyMoves, Holding, selVars
  <1>7. CASE Consume(t)
    BY <1>0, <1>7, OtherMoves, OneMoves DEF Consume, OnlyMoves, Holding, selVars
  <1>8. CASE SelectTimeout(t)
    BY <1>0, <1>8, OtherMoves, OneMoves DEF SelectTimeout, OnlyMoves, GoesOn, Holding
  <1>9. CASE DestroyUnwatch(t)
    BY <1>0, <1>9, OtherMoves, OneMoves DEF DestroyUnwatch, OnlyMoves, GoesOn, Holding, selVars
  <1> QED
    BY <1>1, <1>2, <1>3, <1>4, <1>5, <1>6, <1>7, <1>8, <1>9 DEF WaitStep

\* A destroy that ends: nobody else is inside, and those it wakes are outside.
LEMMA FinishCalls ==
    ASSUME TypeOK, InCall, Parked, NEW t \in Threads, DestroyFinish(t)
    PROVE  InCall'
  <1>1. call[t].set \in Sets /\ table_lock = t /\ table_lock' = NONE /\ NONE \notin Threads
    BY SelectAssumption DEF DestroyFinish, InCall, Holding
  <1>2. \A u \in Threads : u \in Elems(wait_list[call[t].set]) => call[u].at = "parked"
    BY <1>1 DEF Parked
  <1>3. \A u \in Threads : u # t => call[u].at \notin Holding
    BY <1>1 DEF InCall
  <1>4. call'[t].at = "idle" /\ call'[t].set = 0
    BY FinishMoves DEF Idle
  <1>5. \A u \in Threads : u # t =>
           /\ call'[u].set = call[u].set /\ call'[u].ep = call[u].ep
           /\ call'[u].at = call[u].at \/ (call'[u].at = "woken" /\ call[u].at = "parked")
    BY <1>2, FinishMoves
  <1> QED
    BY <1>1, <1>3, <1>4, <1>5 DEF InCall, Holding

-----------------------------------------------------------------------------
(* Wait lists, and sets that do not exist. *)

\* A thread that is not parked moves, and no list changes.
LEMMA ParkedOthers ==
    ASSUME Parked, NEW t \in Threads, \A u \in Threads : u # t => call'[u] = call[u],
           call[t].at # "parked", wait_list' = wait_list, wait_list \in [Sets -> Seq(Threads)]
    PROVE  Parked'
  <1>1. \A s \in Sets : \A u \in Elems(wait_list[s]) : u \in Threads /\ u # t
    BY DEF Parked, Elems
  <1> QED
    BY <1>1 DEF Parked

\* A send takes the head of every signalled list off it and wakes that thread.
LEMMA ParkedSend ==
    ASSUME TypeOK, Parked, NEW e \in Endpoints, Send(e)
    PROVE  Parked'
  <1> DEFINE S == Signalled(e)
  <1>1. ASSUME NEW s \in Sets
        PROVE  /\ wait_list'[s] \in Seq(Threads) /\ NoRepeats(wait_list'[s])
               /\ Elems(wait_list'[s]) \subseteq Elems(wait_list[s])
               /\ s \in S /\ wait_list[s] # << >> => Head(wait_list[s]) \notin Elems(wait_list'[s])
    <2>1. wait_list[s] \in Seq(Threads) /\ NoRepeats(wait_list[s])
      BY DEF TypeOK, Parked
    <2>2. CASE s \in S /\ wait_list[s] # << >>
      <3>1. wait_list'[s] = Tail(wait_list[s])
        BY <2>2 DEF Send, Dequeued
      <3> QED
        BY <2>1, <2>2, <3>1, TailElems
    <2>3. CASE ~(s \in S /\ wait_list[s] # << >>)
      <3>1. wait_list'[s] = wait_list[s]
        BY <2>3 DEF Send, Dequeued
      <3> QED
        BY <2>1, <2>3, <3>1
    <2> QED
      BY <2>2, <2>3
  <1>2. ASSUME NEW s \in Sets, NEW u \in Elems(wait_list'[s])
        PROVE  call'[u].at = "parked" /\ call'[u].set = s
    <2>1. u \in Threads /\ u \in Elems(wait_list[s])
      BY <1>1, <1>2, ElemsInside DEF TypeOK
    <2>2. call[u].at = "parked" /\ call[u].set = s
      BY <2>1 DEF Parked
    <2>3. u \notin Released(S)
      <3> SUFFICES ASSUME NEW x \in Sets, x \in S, wait_list[x] # << >>, u = Head(wait_list[x])
                   PROVE  FALSE
        BY DEF Released, Signalled
      <3>1. u \in Elems(wait_list[x])
        BY TailElems DEF TypeOK
      <3>2. x = s
        BY <2>2, <3>1 DEF Parked
      <3> QED
        BY <1>1, <1>2, <3>2
    <2> QED
      BY <2>1, <2>2, <2>3, WakeType DEF Send
  <1> QED
    BY <1>1, <1>2 DEF Parked

\* A thread joins or leaves a list of its own set.
LEMMA ParkedOwn ==
    ASSUME TypeOK, InCall, Parked, NEW t \in Threads, SelectPark(t) \/ SelectTimeout(t)
    PROVE  Parked'
  <1> DEFINE s == call[t].set
  <1>1. s \in Sets /\ wait_list[s] \in Seq(Threads) /\ NoRepeats(wait_list[s])
    BY DEF SelectPark, SelectTimeout, Scanned, InCall, Parked, TypeOK
  <1>2. \A x \in Sets : x # s => t \notin Elems(wait_list[x]) /\ wait_list'[x] = wait_list[x]
    BY <1>1 DEF Parked, SelectPark, SelectTimeout, TypeOK
  <1>3. \A u \in Threads : u # t => call'[u] = call[u]
    BY OtherMoves DEF OnlyMoves
  <1>4. \A x \in Sets : Elems(wait_list[x]) \subseteq Threads
    BY DEF Elems, TypeOK
  <1>5. CASE SelectPark(t)
    <2>1. t \notin Elems(wait_list[s])
      BY <1>1, <1>5 DEF SelectPark, Scanned, Parked
    <2>2. wait_list'[s] = Append(wait_list[s], t)
      BY <1>1, <1>5 DEF SelectPark, TypeOK
    <2>3. NoRepeats(wait_list'[s]) /\ Elems(wait_list'[s]) = Elems(wait_list[s]) \cup {t}
      BY <1>1, <2>1, <2>2, AppendedElems
    <2>4. call'[t].at = "parked" /\ call'[t].set = s
      BY <1>5, OtherMoves DEF GoesOn
    <2> HIDE DEF s
    <2> QED
      BY <1>1, <1>2, <1>3, <1>4, <2>3, <2>4 DEF Parked
  <1>6. CASE SelectTimeout(t)
    <2>1. wait_list'[s] = Without(wait_list[s], t)
      BY <1>1, <1>6 DEF SelectTimeout, TypeOK
    <2>2. NoRepeats(wait_list'[s]) /\ Elems(wait_list'[s]) = Elems(wait_list[s]) \ {t}
      BY <1>1, <2>1, WithoutProperties
    <2> HIDE DEF s
    <2> QED
      BY <1>1, <1>2, <1>3, <1>4, <2>2 DEF Parked
  <1> QED
    BY <1>5, <1>6

\* A destroy empties the list of its set; it was on no list itself.
LEMMA ParkedFinish ==
    ASSUME TypeOK, InCall, Parked, NEW t \in Threads, DestroyFinish(t)
    PROVE  Parked'
  <1> DEFINE s == call[t].set
  <1>1. s \in Sets /\ wait_list'[s] = << >>
    BY DEF DestroyFinish, InCall, TypeOK
  <1>2. \A x \in Sets : x # s => wait_list'[x] = wait_list[x]
    BY DEF DestroyFinish, TypeOK
  <1>3. ASSUME NEW x \in Sets, x # s, NEW u \in Elems(wait_list[x])
        PROVE  call'[u].at = "parked" /\ call'[u].set = x
    <2>1. u \in Threads /\ call[u].at = "parked" /\ call[u].set = x
      BY <1>3, ElemsInside DEF Parked, TypeOK
    <2>2. u # t /\ u \notin Elems(wait_list[s])
      BY <1>1, <1>3, <2>1 DEF DestroyFinish, Parked
    <2> QED
      BY <2>1, <2>2, FinishMoves
  <1>4. Elems(<< >>) = {} /\ NoRepeats(<< >>)
    BY DEF Elems, NoRepeats
  <1> HIDE DEF s
  <1> QED
    BY <1>1, <1>2, <1>3, <1>4 DEF Parked

\* Ids are handed out once, and a destroyed set watches nothing.
LEMMA FreshStep ==
    ASSUME TypeOK, InCall, Fresh, Next
    PROVE  Fresh'
  <1>1. ASSUME NEW t \in Threads, SelectCreate(t)
        PROVE  Fresh'
    <2>1. next_sel \in Nat /\ next_sel' = next_sel + 1 /\ ep_ids' = ep_ids /\ Sets \subseteq Nat
          /\ \A s \in Sets : s # next_sel => sel_live'[s] = sel_live[s]
      BY <1>1 DEF SelectCreate, TypeOK, Sets
    <2>2. next_sel \in Sets => sel_live'[next_sel]
      BY <1>1 DEF SelectCreate, TypeOK
    <2>3. \A s \in Sets : s >= next_sel + 1 => s >= next_sel /\ s # next_sel
      BY <2>1
    <2> QED
      BY <2>1, <2>2, <2>3 DEF Fresh
  <1>2. ASSUME NEW t \in Threads, NEW s \in Sets, NEW e \in Endpoints, SelectAdd(t, s, e)
        PROVE  Fresh'
    BY <1>2 DEF SelectAdd, Fresh, TypeOK
  <1>3. ASSUME NEW t \in Threads, DestroyFinish(t)
        PROVE  Fresh'
    <2>1. call[t].set \in Sets
      BY <1>3 DEF DestroyFinish, InCall
    <2> QED
      BY <1>3, <2>1 DEF DestroyFinish, Fresh, TypeOK
  <1>4. CASE UNCHANGED <<next_sel, sel_live, ep_ids>>
    BY <1>4 DEF Fresh
  <1> QED
    BY <1>1, <1>2, <1>3, <1>4 DEF Next, WaitStep, DestroyStep, Send, Teardown, WaitEnter, DestroyEnter,
       ScanStep, ClearLatch, TakeReady, SelectPark, Resume, ReturnEmpty, Consume, SelectTimeout,
       DestroyUnwatch, selVars, epVars

\* Lists and parked threads agree after every step.
LEMMA ParkedStep ==
    ASSUME TypeOK, InCall, Parked, Next
    PROVE  Parked'
  <1>0. wait_list \in [Sets -> Seq(Threads)]
    BY DEF TypeOK
  <1>1. ASSUME NEW e \in Endpoints, Send(e) \/ Teardown(e)
        PROVE  Parked'
    BY <1>1, ParkedSend DEF Teardown, selVars, Parked
  <1>2. ASSUME NEW t \in Threads, SelectCreate(t) \/ \E s \in Sets, e \in Endpoints : SelectAdd(t, s, e)
        PROVE  Parked'
    BY <1>2 DEF SelectCreate, SelectAdd, Parked
  <1>3. ASSUME NEW t \in Threads, NEW s \in Sets, WaitEnter(t, s) \/ DestroyEnter(t, s)
        PROVE  Parked'
    <2>1. \A u \in Threads : u # t => call'[u] = call[u]
      BY <1>3 DEF WaitEnter, DestroyEnter, TypeOK
    <2> QED
      BY <1>0, <1>3, <2>1, ParkedOthers DEF WaitEnter, DestroyEnter, selVars
  <1>4. ASSUME NEW t \in Threads, WaitStep(t) \/ SelectTimeout(t) \/ DestroyStep(t)
        PROVE  Parked'
    <2>1. CASE ScanStep(t)
      BY <1>0, <2>1, ScanMoves, ParkedOthers DEF OnlyMoves, ScanStep
    <2>2. CASE ClearLatch(t)
      BY <1>0, <2>2, OtherMoves, ParkedOthers DEF OnlyMoves, ClearLatch
    <2>3. CASE TakeReady(t)
      BY <1>0, <2>3, OtherMoves, ParkedOthers DEF OnlyMoves, TakeReady, Scanned
    <2>4. CASE Resume(t)
      BY <1>0, <2>4, OtherMoves, ParkedOthers DEF OnlyMoves, Resume
    <2>5. CASE Consume(t)
      BY <1>0, <2>5, OtherMoves, ParkedOthers DEF OnlyMoves, Consume, selVars
    <2>6. CASE ReturnEmpty(t)
      BY <1>0, <2>6, OtherMoves, ParkedOthers DEF OnlyMoves, ReturnEmpty, Scanned, selVars
    <2>7. CASE DestroyUnwatch(t)
      BY <1>0, <2>7, OtherMoves, ParkedOthers DEF OnlyMoves, DestroyUnwatch, selVars
    <2> QED
      BY <1>4, <2>1, <2>2, <2>3, <2>4, <2>5, <2>6, <2>7, ParkedOwn, ParkedFinish
      DEF WaitStep, DestroyStep
  <1> QED
    BY <1>1, <1>2, <1>3, <1>4 DEF Next

-----------------------------------------------------------------------------
(* Hubs and sets. *)

\* No destroy makes progress.
LEMMA UnwatchedSame ==
    ASSUME ep_ids' = ep_ids,
           \A u \in Threads : \/ /\ call'[u].at = "destroy" => call'[u].n = 0
                                 /\ call[u].at = "destroy" => call[u].n = 0
                              \/ /\ call'[u].at = call[u].at /\ call'[u].set = call[u].set
                                 /\ call'[u].n = call[u].n
    PROVE  \A s, e : UnwatchedSoFar(s, e)' <=> UnwatchedSoFar(s, e)
  BY DEF UnwatchedSoFar

\* The steps that leave hubs, sets and lives alone.
LEMMA RegisteredSame ==
    ASSUME Registered, UNCHANGED <<hub, sel_live, live, ep_ids>>,
           \A s, e : UnwatchedSoFar(s, e)' <=> UnwatchedSoFar(s, e)
    PROVE  Registered'
  BY DEF Registered, Watches

\* A teardown frees the hub of an endpoint that is dead from then on.
LEMMA RegisteredTeardown ==
    ASSUME TypeOK, Registered, NEW e \in Endpoints, Teardown(e)
    PROVE  Registered'
  <1>1. \A s, x : UnwatchedSoFar(s, x)' <=> UnwatchedSoFar(s, x)
    BY UnwatchedSame DEF Teardown, selVars
  <1>2. \A x \in Endpoints : x # e => hub'[x] = hub[x] /\ live'[x] = live[x]
    BY DEF Teardown, TypeOK
  <1>3. ~live'[e] /\ \A s \in Sets : hub'[e][s] = 0
    BY DEF Teardown, TypeOK, NoWatchers
  <1> QED
    BY <1>1, <1>2, <1>3 DEF Registered, Teardown, selVars, Watches

\* A new set watches nothing.
LEMMA RegisteredCreate ==
    ASSUME TypeOK, Registered, Fresh, NEW t \in Threads, SelectCreate(t)
    PROVE  Registered'
  <1>1. \A s, x : UnwatchedSoFar(s, x)' <=> UnwatchedSoFar(s, x)
    BY UnwatchedSame DEF SelectCreate
  <1>2. next_sel \in Sets /\ ~sel_live[next_sel] /\ ep_ids[next_sel] = << >>
    BY DEF SelectCreate, TypeOK, Fresh, Sets
  <1>3. \A x \in Endpoints : ~Watches(next_sel, x)
    BY <1>2 DEF Watches, Elems
  <1>4. \A s \in Sets : s # next_sel => sel_live'[s] = sel_live[s]
    BY DEF SelectCreate, TypeOK
  <1> QED
    BY <1>1, <1>2, <1>3, <1>4 DEF Registered, SelectCreate, epVars, Watches

\* An endpoint a set does not watch is on its hub not at all, and then once.
LEMMA RegisteredAdd ==
    ASSUME TypeOK, InCall, Registered, NEW t \in Threads, NEW s \in Sets, NEW e \in Endpoints,
           SelectAdd(t, s, e)
    PROVE  Registered'
  <1>1. \A u \in Threads : call[u].at # "destroy" /\ call'[u].at # "destroy"
    BY SelectAssumption DEF SelectAdd, InCall, Holding
  <1>2. \A x, y : ~UnwatchedSoFar(x, y) /\ ~UnwatchedSoFar(x, y)'
    BY <1>1 DEF UnwatchedSoFar
  <1>3. hub[e][s] = 0 /\ hub'[e][s] = 1
    BY DEF SelectAdd, Registered, TypeOK
  <1>4. \A x \in Endpoints, y \in Sets : x # e \/ y # s => hub'[x][y] = hub[x][y]
    BY DEF SelectAdd, TypeOK
  <1>5. Elems(ep_ids'[s]) = Elems(ep_ids[s]) \cup {e}
    <2>1. ep_ids'[s] = Append(ep_ids[s], e) /\ ep_ids[s] \in Seq(Endpoints)
      BY DEF SelectAdd, TypeOK
    <2> QED
      BY <2>1, AppendedElems
  <1>6. \A y \in Sets : y # s => ep_ids'[y] = ep_ids[y]
    BY DEF SelectAdd, TypeOK
  <1>7. live[e] /\ sel_live[s] /\ live' = live /\ sel_live' = sel_live
    BY DEF SelectAdd
  <1> QED
    BY <1>2, <1>3, <1>4, <1>5, <1>6, <1>7 DEF Registered, Watches

\* There is one destroy at a time.
LEMMA OneDestroy ==
    ASSUME InCall, NEW t \in Threads, NEW u \in Threads, call[t].at \in Holding,
           call[u].at \in Holding
    PROVE  t = u
  BY DEF InCall

\* A destroy visits the next endpoint of its set.
LEMMA RegisteredUnwatch ==
    ASSUME TypeOK, InCall, Registered, NEW t \in Threads, DestroyUnwatch(t)
    PROVE  Registered'
  <1> DEFINE s == call[t].set
             k == call[t].n + 1
             e == ep_ids[s][k]
  <1>1. s \in Sets /\ k \in 1..Len(ep_ids[s]) /\ e \in Endpoints /\ call[t].n \in Nat
    BY CallParts DEF DestroyUnwatch, UnwatchedAll, InCall, TypeOK
  <1>2. /\ hub'[e][s] = 0
        /\ \A x \in Endpoints, y \in Sets : x # e \/ y # s => hub'[x][y] = hub[x][y]
    BY <1>1 DEF DestroyUnwatch, TypeOK
  <1>3. UNCHANGED <<live, sel_live, ep_ids>>
    BY DEF DestroyUnwatch, selVars
  <1>4. /\ \A u \in Threads : u # t => call'[u] = call[u] /\ call[u].at # "destroy"
        /\ call[t].at = "destroy" /\ call'[t].at = "destroy" /\ call'[t].set = s /\ call'[t].n = k
    BY OneDestroy, OtherMoves DEF DestroyUnwatch, OnlyMoves, GoesOn, Holding
  <1> HIDE DEF e
  <1>5. \A x, y : y = s /\ x = e => UnwatchedSoFar(y, x)'
    BY <1>1, <1>3, <1>4 DEF UnwatchedSoFar, e
  <1>6. \A x, y : UnwatchedSoFar(y, x)' => UnwatchedSoFar(y, x) \/ (y = s /\ x = e)
    <2> SUFFICES ASSUME NEW x, NEW y, UnwatchedSoFar(y, x)', ~UnwatchedSoFar(y, x)
                 PROVE  y = s /\ x = e
      OBVIOUS
    <2>1. y = s /\ \E j \in 1..Len(ep_ids[s]) : j <= k /\ ep_ids[s][j] = x
      BY <1>3, <1>4 DEF UnwatchedSoFar
    <2>2. PICK j \in 1..Len(ep_ids[s]) : j <= k /\ ep_ids[s][j] = x
      BY <2>1
    <2>3. ~(j <= call[t].n)
      BY <1>4, <2>1, <2>2 DEF UnwatchedSoFar
    <2>4. j = k
      BY <1>1, <2>2, <2>3
    <2> QED
      BY <2>1, <2>2, <2>4 DEF e
  <1>7. \A x, y : UnwatchedSoFar(y, x) => UnwatchedSoFar(y, x)'
    <2> SUFFICES ASSUME NEW x, NEW y, UnwatchedSoFar(y, x)
                 PROVE  UnwatchedSoFar(y, x)'
      OBVIOUS
    <2>1. y = s /\ \E j \in 1..Len(ep_ids[s]) : j <= call[t].n /\ ep_ids[s][j] = x
      BY <1>4 DEF UnwatchedSoFar
    <2>2. PICK j \in 1..Len(ep_ids[s]) : j <= call[t].n /\ ep_ids[s][j] = x
      BY <2>1
    <2>3. j <= k
      BY <1>1, <2>2
    <2> QED
      BY <1>3, <1>4, <2>1, <2>2, <2>3 DEF UnwatchedSoFar
  <1> HIDE DEF s, k
  <1> QED
    BY <1>1, <1>2, <1>3, <1>5, <1>6, <1>7 DEF Registered, Watches

\* When a destroy has been through the list, no hub names the set.
LEMMA RegisteredFinish ==
    ASSUME TypeOK, InCall, Parked, Registered, NEW t \in Threads, DestroyFinish(t)
    PROVE  Registered'
  <1> DEFINE s == call[t].set
  <1>1. s \in Sets /\ call[t].at = "destroy" /\ call[t].n \in Nat /\ call[t].n >= Len(ep_ids[s])
    BY CallParts DEF DestroyFinish, UnwatchedAll, InCall
  <1>2. \A e \in Endpoints : Watches(s, e) => UnwatchedSoFar(s, e)
    <2> SUFFICES ASSUME NEW e \in Endpoints, NEW j \in 1..Len(ep_ids[s]), ep_ids[s][j] = e
                 PROVE  UnwatchedSoFar(s, e)
      BY DEF Watches, Elems
    <2>1. j <= call[t].n
      BY <1>1 DEF TypeOK
    <2> QED
      BY <1>1, <2>1 DEF UnwatchedSoFar
  <1>3. \A u \in Threads : call'[u].at # "destroy"
    <2>1. \A u \in Threads : u # t => call[u].at # "destroy"
      BY <1>1, OneDestroy DEF Holding
    <2> QED
      BY <2>1, FinishMoves DEF Idle
  <1>4. \A x, y : ~UnwatchedSoFar(y, x)'
    BY <1>3 DEF UnwatchedSoFar
  <1>5. \A x, y : UnwatchedSoFar(y, x) => y = s
    BY <1>1, OneDestroy DEF UnwatchedSoFar, Holding
  <1>6. /\ UNCHANGED <<hub, live>> /\ ~sel_live'[s]
        /\ \A y \in Sets : y # s => sel_live'[y] = sel_live[y] /\ ep_ids'[y] = ep_ids[y]
    BY <1>1 DEF DestroyFinish, epVars, TypeOK
  <1> HIDE DEF s
  <1> QED
    BY <1>1, <1>2, <1>4, <1>5, <1>6 DEF Registered, Watches

\* Hubs and sets agree after every step.
LEMMA RegisteredStep ==
    ASSUME TypeOK, InCall, Parked, Fresh, Registered, Next
    PROVE  Registered'
  <1>1. ASSUME NEW e \in Endpoints, Send(e) \/ Teardown(e)
        PROVE  Registered'
    <2>1. CASE Send(e)
      <3>1. \A u \in Threads : /\ call'[u].set = call[u].set /\ call'[u].n = call[u].n
                               /\ \/ call'[u].at = call[u].at
                                  \/ call[u].at = "parked" /\ call'[u].at = "woken"
        <4>1. \A u \in Released(Signalled(e)) : call[u].at = "parked"
          BY TailElems DEF Released, Signalled, Parked, TypeOK
        <4> QED
          BY <2>1, <4>1, WakeType DEF Send
      <3>2. \A s, x : UnwatchedSoFar(s, x)' <=> UnwatchedSoFar(s, x)
        BY <2>1, <3>1, UnwatchedSame DEF Send
      <3> QED
        BY <2>1, <3>2, RegisteredSame DEF Send
    <2> QED
      BY <1>1, <2>1, RegisteredTeardown
  <1>2. ASSUME NEW t \in Threads, SelectCreate(t) \/ \E s \in Sets, e \in Endpoints : SelectAdd(t, s, e)
        PROVE  Registered'
    BY <1>2, RegisteredCreate, RegisteredAdd
  <1>3. ASSUME NEW t \in Threads, NEW s \in Sets, WaitEnter(t, s) \/ DestroyEnter(t, s)
        PROVE  Registered'
    <2>1. /\ \A u \in Threads : u # t => call'[u] = call[u]
          /\ call[t].at = "idle" /\ call'[t].n = 0
      BY <1>3 DEF WaitEnter, DestroyEnter, TypeOK
    <2>2. \A y, x : UnwatchedSoFar(y, x)' <=> UnwatchedSoFar(y, x)
      BY <1>3, <2>1, UnwatchedSame DEF WaitEnter, DestroyEnter, selVars
    <2> QED
      BY <1>3, <2>2, RegisteredSame DEF WaitEnter, DestroyEnter, selVars, epVars
  <1>4. ASSUME NEW t \in Threads, WaitStep(t) \/ SelectTimeout(t)
        PROVE  Registered'
    <2>1. OnlyMoves(t) /\ call'[t].at # "destroy"
      <3>1. ScanStep(t) => OnlyMoves(t) /\ call'[t].at # "destroy"
        BY ScanMoves DEF GoesOn, ScanStep
      <3>2. Idle.at = "idle"
        BY DEF Idle
      <3> QED
        BY <1>4, <3>1, <3>2, OtherMoves DEF WaitStep, GoesOn
    <2>2. call[t].at # "destroy" /\ UNCHANGED <<hub, sel_live, live, ep_ids>>
      BY <1>4 DEF WaitStep, ScanStep, ClearLatch, TakeReady, SelectPark, Resume, ReturnEmpty,
         Consume, SelectTimeout, Scanned, selVars, epVars
    <2>3. \A y, x : UnwatchedSoFar(y, x)' <=> UnwatchedSoFar(y, x)
      BY <2>1, <2>2, UnwatchedSame DEF OnlyMoves
    <2> QED
      BY <2>2, <2>3, RegisteredSame
  <1>5. ASSUME NEW t \in Threads, DestroyStep(t)
        PROVE  Registered'
    BY <1>5, RegisteredUnwatch, RegisteredFinish DEF DestroyStep
  <1> QED
    BY <1>1, <1>2, <1>3, <1>4, <1>5 DEF Next

-----------------------------------------------------------------------------
(* What a scan has seen. *)

\* A set that is scanned is on the hub of every live endpoint it watches.
LEMMA ScannedIsRegistered ==
    ASSUME InCall, Registered, NEW t \in Threads, call[t].at \in {"scan", "rescan"},
           NEW e \in Endpoints, live[e], Watches(call[t].set, e)
    PROVE  call[t].set \in Signalled(e) /\ call[t].set \in Sets /\ sel_live[call[t].set]
  <1>1. \A u \in Threads : call[u].at # "destroy"
    BY OneDestroy DEF Holding
  <1>2. ~UnwatchedSoFar(call[t].set, e)
    BY <1>1 DEF UnwatchedSoFar
  <1>3. call[t].set \in Sets /\ sel_live[call[t].set]
    BY DEF InCall, Holding
  <1> QED
    BY <1>2, <1>3 DEF Registered, Signalled

\* Nobody is scanning once the table lock is dropped, or when a destroy has it.
LEMMA NobodyScans ==
    ASSUME InCall', \/ table_lock' = NONE
                    \/ \E t \in Threads : table_lock' = t /\ call'[t].at \notin {"scan", "rescan"}
    PROVE  ScanClean'
  BY SelectAssumption DEF InCall, Holding, ScanClean

\* What Looked says of the state after a step.
LEMMA LookedPrimed ==
    ASSUME NEW u \in Threads, NEW s, call'[u].set = s,
           ep_ids'[s] = ep_ids[s], scan_cursor'[s] = scan_cursor[s],
           \A k \in Nat : k < call'[u].n =>
              LET e == ep_ids[s][ScanIndex(s, k) + 1] IN live'[e] => count'[e] = 0
    PROVE  Looked(u)'
  BY DEF Looked, Empty, ScanIndex

\* The endpoints a scan has looked at are in its set, and empty while nothing is latched.
LEMMA LookedAt ==
    ASSUME TypeOK, InCall, ScanClean, NEW u \in Threads, call[u].at \in {"scan", "rescan"},
           NEW k \in Nat, k < call[u].n
    PROVE  LET e == ep_ids[call[u].set][ScanIndex(call[u].set, k) + 1]
           IN  /\ e \in Endpoints /\ Watches(call[u].set, e)
               /\ ready_ep[call[u].set] = NONE => Empty(e)
  <1>1. /\ call[u].n <= Len(ep_ids[call[u].set]) /\ call[u].n \in Nat
        /\ ready_ep[call[u].set] = NONE => Looked(u)
    BY CallParts DEF ScanClean
  <1>2. ep_ids[call[u].set] \in Seq(Endpoints) /\ Len(ep_ids[call[u].set]) # 0
    BY <1>1, CallParts DEF TypeOK, InCall
  <1> QED
    BY <1>1, <1>2, ScanLooks DEF Looked, Watches, Elems

\* A scan goes on undisturbed when its set stays as it is and endpoints only empty.
LEMMA ScanKept ==
    ASSUME TypeOK, InCall, ScanClean, UNCHANGED <<ep_ids, scan_cursor, ready_ep>>,
           \A e \in Endpoints : Empty(e) => Empty(e)',
           \A u \in Threads : call'[u].at \in {"scan", "rescan"} =>
              call'[u].at = call[u].at /\ call'[u].set = call[u].set /\ call'[u].n = call[u].n
    PROVE  ScanClean'
  <1> SUFFICES ASSUME NEW u \in Threads, call'[u].at \in {"scan", "rescan"}
               PROVE  /\ Len(ep_ids[call[u].set]) # 0 =>
                            scan_cursor[call[u].set] < Len(ep_ids[call[u].set])
                      /\ call[u].n <= Len(ep_ids[call[u].set])
                      /\ ready_ep[call[u].set] = NONE => Looked(u)'
    BY DEF ScanClean
  <1>1. call[u].at \in {"scan", "rescan"} /\ call'[u].set = call[u].set /\ call'[u].n = call[u].n
    OBVIOUS
  <1>2. ASSUME ready_ep[call[u].set] = NONE
        PROVE  Looked(u)'
    <2>1. \A k \in Nat : k < call'[u].n =>
             LET e == ep_ids[call[u].set][ScanIndex(call[u].set, k) + 1]
             IN  live'[e] => count'[e] = 0
      BY <1>1, <1>2, LookedAt DEF Empty
    <2> QED
      BY <1>1, <2>1, LookedPrimed
  <1> QED
    BY <1>1, <1>2 DEF ScanClean

\* A send to an endpoint of the scanned set latches it; any other leaves the scan alone.
LEMMA ScanSend ==
    ASSUME TypeOK, InCall, Parked, Registered, ScanClean, NEW e \in Endpoints, Send(e)
    PROVE  ScanClean'
  <1>1. \A u \in Threads : /\ call'[u].set = call[u].set /\ call'[u].n = call[u].n
                           /\ call'[u].at = call[u].at \/ call'[u].at = "woken"
    BY WakeType DEF Send
  <1> SUFFICES ASSUME NEW u \in Threads, call'[u].at \in {"scan", "rescan"}
               PROVE  /\ Len(ep_ids[call[u].set]) # 0 =>
                            scan_cursor[call[u].set] < Len(ep_ids[call[u].set])
                      /\ call[u].n <= Len(ep_ids[call[u].set])
                      /\ ready_ep'[call[u].set] = NONE => Looked(u)'
    BY <1>1 DEF ScanClean, Send
  <1>2. call[u].at \in {"scan", "rescan"} /\ call[u].set \in Sets
    BY <1>1 DEF InCall
  <1>3. ASSUME ready_ep'[call[u].set] = NONE
        PROVE  Looked(u)'
    <2>1. call[u].set \notin Signalled(e) /\ ready_ep[call[u].set] = NONE
      BY <1>2, <1>3, SelectAssumption DEF Send
    <2>2. ~Watches(call[u].set, e)
      BY <1>2, <2>1, ScannedIsRegistered DEF Send
    <2>3. \A x \in Endpoints : x # e => live'[x] = live[x] /\ count'[x] = count[x]
      BY DEF Send, TypeOK
    <2>4. \A k \in Nat : k < call'[u].n =>
             LET x == ep_ids[call[u].set][ScanIndex(call[u].set, k) + 1]
             IN  live'[x] => count'[x] = 0
      BY <1>1, <1>2, <2>1, <2>2, <2>3, LookedAt DEF Empty
    <2> QED
      BY <1>1, <2>4, LookedPrimed DEF Send
  <1> QED
    BY <1>2, <1>3 DEF ScanClean

\* A scan starts inside the list, with nothing looked at.
LEMMA ScanStarts ==
    ASSUME TypeOK, InCall', NEW t \in Threads, NEW s \in Sets, table_lock' = t,
           call'[t].set = s, call'[t].n = 0, UNCHANGED ep_ids,
           scan_cursor' = [scan_cursor EXCEPT ![s] = StartCursor(s)]
    PROVE  ScanClean'
  <1>1. \A u \in Threads : call'[u].at \in {"scan", "rescan"} => u = t
    BY DEF InCall, Holding
  <1>2. Looked(t)'
    BY DEF Looked
  <1>3. Len(ep_ids[s]) \in Nat /\ scan_cursor'[s] = StartCursor(s) /\ scan_cursor[s] \in Nat
    BY DEF TypeOK
  <1>4. Len(ep_ids[s]) # 0 => scan_cursor'[s] < Len(ep_ids[s])
    BY <1>3 DEF StartCursor
  <1> QED
    BY <1>1, <1>2, <1>3, <1>4 DEF ScanClean

\* A look that finds an endpoint empty adds it to those looked at.
LEMMA ScanLook ==
    ASSUME TypeOK, InCall, InCall', ScanClean, NEW t \in Threads, ScanStep(t)
    PROVE  ScanClean'
  <1> DEFINE e == ep_ids[call[t].set][ScanIndex(call[t].set, call[t].n) + 1]
  <1>1. table_lock' = t /\ call[t].at \in {"scan", "rescan"} /\ call[t].n \in Nat /\ call[t].set \in Sets
    BY CallParts DEF ScanStep, InCall, Holding
  <1>2. \/ call'[t].at = "clear"
        \/ Empty(e) /\ scan_cursor' = scan_cursor /\ GoesOn(t, call[t].at, call[t].n + 1, call[t].ep)
    BY ScanMoves DEF GoesOn
  <1> HIDE DEF e
  <1>3. CASE call'[t].at = "clear"
    BY <1>1, <1>3, NobodyScans
  <1>4. CASE Empty(e) /\ scan_cursor' = scan_cursor /\ GoesOn(t, call[t].at, call[t].n + 1, call[t].ep)
    <2>1. \A u \in Threads : call'[u].at \in {"scan", "rescan"} => u = t
      BY <1>1 DEF InCall, Holding
    <2>2. UNCHANGED <<ep_ids, ready_ep, live, count>> /\ call[t].n < Len(ep_ids[call[t].set])
      BY DEF ScanStep, epVars
    <2>3. call'[t].set = call[t].set /\ call'[t].n = call[t].n + 1
      BY <1>4 DEF GoesOn
    <2>4. ASSUME ready_ep[call[t].set] = NONE
          PROVE  Looked(t)'
      <3>1. ASSUME NEW k \in Nat, k < call'[t].n
            PROVE  Empty(ep_ids[call[t].set][ScanIndex(call[t].set, k) + 1])
        <4>1. CASE k = call[t].n
          BY <1>4, <4>1 DEF e
        <4>2. CASE k # call[t].n
          BY <1>1, <2>3, <2>4, <3>1, <4>2, LookedAt
        <4> QED
          BY <4>1, <4>2
      <3>2. \A k \in Nat : k < call'[t].n =>
               LET x == ep_ids[call[t].set][ScanIndex(call[t].set, k) + 1]
               IN  live'[x] => count'[x] = 0
        BY <2>2, <3>1 DEF Empty
      <3> QED
        BY <1>4, <2>2, <2>3, <3>2, LookedPrimed
    <2>5. call[t].n + 1 <= Len(ep_ids[call[t].set])
      BY <1>1, <2>2 DEF TypeOK
    <2>6. Len(ep_ids[call[t].set]) # 0 => scan_cursor[call[t].set] < Len(ep_ids[call[t].set])
      BY <1>1 DEF ScanClean
    <2> QED
      BY <1>4, <2>1, <2>2, <2>3, <2>4, <2>5, <2>6 DEF ScanClean
  <1> QED
    BY <1>2, <1>3, <1>4

\* What a scan has seen, after every step.
LEMMA ScanCleanStep ==
    ASSUME TypeOK, InCall, InCall', Parked, Registered, ScanClean, Next
    PROVE  ScanClean'
  <1>1. ASSUME NEW e \in Endpoints, Send(e) \/ Teardown(e)
        PROVE  ScanClean'
    <2>1. CASE Teardown(e)
      <3>1. \A x \in Endpoints : Empty(x) => Empty(x)'
        BY <2>1 DEF Teardown, Empty, TypeOK
      <3> QED
        BY <2>1, <3>1, ScanKept DEF Teardown, selVars
    <2> QED
      BY <1>1, <2>1, ScanSend
  <1>2. ASSUME NEW t \in Threads, SelectCreate(t) \/ \E s \in Sets, e \in Endpoints : SelectAdd(t, s, e)
        PROVE  ScanClean'
    BY <1>2, NobodyScans DEF SelectCreate, SelectAdd
  <1>3. ASSUME NEW t \in Threads, NEW s \in Sets, WaitEnter(t, s)
        PROVE  ScanClean'
    <2>1. call'[t].set = s /\ call'[t].n = 0
      BY <1>3 DEF WaitEnter, TypeOK
    <2> QED
      BY <1>3, <2>1, ScanStarts DEF WaitEnter
  <1>4. ASSUME NEW t \in Threads, NEW s \in Sets, DestroyEnter(t, s)
        PROVE  ScanClean'
    <2>1. call'[t].at = "destroy"
      BY <1>4 DEF DestroyEnter, TypeOK
    <2> QED
      BY <1>4, <2>1, NobodyScans DEF DestroyEnter
  <1>5. ASSUME NEW t \in Threads, Resume(t)
        PROVE  ScanClean'
    <2>1. CASE sel_live[call[t].set]
      <3>1. call'[t].set = call[t].set /\ call'[t].n = 0 /\ call[t].set \in Sets
        BY <1>5, <2>1, OtherMoves DEF GoesOn, Resume, InCall
      <3> QED
        BY <1>5, <2>1, <3>1, ScanStarts DEF Resume
    <2>2. CASE ~sel_live[call[t].set]
      BY <1>5, <2>2, NobodyScans DEF Resume
    <2> QED
      BY <2>1, <2>2
  <1>6. ASSUME NEW t \in Threads, Consume(t) \/ SelectTimeout(t)
        PROVE  ScanClean'
    <2>1. \A u \in Threads : u # t => call'[u] = call[u]
      BY <1>6, OtherMoves DEF OnlyMoves
    <2>2. call'[t].at \notin {"scan", "rescan"}
      BY <1>6, OtherMoves DEF GoesOn, Idle
    <2>3. \A x \in Endpoints : Empty(x) => Empty(x)'
      <3>1. CASE Consume(t)
        BY <3>1 DEF Consume, Empty, TypeOK
      <3>2. CASE SelectTimeout(t)
        BY <3>2 DEF SelectTimeout, Empty, epVars
      <3> QED
        BY <1>6, <3>1, <3>2
    <2>4. UNCHANGED <<ep_ids, scan_cursor, ready_ep>>
      BY <1>6 DEF Consume, SelectTimeout, selVars
    <2> QED
      BY <2>1, <2>2, <2>3, <2>4, ScanKept
  <1>7. ASSUME NEW t \in Threads,
               ClearLatch(t) \/ TakeReady(t) \/ SelectPark(t) \/ ReturnEmpty(t) \/ DestroyFinish(t)
        PROVE  ScanClean'
    BY <1>7, NobodyScans DEF ClearLatch, TakeReady, SelectPark, ReturnEmpty, DestroyFinish
  <1>8. ASSUME NEW t \in Threads, DestroyUnwatch(t)
        PROVE  ScanClean'
    <2>1. table_lock' = t /\ call'[t].at = "destroy"
      BY <1>8, OtherMoves DEF DestroyUnwatch, GoesOn, InCall, Holding
    <2> QED
      BY <2>1, NobodyScans
  <1> QED
    BY <1>1, <1>2, <1>3, <1>4, <1>5, <1>6, <1>7, <1>8, ScanLook DEF Next, WaitStep, DestroyStep

-----------------------------------------------------------------------------
(* The invariant. *)

\* It holds initially.
LEMMA IInvInit ==
    ASSUME Init
    PROVE  IInv
  <1>0. /\ MaxSel \in Nat /\ MaxQueued \in Nat \ {0} /\ NONE \notin Threads /\ Idle \in Calls
        /\ Idle.at = "idle" /\ Idle.set = 0 /\ << >> \in Seq(Endpoints) /\ << >> \in Seq(Threads)
        /\ NoWatchers \in [Sets -> Nat] /\ 0 \in 0..MaxQueued /\ 1 \in 1 .. MaxSel + 1
    BY SelectAssumption DEF Idle, Calls, CallLabels, NoWatchers
  <1>1. TypeOK
    BY <1>0 DEF Init, TypeOK, Calls
  <1>2. InCall
    BY <1>0 DEF Init, InCall, Holding
  <1>3. Parked
    BY DEF Init, Parked, Elems, NoRepeats
  <1>4. Fresh
    BY DEF Init, Fresh
  <1>5. Registered
    BY DEF Init, Registered, NoWatchers
  <1>6. ScanClean
    BY <1>0 DEF Init, ScanClean
  <1> QED
    BY <1>1, <1>2, <1>3, <1>4, <1>5, <1>6 DEF IInv

\* Every step keeps it.
LEMMA IInvStep ==
    ASSUME IInv, [Next]_vars
    PROVE  IInv'
  <1>0. TypeOK /\ InCall /\ Parked /\ Fresh /\ Registered /\ ScanClean
    BY DEF IInv
  <1>1. CASE Next
    <2>1. TypeOK'
      BY <1>0, <1>1, EndpointType, BuildCalls, EnterCalls, WaitType, DestroyType DEF Next
    <2>2. InCall'
      BY <1>0, <1>1, EndpointCalls, BuildCalls, EnterCalls, WaitCalls, FinishCalls
      DEF Next, DestroyStep
    <2>3. Parked' /\ Fresh' /\ Registered'
      BY <1>0, <1>1, ParkedStep, FreshStep, RegisteredStep
    <2>4. ScanClean'
      BY <1>0, <1>1, <2>2, ScanCleanStep
    <2> QED
      BY <2>1, <2>2, <2>3, <2>4 DEF IInv
  <1>2. CASE UNCHANGED vars
    <2>1. UNCHANGED <<live, count, hub, next_sel, sel_live, ep_ids, ready_ep, scan_cursor,
                      wait_list, table_lock, call>>
      BY <1>2 DEF vars, epVars, selVars
    <2>2. TypeOK' /\ InCall' /\ Parked' /\ Fresh'
      BY <1>0, <2>1 DEF TypeOK, InCall, Parked, Fresh
    <2>3. Registered'
      BY <1>0, <2>1, UnwatchedSame, RegisteredSame
    <2>4. ScanClean'
      BY <1>0, <2>1, ScanKept DEF Empty
    <2> QED
      BY <2>2, <2>3, <2>4 DEF IInv
  <1> QED
    BY <1>1, <1>2

\* Every variable keeps its type: a wait consumes no more than an endpoint holds,
\* though several waits may have been told of the same message.
THEOREM TypeCorrect == Spec => []TypeOK
  <1>1. Init => IInv
    BY IInvInit
  <1>2. IInv /\ [Next]_vars => IInv'
    BY IInvStep
  <1>3. IInv => TypeOK
    BY DEF IInv
  <1> QED
    BY <1>1, <1>2, <1>3, PTL DEF Spec

\* No hub names a set that was freed: poll_notify never walks to a freed set, also
\* between the steps of a destroy.
THEOREM HubsNameLiveSets == Spec => []NoDanglingWatcher
  <1>1. Init => IInv
    BY IInvInit
  <1>2. IInv /\ [Next]_vars => IInv'
    BY IInvStep
  <1>3. IInv => NoDanglingWatcher
    BY DEF IInv, Registered, NoDanglingWatcher
  <1> QED
    BY <1>1, <1>2, <1>3, PTL DEF Spec

\* A set that watches a live endpoint and is not being destroyed is on its hub
\* exactly once, so every send signals it, once.
THEOREM WatchersAreRegistered == Spec => []WatchedIsRegistered
  <1>1. Init => IInv
    BY IInvInit
  <1>2. IInv /\ [Next]_vars => IInv'
    BY IInvStep
  <1>3. IInv => WatchedIsRegistered
    <2> SUFFICES ASSUME IInv, NEW s \in Sets, NEW e \in Endpoints, sel_live[s], live[e],
                        Watches(s, e), ~BeingDestroyed(s)
                 PROVE  hub[e][s] = 1
      BY DEF WatchedIsRegistered
    <2>1. ~UnwatchedSoFar(s, e)
      BY DEF UnwatchedSoFar, BeingDestroyed
    <2> QED
      BY <2>1 DEF IInv, Registered
  <1> QED
    BY <1>1, <1>2, <1>3, PTL DEF Spec

-----------------------------------------------------------------------------
(* Parking. *)

\* A scan that went round without an answer, with nothing latched: all is empty.
LEMMA ParkFindsNothing ==
    ASSUME IInv, NEW t \in Threads, SelectPark(t), NEW e \in Endpoints,
           Watches(call[t].set, e), live[e]
    PROVE  count[e] = 0
  <1> DEFINE s == call[t].set
             m == Len(ep_ids[s])
             c == scan_cursor[s]
  <1>0. TypeOK /\ InCall /\ ScanClean
    BY DEF IInv
  <1>1. call[t].at = "scan" /\ call[t].n >= m /\ ready_ep[s] = NONE
    BY DEF SelectPark, Scanned, MayPark
  <1>2. s \in Sets /\ ep_ids[s] \in Seq(Endpoints) /\ m \in Nat /\ c \in Nat /\ call[t].n \in Nat
    BY <1>0, <1>1, CallParts DEF TypeOK, InCall
  <1>3. PICK j \in 1..m : ep_ids[s][j] = e
    BY DEF Watches, Elems
  <1> DEFINE i == j - 1
  <1>4. i \in Nat /\ i < m /\ m # 0
    BY <1>2, <1>3
  <1>5. c < m
    BY <1>0, <1>1, <1>4 DEF ScanClean
  <1> HIDE DEF i, m, c
  <1>6. PICK k \in Nat : k < m /\ (c + k) % m = i
    BY <1>2, <1>4, <1>5, RotationCovers
  <1>7. ScanIndex(s, k) = i
    BY <1>6 DEF ScanIndex, c, m
  <1>8. k < call[t].n
    BY <1>1, <1>2, <1>6
  <1>9. Empty(ep_ids[s][ScanIndex(s, k) + 1])
    BY <1>0, <1>1, <1>8, LookedAt
  <1>10. ep_ids[s][i + 1] = e
    BY <1>2, <1>3 DEF i
  <1> QED
    BY <1>7, <1>9, <1>10 DEF Empty

\* Only SelectPark puts a thread on a list.
LEMMA JoinsByParking ==
    ASSUME IInv, Next, NEW t \in Threads, NEW s \in Sets,
           t \in Elems(wait_list'[s]), t \notin Elems(wait_list[s])
    PROVE  SelectPark(t) /\ call[t].set = s
  <1>0. wait_list \in [Sets -> Seq(Threads)] /\ wait_list[s] \in Seq(Threads) /\ TypeOK /\ InCall /\ Parked
    BY DEF IInv, TypeOK
  <1>1. ASSUME NEW e \in Endpoints, Send(e)
        PROVE  FALSE
    <2>1. wait_list'[s] = wait_list[s] \/ (wait_list[s] # << >> /\ wait_list'[s] = Tail(wait_list[s]))
      BY <1>1 DEF Send, Dequeued
    <2> QED
      BY <1>0, <2>1, TailElems
  <1>2. ASSUME NEW u \in Threads, SelectTimeout(u)
        PROVE  FALSE
    <2>1. wait_list'[s] = wait_list[s] \/ wait_list'[s] = Without(wait_list[s], u)
      BY <1>0, <1>2 DEF SelectTimeout
    <2> QED
      BY <1>0, <2>1, WithoutProperties DEF Parked
  <1>3. ASSUME NEW u \in Threads, DestroyFinish(u)
        PROVE  FALSE
    BY <1>0, <1>3 DEF DestroyFinish, Elems
  <1>4. ASSUME NEW u \in Threads, SelectPark(u)
        PROVE  u = t /\ call[t].set = s
    <2>1. \/ wait_list'[s] = wait_list[s]
          \/ call[u].set = s /\ wait_list'[s] = Append(wait_list[s], u)
      BY <1>0, <1>4 DEF SelectPark
    <2>2. Elems(Append(wait_list[s], u)) = Elems(wait_list[s]) \cup {u}
      BY <1>0, AppendedElems
    <2> QED
      BY <2>1, <2>2
  <1>5. UNCHANGED wait_list => FALSE
    OBVIOUS
  <1> QED
    BY <1>1, <1>2, <1>3, <1>4, <1>5 DEF Next, WaitStep, DestroyStep, Teardown, SelectCreate, SelectAdd,
       WaitEnter, DestroyEnter, ScanStep, ClearLatch, TakeReady, Resume, ReturnEmpty, Consume,
       DestroyUnwatch, selVars

\* No wake-up is lost between the scan and the park: a thread joins the wait list of
\* a set only when every live endpoint of the set is empty.
THEOREM ParkingMissesNothing == Spec => ParksOnlyOnEmpty
  <1>1. Init => IInv
    BY IInvInit
  <1>2. IInv /\ [Next]_vars => IInv'
    BY IInvStep
  <1>3. IInv /\ [Next]_vars =>
          [\A t \in Threads, s \in Sets :
              t \in Elems(wait_list'[s]) \ Elems(wait_list[s]) =>
                  \A e \in Endpoints : Watches(s, e) /\ live[e] => count[e] = 0]_vars
    BY JoinsByParking, ParkFindsNothing
  <1> QED
    BY <1>1, <1>2, <1>3, PTL DEF Spec, ParksOnlyOnEmpty

-----------------------------------------------------------------------------
(* Sets used by one thread at a time. *)

\* Two threads in one reactor's set: one of them destroys it.
Sole == \A t, u \in Threads : t # u /\ call[t].set = call[u].set /\ call[t].set \in Reactors =>
            call[t].at = "destroy" \/ call[u].at = "destroy"

\* Reactors' sets are sets, and no call of none is in one.
LEMMA ReactorsAreSets == Reactors \subseteq Sets /\ 0 \notin Reactors
  BY SelectAssumption DEF Sets

\* Nobody joins a reactor's set that is in use, but to destroy it.
LEMMA SoleStep ==
    ASSUME IInv, Sole, Next
    PROVE  Sole'
  <1>0. TypeOK /\ InCall
    BY DEF IInv
  <1>1. ASSUME NEW t \in Threads, NEW s \in Sets, MayUse(s), WaitEnter(t, s)
        PROVE  Sole'
    <2>1. call'[t].set = s /\ \A u \in Threads : u # t => call'[u] = call[u]
      BY <1>0, <1>1 DEF WaitEnter, TypeOK
    <2>2. s \in Reactors => \A u \in Threads : call[u].set # s
      BY <1>1 DEF MayUse, NobodyIn
    <2> QED
      BY <2>1, <2>2 DEF Sole
  <1>2. ASSUME NEW t \in Threads, NEW s \in Sets, DestroyEnter(t, s)
        PROVE  Sole'
    <2>1. call'[t].at = "destroy" /\ \A u \in Threads : u # t => call'[u] = call[u]
      BY <1>0, <1>2 DEF DestroyEnter, TypeOK
    <2> QED
      BY <2>1 DEF Sole
  <1>3. ASSUME \A u \in Threads : \/ call'[u].set = 0
                                  \/ /\ call'[u].set = call[u].set
                                     /\ call[u].at = "destroy" => call'[u].at = "destroy"
        PROVE  Sole'
    BY <1>3, ReactorsAreSets DEF Sole
  <1>4. ASSUME NEW t \in Threads, WaitStep(t) \/ SelectTimeout(t) \/ DestroyUnwatch(t)
        PROVE  Sole'
    <2>1. OnlyMoves(t) /\ (call'[t].set = 0 \/ call'[t].set = call[t].set)
      BY <1>0, <1>4, ScanMoves, OtherMoves DEF WaitStep, GoesOn, Idle
    <2>2. call[t].at = "destroy" => call'[t].at = "destroy"
      BY <1>0, <1>4, OtherMoves DEF WaitStep, ScanStep, ClearLatch, TakeReady, SelectPark, Resume,
         ReturnEmpty, Consume, SelectTimeout, Scanned, GoesOn
    <2> QED
      BY <1>3, <2>1, <2>2 DEF OnlyMoves
  <1>5. ASSUME NEW e \in Endpoints, Send(e)
        PROVE  Sole'
    <2>1. \A u \in Threads : /\ call'[u].set = call[u].set
                             /\ call[u].at = "destroy" => call'[u].at = "destroy"
      <3>1. \A u \in Released(Signalled(e)) : call[u].at = "parked"
        BY TailElems DEF Released, Signalled, IInv, Parked, TypeOK
      <3> QED
        BY <1>0, <1>5, <3>1, WakeType DEF Send
    <2> QED
      BY <1>3, <2>1
  <1>6. ASSUME NEW t \in Threads, DestroyFinish(t)
        PROVE  Sole'
    <2>1. call'[t].set = 0 /\ \A u \in Threads : u # t => call'[u].set = call[u].set
      BY <1>0, <1>6, FinishMoves DEF Idle
    <2>2. \A u \in Threads : u # t => call[u].at # "destroy"
      BY <1>0, <1>6, OneDestroy DEF DestroyFinish, Holding
    <2> QED
      BY <1>3, <2>1, <2>2
  <1>7. UNCHANGED call => Sole'
    BY DEF Sole
  <1> QED
    BY <1>1, <1>2, <1>4, <1>5, <1>6, <1>7 DEF Next, DestroyStep, Teardown, SelectCreate, SelectAdd

\* Then a list holds one thread at most.
LEMMA SoleOnList ==
    ASSUME IInv, Sole, NEW s \in Reactors, wait_list[s] # << >>
    PROVE  Tail(wait_list[s]) = << >>
  <1> DEFINE w == wait_list[s]
  <1>0. s \in Sets
    BY ReactorsAreSets
  <1>1. w \in Seq(Threads) /\ NoRepeats(w)
    BY <1>0 DEF IInv, TypeOK, Parked
  <1>2. Tail(w) \in Seq(Threads) /\ Head(w) \in Elems(w) /\ Elems(Tail(w)) = Elems(w) \ {Head(w)}
    BY <1>1, TailElems
  <1>3. \A t, u \in Elems(w) : t = u
    <2>1. \A t \in Elems(w) : t \in Threads /\ call[t].at = "parked" /\ call[t].set = s
      BY <1>0, <1>1, ElemsInside DEF IInv, Parked
    <2> QED
      BY <2>1 DEF Sole
  <1>4. Elems(Tail(w)) = {}
    BY <1>2, <1>3
  <1> HIDE DEF w
  <1>5. \A k \in 1..Len(Tail(w)) : FALSE
    BY <1>4 DEF Elems
  <1>6. Len(Tail(w)) = 0
    <2> DEFINE m == Len(Tail(w))
    <2>1. m \in Nat /\ \A k \in 1..m : FALSE
      BY <1>2, <1>5
    <2> HIDE DEF m
    <2>2. m = 0
      BY <2>1
    <2> QED
      BY <2>2 DEF m
  <1>7. Tail(w) = << >>
    BY <1>2, <1>6, EmptySeq
  <1> QED
    BY <1>7 DEF w

\* A set is all quiet: its live endpoints are empty.
Quiet(s) == \A e \in Endpoints : Watches(s, e) /\ live[e] => count[e] = 0

\* A set whose list is or was empty, or whose endpoints only empty, keeps the promise.
LEMMA QuietKept ==
    ASSUME NoStuckWaiter, NEW s \in Reactors, wait_list[s] # << >>, ~BeingDestroyed(s),
           ep_ids'[s] = ep_ids[s], \A e \in Endpoints : Empty(e) => Empty(e)'
    PROVE  Quiet(s)'
  BY DEF NoStuckWaiter, Quiet, Empty, Watches

\* A send to an endpoint of the set takes the only waiter off its list.
LEMMA NoStuckSend ==
    ASSUME IInv, Sole, NoStuckWaiter, NEW e \in Endpoints, Send(e)
    PROVE  NoStuckWaiter'
  <1>0. TypeOK /\ InCall /\ Parked /\ Registered
    BY DEF IInv
  <1> SUFFICES ASSUME NEW s \in Reactors, wait_list'[s] # << >>, ~BeingDestroyed(s)'
               PROVE  Quiet(s)'
    BY DEF NoStuckWaiter, Quiet
  <1> s \in Sets
    BY ReactorsAreSets
  <1>1. ~BeingDestroyed(s)
    <2>1. \A u \in Released(Signalled(e)) : call[u].at = "parked"
      BY <1>0, TailElems DEF Released, Signalled, Parked, TypeOK
    <2>2. \A u \in Threads : call'[u].set = call[u].set /\ (call[u].at = "destroy" => call'[u].at = "destroy")
      BY <1>0, <2>1, WakeType DEF Send
    <2> QED
      BY <2>2 DEF BeingDestroyed
  <1>2. wait_list[s] # << >> /\ s \notin Signalled(e)
    BY <1>0, SoleOnList DEF Send, Dequeued
  <1>3. hub[e][s] # 1
    BY <1>2 DEF Signalled
  <1>4. ~UnwatchedSoFar(s, e)
    BY <1>1 DEF UnwatchedSoFar, BeingDestroyed
  <1>5. Watches(s, e) => sel_live[s]
    <2>1. ~sel_live[s] => ep_ids[s] = << >>
      BY DEF IInv, Fresh
    <2> QED
      BY <2>1 DEF Watches, Elems
  <1>6. ~Watches(s, e)
    BY <1>0, <1>3, <1>4, <1>5 DEF Registered, Send
  <1>7. \A x \in Endpoints : x # e => count'[x] = count[x]
    BY <1>0 DEF Send, TypeOK
  <1>8. Quiet(s)
    BY <1>1, <1>2 DEF NoStuckWaiter, Quiet
  <1> QED
    BY <1>6, <1>7, <1>8 DEF Quiet, Watches, Send

\* Adding to a set nobody is in, and ending a destroy, leave its list empty.
LEMMA NoStuckStep ==
    ASSUME IInv, Sole, NoStuckWaiter, Next
    PROVE  NoStuckWaiter'
  <1>0. TypeOK /\ InCall /\ Parked
    BY DEF IInv
  <1>1. ASSUME NEW t \in Threads, NEW s \in Sets, NEW e \in Endpoints, MayUse(s), SelectAdd(t, s, e)
        PROVE  NoStuckWaiter'
    <2>1. s \in Reactors => wait_list[s] = << >>
      <3> SUFFICES ASSUME s \in Reactors, wait_list[s] # << >> PROVE FALSE
        OBVIOUS
      <3>1. Head(wait_list[s]) \in Elems(wait_list[s]) /\ Head(wait_list[s]) \in Threads
        BY <1>0, TailElems DEF TypeOK
      <3> QED
        BY <1>0, <1>1, <3>1 DEF Parked, MayUse, NobodyIn
    <2>2. \A x \in Sets : x # s => ep_ids'[x] = ep_ids[x]
      BY <1>0, <1>1 DEF SelectAdd, TypeOK
    <2> QED
      BY <1>1, <2>1, <2>2, ReactorsAreSets DEF SelectAdd, NoStuckWaiter, BeingDestroyed, Watches
  <1>2. ASSUME NEW t \in Threads, SelectPark(t)
        PROVE  NoStuckWaiter'
    <2>1. Quiet(call[t].set)
      BY <1>2, ParkFindsNothing DEF Quiet
    <2>2. \A x \in Sets : x # call[t].set => wait_list'[x] = wait_list[x]
      BY <1>0, <1>2 DEF SelectPark, TypeOK
    <2>3. \A u \in Threads : u # t => call'[u] = call[u]
      BY <1>0, <1>2, OtherMoves DEF OnlyMoves
    <2>4. \A x : BeingDestroyed(x) => BeingDestroyed(x)'
      BY <1>2, <2>3 DEF BeingDestroyed, SelectPark, Scanned
    <2>5. UNCHANGED <<live, count, ep_ids>>
      BY <1>2 DEF SelectPark, epVars
    <2> QED
      BY <2>1, <2>2, <2>4, <2>5, ReactorsAreSets DEF NoStuckWaiter, Quiet, Watches
  <1>3. ASSUME NEW t \in Threads, DestroyFinish(t)
        PROVE  NoStuckWaiter'
    <2>1. /\ call[t].set \in Sets /\ wait_list'[call[t].set] = << >> /\ UNCHANGED <<live, count>>
          /\ \A x \in Sets : x # call[t].set => wait_list'[x] = wait_list[x] /\ ep_ids'[x] = ep_ids[x]
      BY <1>0, <1>3 DEF DestroyFinish, InCall, TypeOK, epVars
    <2>2. \A u \in Threads : u # t => call[u].at # "destroy"
      BY <1>0, <1>3, OneDestroy DEF DestroyFinish, Holding
    <2>3. \A x : BeingDestroyed(x) => x = call[t].set
      BY <2>2 DEF BeingDestroyed
    <2> QED
      BY <2>1, <2>3, ReactorsAreSets DEF NoStuckWaiter, Watches
  <1>4. ASSUME UNCHANGED ep_ids, \A x \in Sets : wait_list'[x] # << >> => wait_list[x] # << >>,
               \A e \in Endpoints : Empty(e) => Empty(e)',
               \A x : BeingDestroyed(x) => BeingDestroyed(x)'
        PROVE  NoStuckWaiter'
    <2> SUFFICES ASSUME NEW s \in Reactors, wait_list'[s] # << >>, ~BeingDestroyed(s)'
                 PROVE  Quiet(s)'
      BY DEF NoStuckWaiter, Quiet
    <2> QED
      BY <1>4, QuietKept, ReactorsAreSets
  <1>5. ASSUME NEW e \in Endpoints, Teardown(e)
        PROVE  NoStuckWaiter'
    <2>1. \A x \in Endpoints : Empty(x) => Empty(x)'
      BY <1>0, <1>5 DEF Teardown, Empty, TypeOK
    <2> QED
      BY <1>4, <1>5, <2>1 DEF Teardown, selVars, BeingDestroyed
  <1>6. ASSUME NEW t \in Threads, SelectCreate(t)
        PROVE  NoStuckWaiter'
    BY <1>4, <1>6 DEF SelectCreate, BeingDestroyed, Empty, epVars
  <1>7. ASSUME NEW t \in Threads, NEW s \in Sets, WaitEnter(t, s) \/ DestroyEnter(t, s)
        PROVE  NoStuckWaiter'
    <2>1. \A u \in Threads : u # t => call'[u] = call[u]
      BY <1>0, <1>7 DEF WaitEnter, DestroyEnter, TypeOK
    <2>2. \A x : BeingDestroyed(x) => BeingDestroyed(x)'
      BY <1>7, <2>1 DEF BeingDestroyed, WaitEnter, DestroyEnter
    <2> QED
      BY <1>4, <1>7, <2>2 DEF WaitEnter, DestroyEnter, Empty, selVars, epVars
  <1>8. ASSUME NEW t \in Threads,
               \/ ScanStep(t) \/ ClearLatch(t) \/ TakeReady(t) \/ Resume(t) \/ ReturnEmpty(t)
               \/ Consume(t) \/ SelectTimeout(t) \/ DestroyUnwatch(t)
        PROVE  NoStuckWaiter'
    <2>1. \A u \in Threads : u # t => call'[u] = call[u]
      BY <1>0, <1>8, ScanMoves, OtherMoves DEF OnlyMoves
    <2>2. call[t].at = "destroy" => call'[t].at = "destroy" /\ call'[t].set = call[t].set
      BY <1>0, <1>8, OtherMoves DEF ScanStep, ClearLatch, TakeReady, Resume, ReturnEmpty, Consume,
         SelectTimeout, Scanned, GoesOn
    <2>3. \A x : BeingDestroyed(x) => BeingDestroyed(x)'
      BY <2>1, <2>2 DEF BeingDestroyed
    <2>4. \A x \in Endpoints : Empty(x) => Empty(x)'
      <3>1. CASE Consume(t)
        BY <1>0, <3>1 DEF Consume, Empty, TypeOK
      <3>2. CASE UNCHANGED <<live, count>>
        BY <3>2 DEF Empty
      <3> QED
        BY <1>8, <3>1, <3>2 DEF ScanStep, ClearLatch, TakeReady, Resume, ReturnEmpty, SelectTimeout,
           DestroyUnwatch, epVars
    <2>5. \A x \in Sets : wait_list'[x] # << >> => wait_list[x] # << >>
      <3>1. CASE SelectTimeout(t)
        <4>1. ASSUME NEW x \in Sets, wait_list[x] = << >>
              PROVE  wait_list'[x] = << >>
          <5>1. wait_list'[x] = wait_list[x] \/ wait_list'[x] = Without(wait_list[x], t)
            BY <1>0, <3>1 DEF SelectTimeout, TypeOK
          <5> QED
            BY <4>1, <5>1 DEF Without
        <4> QED
          BY <4>1
      <3>2. CASE UNCHANGED wait_list
        BY <3>2
      <3> QED
        BY <1>8, <3>1, <3>2 DEF ScanStep, ClearLatch, TakeReady, Resume, ReturnEmpty, Consume,
           DestroyUnwatch, selVars
    <2>6. UNCHANGED ep_ids
      BY <1>8 DEF ScanStep, ClearLatch, TakeReady, Resume, ReturnEmpty, Consume, SelectTimeout,
         DestroyUnwatch, selVars
    <2> QED
      BY <1>4, <2>3, <2>4, <2>5, <2>6
  <1> QED
    BY <1>1, <1>2, <1>3, <1>5, <1>6, <1>7, <1>8, NoStuckSend DEF Next, WaitStep, DestroyStep

\* The reactor's promise: where one thread at a time uses a set, it never sleeps
\* on the set while a live endpoint of it holds a message, but for the moment
\* before a destroy aborts it.
THEOREM ReactorsSleepOnEmpty == Spec => []NoStuckWaiter
  <1> DEFINE RInv == IInv /\ Sole /\ NoStuckWaiter
  <1>1. Init => RInv
    BY IInvInit, ReactorsAreSets DEF Init, Sole, Idle, NoStuckWaiter
  <1>2. RInv /\ [Next]_vars => RInv'
    <2> SUFFICES ASSUME RInv, [Next]_vars
                 PROVE  RInv'
      OBVIOUS
    <2>1. IInv'
      BY IInvStep
    <2>2. CASE Next
      BY <2>1, <2>2, SoleStep, NoStuckStep
    <2>3. CASE UNCHANGED vars
      BY <2>1, <2>3, ReactorsAreSets DEF vars, epVars, selVars, Sole, NoStuckWaiter, BeingDestroyed, Watches
    <2> QED
      BY <2>2, <2>3
  <1>3. RInv => NoStuckWaiter
    OBVIOUS
  <1> HIDE DEF RInv
  <1> QED
    BY <1>1, <1>2, <1>3, PTL DEF Spec
=============================================================================
