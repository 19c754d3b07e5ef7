--------------------------- MODULE MCIpcEndpoint ---------------------------
(***************************************************************************)
(* Small instances of IpcEndpoint for TLC.                                 *)
(***************************************************************************)
EXTENDS IpcEndpoint, TLC

CONSTANTS c1, c2, t1, t2, r, k

\* Who runs where.
OneProcessAndKernel == (t1 :> c1) @@ (k :> KERNEL)
SendersAndReceiver == (t1 :> c1) @@ (t2 :> c1) @@ (r :> c2)

\* A scenario first creates message endpoints for these owners, in this order;
\* the owner of the first one tells the scenarios apart.
Chosen(owners) == next_id = 1 \/ owner[1] = owners[1]
Creating(owners) ==
    /\ next_id <= Len(owners)
    /\ Chosen(owners)
    /\ CreateTyped(owners[next_id], "message")

\* A process of two threads and two endpoints that will die (1 and 2), and a
\* process that listens on 3 and 4 and may die too.
HangupOwners == <<c1, c1, c2, c2>>

\* Who sends from where to where: endpoint 1 has more correspondents than its
\* list holds, both threads may be the first to write to 3, and 3 is owed
\* hangups by both dying endpoints.
Routes == {<<t1, 1, 2>>, <<t1, 1, 3>>, <<t1, 1, 4>>, <<t2, 1, 3>>, <<t2, 2, 3>>}

HangupSteps ==
    \/ \E route \in Routes : SendBegin(route[1], route[2], route[3])
    \/ \E t \in Threads : ThreadStep(t)
    \/ RecvFor(r, 3)
    \/ KernelSend(3)
    \/ ContextWatch(c1, 3)
    \/ \E c \in Contexts : Exit(c) \/ ReleaseOwner(c)
    \/ Reaper

\* The process of two threads receives on 2 from the other one, which sends
\* from 1, and from the kernel.
WakeupOwners == <<c2, c1>>

WakeupSteps ==
    \/ \E t \in {t1, t2} :
          RecvFor(t, 2) \/ RecvBlocking(t, 2) \/ EndpointWait(t, 2)
    \/ SendBegin(r, 1, 2)
    \/ \E t \in Threads : ThreadStep(t)
    \/ KernelSend(2)
    \/ \E c \in Contexts : Exit(c) \/ ReleaseOwner(c)
    \/ Reaper

HangupNext ==
    \/ Creating(HangupOwners)
    \/ Creating(WakeupOwners)
    \/ next_id > Len(HangupOwners) /\ HangupSteps
    \/ next_id = 3 /\ owner[1] # c1 /\ WakeupSteps

HangupSpec == Init /\ [][HangupNext]_vars /\ WF_vars(Reaper)

============================================================================
