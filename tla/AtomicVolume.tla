---------------------------- MODULE AtomicVolume ----------------------------
(***************************************************************************)
(* What a journaled volume promises.  The metadata blocks have one stable  *)
(* content: what a mount after a power cut would serve.  A transaction     *)
(* prepares new contents, becomes stable in ONE step or not at all, and is *)
(* acknowledged only once it is stable.  A block a transaction freed has   *)
(* no promised content until a later transaction writes it.  A volume on   *)
(* which an error was recorded is lost: it takes no transaction any more,  *)
(* and promises no content.                                                *)
(***************************************************************************)
CONSTANTS Targets, \* metadata blocks
          Stamps,  \* one per update of a block
          FREE     \* the content of a freed block

VARIABLES stable,  \* target -> the stamps it holds, or FREE
          pending, \* the open transaction: target -> new content
          dropped, \* the blocks it frees
          status,  \* "idle", "open", "committed"
          outcome, \* what the last caller was told: "none", "ok", "failed"
          lost     \* the volume waits for its repair

vars == <<stable, pending, dropped, status, outcome, lost>>

NoUpdate == [t \in {} |-> {}]

Init == /\ stable = [t \in Targets |-> {}]
        /\ pending = NoUpdate
        /\ dropped = {}
        /\ status = "idle"
        /\ outcome = "none"
        /\ lost = FALSE

\* The content an update of t starts from.
Base(t) == IF t \in DOMAIN pending THEN pending[t]
           ELSE IF stable[t] = FREE THEN {} ELSE stable[t]

Begin == /\ status = "idle"
         /\ ~lost
         /\ status' = "open"
         /\ UNCHANGED <<stable, pending, dropped, outcome, lost>>

Update(t) == /\ status = "open"
             /\ \E s \in Stamps :
                   pending' = [u \in DOMAIN pending \cup {t} |->
                                 IF u = t THEN Base(t) \cup {s} ELSE pending[u]]
             /\ UNCHANGED <<stable, dropped, status, outcome, lost>>

Free(t) == /\ status = "open"
           /\ dropped' = dropped \cup {t}
           /\ UNCHANGED <<stable, pending, status, outcome, lost>>

Commit == /\ status = "open"
          /\ status' = "committed"
          /\ stable' = [t \in Targets |-> IF t \in dropped THEN FREE
                                          ELSE IF t \in DOMAIN pending THEN pending[t]
                                          ELSE stable[t]]
          /\ UNCHANGED <<pending, dropped, outcome, lost>>

Over == /\ status' = "idle"
        /\ pending' = NoUpdate
        /\ dropped' = {}
        /\ UNCHANGED <<stable, lost>>

\* The caller hears of success only when the content is stable, or when the
\* transaction changed nothing.
Acknowledge == /\ \/ status = "committed"
                  \/ status = "open" /\ pending = NoUpdate /\ dropped = {}
               /\ outcome' = "ok"
               /\ Over

\* The transaction failed or was cut short; it may have become stable.
Fail == /\ status # "idle"
        /\ outcome' = "failed"
        /\ Over

\* The error is recorded, between two transactions.
Lose == /\ status = "idle"
        /\ lost' = TRUE
        /\ stable' = [t \in Targets |-> FREE]
        /\ UNCHANGED <<pending, dropped, status, outcome>>

Next == \/ Begin \/ Commit \/ Acknowledge \/ Fail \/ Lose
        \/ \E t \in Targets : Update(t) \/ Free(t)

Spec == Init /\ [][Next]_vars
=============================================================================
