------------------------------ MODULE Mailbox ------------------------------
(***************************************************************************)
(* What a message endpoint promises, without rings, reserved slots, pending *)
(* lists or teardown passes: accepted messages and hangups are taken in the *)
(* order they arrived, each exactly once, until the mailbox is shut.  A     *)
(* sender is refused while Depth or more items wait; a hangup never is.     *)
(***************************************************************************)
EXTENDS Naturals, Sequences

CONSTANTS Boxes, Depth, Payloads

VARIABLES inbox, state

vars == <<inbox, state>>

Init ==
    /\ inbox = [b \in Boxes |-> << >>]
    /\ state = [b \in Boxes |-> "new"]

Open(b) ==
    /\ state[b] = "new"
    /\ \E s \in {"open", "shut"} : state' = [state EXCEPT ![b] = s]
    /\ UNCHANGED inbox

Put(b, m) ==
    /\ state[b] = "open"
    /\ m.type = "data" => Len(inbox[b]) < Depth
    /\ inbox' = [inbox EXCEPT ![b] = Append(@, m)]
    /\ UNCHANGED state

Take(b) ==
    /\ state[b] = "open"
    /\ inbox[b] # << >>
    /\ inbox' = [inbox EXCEPT ![b] = Tail(@)]
    /\ UNCHANGED state

Shut(S) ==
    /\ state' = [b \in Boxes |-> IF b \in S THEN "shut" ELSE state[b]]
    /\ inbox' = [b \in Boxes |-> IF b \in S THEN << >> ELSE inbox[b]]

Next ==
    \/ \E b \in Boxes : Open(b)
    \/ \E b \in Boxes, m \in Payloads : Put(b, m)
    \/ \E b \in Boxes : Take(b)
    \/ \E S \in SUBSET Boxes : (\A b \in S : state[b] # "new") /\ Shut(S)

Spec == Init /\ [][Next]_vars

============================================================================
