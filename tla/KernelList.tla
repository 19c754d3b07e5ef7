----------------------------- MODULE KernelList -----------------------------
(***************************************************************************)
(* The kernel's intrusive lists (src/kernel/include/sched_list.h) as       *)
(* sequences, head first.  A node is added with Append or a head sequence; *)
(* what is here is the unlinking of a node from anywhere in a list.        *)
(***************************************************************************)
LOCAL INSTANCE Naturals
LOCAL INSTANCE Sequences

\* What is on a list, and that nothing is on it twice.
Elems(list) == {list[i] : i \in 1..Len(list)}
NoRepeats(list) == \A i, j \in 1..Len(list) : list[i] = list[j] => i = j

\* list_head_del: a list without its i-th node.
Unlinked(list, i) == SubSeq(list, 1, i - 1) \o SubSeq(list, i + 1, Len(list))

\* list_head_del of the node of t, if it is linked here.
\* Mutation: the node stays where it is.
StaysLinked(list, t) == list
Without(list, t) == IF \E i \in 1..Len(list) : list[i] = t
                    THEN Unlinked(list, CHOOSE i \in 1..Len(list) : list[i] = t)
                    ELSE list
=============================================================================
