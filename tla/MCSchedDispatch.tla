-------------------------- MODULE MCSchedDispatch --------------------------
(***************************************************************************)
(* Small instances of SchedDispatch for TLC.                               *)
(***************************************************************************)
EXTENDS SchedDispatch

CONSTANTS p, q

Anywhere == [t \in Threads |-> CPUs]

\* The last thread may run on p only.
Pinned == [t \in Threads |-> IF t = NThreads THEN {p} ELSE CPUs]

============================================================================
