---------------------------- MODULE MCIpcSelect ----------------------------
(***************************************************************************)
(* Small instances of IpcSelect for TLC.                                   *)
(***************************************************************************)
EXTENDS IpcSelect, TLC

CONSTANTS e1, e2, t1, t2, t3, t4

\* Threads are alike.
ThreadSymmetry == Permutations(Threads)
============================================================================
