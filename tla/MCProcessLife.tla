--------------------------- MODULE MCProcessLife ---------------------------
(***************************************************************************)
(* Small instances of ProcessLife for TLC.                                 *)
(***************************************************************************)
EXTENDS ProcessLife, TLC

CONSTANTS c1, c2, w

\* The dispatching CPUs run the same code.
Symmetry == Permutations(Cpus)

============================================================================
