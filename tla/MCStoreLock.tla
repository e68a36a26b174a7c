----------------------------- MODULE MCStoreLock -----------------------------
(* StoreLock for TLC: two server processes, the first with two threads.      *)
EXTENDS StoreLock, TLC

CONSTANTS a, b, a1, a2, b1

MCHome == [t \in Threads |-> IF t = b1 THEN b ELSE a]

Symmetry == Permutations({a1, a2})
=============================================================================
