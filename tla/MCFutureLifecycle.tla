--------------------------- MODULE MCFutureLifecycle ---------------------------
(* The life of futures on small instances, checked by TLC. *)
EXTENDS FutureLifecycle, TLC

CONSTANTS t1, t2

ThreadSymmetry == Permutations(Threads)
================================================================================
