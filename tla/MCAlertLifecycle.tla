-------------------------- MODULE MCAlertLifecycle --------------------------
(***************************************************************************)
(* Small instances of AlertLifecycle.                                      *)
(***************************************************************************)
EXTENDS AlertLifecycle, TLC

\* Threads that do the same work are interchangeable (safety runs only).
ThreadSymmetry == Permutations(Evaluators) \cup Permutations(Handlers)
=============================================================================
