---------------------------- MODULE MCRainIngest ----------------------------
(***************************************************************************)
(* Two cells, fetched in this order.                                       *)
(***************************************************************************)
EXTENDS RainIngest, TLC

CONSTANTS cellA, cellB

MCRegions == <<cellA, cellB>>
ThreadSymmetry == Permutations(Threads)
=============================================================================
