---------------------------- MODULE MCPipelines ----------------------------
(***************************************************************************)
(* Evaluation, data set and features.  They share no state, so TLC follows *)
(* each alone, with the others where they began.                           *)
(*                                                                         *)
(* Half-hour slots, and a lookback short enough for a behaviour to exceed  *)
(* it; two gauges, one above the other; a reading that was not taken, low, *)
(* and flooding water.                                                     *)
(***************************************************************************)
EXTENDS Evaluation, Dataset, GaugeFeatures

CONSTANTS low, high

MCUpstreams == {<<low, high>>}
MCMeasures ==
  {[level |-> {}, rain |-> {2}], [level |-> {1}, rain |-> {}], [level |-> {3}, rain |-> {1}]}
MCDataSetSearch == [least |-> 3, most |-> 2, default |-> 1]
MCExperimentSearch == [least |-> 3, most |-> 2, default |-> 2]

MCInit == Init /\ DataInit /\ FeatureInit
MCNext ==
  \/ DataInit /\ FeatureInit /\ Next /\ UNCHANGED <<vars, readings>>
  \/ Init /\ FeatureInit /\ DataNext /\ UNCHANGED <<slots, readings>>
  \/ Init /\ DataInit /\ FeatureNext /\ UNCHANGED <<slots, vars>>
MCSpec == MCInit /\ [][MCNext]_<<slots, vars, readings>>
=============================================================================
