----------------------------- MODULE Experiment -----------------------------
(***************************************************************************)
(* How the experiment (ml/run_experiment.py, ml/evaluate.py) judges a      *)
(* model at a gauge.  A frame is a sequence with a row for every hour: was *)
(* there a flood of any kind, and the model's score.  This module has no   *)
(* state; Evaluation applies it to its behaviours.                         *)
(***************************************************************************)
EXTENDS Integers, Sequences, FiniteSetsExt

CONSTANTS
  Lookback,     \* hours before an onset in which a warning counts: 24
  Horizon,      \* hours ahead that the target asks about: 6
  TrainShare, ValShare   \* where the splits end, in percent: 70 and 85

ASSUME ExperimentAssumption ==
  /\ {Lookback, Horizon} \subseteq Nat \ {0}
  /\ {TrainShare, ValShare} \subseteq 0..99 /\ TrainShare <= ValShare

-----------------------------------------------------------------------------
(* The floods (episode_table of ml/simulator.py) and the splits.           *)

Flooding(frame, h) == h \in DOMAIN frame /\ frame[h].flood
Onsets(frame) == {h \in DOMAIN frame : Flooding(frame, h) /\ ~Flooding(frame, h - 1)}

\* From the onset to the last hour of the same flood.
Episodes(frame) ==
  {[onset |-> h, end |-> Min({g \in DOMAIN frame : g >= h /\ ~Flooding(frame, g + 1)})]
     : h \in Onsets(frame)}

\* temporal_split: the first hour of the next split.
TrainEnd(frame) == (Len(frame) * TrainShare) \div 100 + 1
ValEnd(frame) == (Len(frame) * ValShare) \div 100 + 1
Validation(frame) == TrainEnd(frame)..(ValEnd(frame) - 1)
Test(frame) == ValEnd(frame)..Len(frame)

\* y_any_6h, and the hours that have it: the last ones have none, and their
\* rows are left out.
Positive(frame, h) == \E g \in (h + 1)..(h + Horizon) : Flooding(frame, g)
Usable(frame, hours) ==
  {h \in hours : h < Len(frame) /\ h + Horizon - 1 <= Len(frame)}

-----------------------------------------------------------------------------
(* classification_metrics and choose_threshold.                            *)

Counts(frame, hours, threshold) ==
  LET warned == {h \in hours : frame[h].score >= threshold}
      flooded == {h \in hours : Positive(frame, h)}
  IN  [tp |-> Cardinality(warned \cap flooded),
       fp |-> Cardinality(warned \ flooded),
       fn |-> Cardinality(flooded \ warned),
       tn |-> Cardinality(hours \ (warned \cup flooded))]

\* The F-score with beta = 1, 2 tp / (2 tp + fp + fn), is no less than another.
NoWorse(a, b) == 2 * a.tp * (2 * b.tp + b.fp + b.fn) >= 2 * b.tp * (2 * a.tp + a.fp + a.fn)

\* The first threshold with the best F-score; thresholds are the scores there
\* are, in ascending order.  Without a flood in these hours every F-score is
\* zero, and the lowest score is the threshold: every hour is warned of.
BestScore(frame, hours) ==
  LET scores == {frame[h].score : h \in hours}
  IN  Min({t \in scores : \A u \in scores :
             NoWorse(Counts(frame, hours, t), Counts(frame, hours, u))})

\* Slip: the operating point is chosen on all hours not trained on.
PointOfHeldOut(frame) == BestScore(frame, Usable(frame, Validation(frame) \cup Test(frame)))

\* "Operating point chosen on VALIDATION, applied unchanged to TEST".
OperatingPoint(frame) == BestScore(frame, Usable(frame, Validation(frame)))

-----------------------------------------------------------------------------
(* lead_times, over the rows of some hours.                                *)

Window(hours, onset) == {h \in hours : onset - Lookback <= h /\ h < onset}

\* Slip: the rows are walked from the onset's own on.
HoldsFromOnset(frame, hours, threshold, onset, since) ==
  \A h \in {g \in hours : since < g /\ g <= onset} : frame[h].score >= threshold

\* From this row on, every row before the onset is warned of.
Holds(frame, hours, threshold, onset, since) ==
  \A h \in {g \in hours : since <= g /\ g < onset} : frame[h].score >= threshold

\* How many rows the warning held; an hour that has no row is not missed.
HeldLead(frame, hours, threshold, onset) ==
  Cardinality({h \in Window(hours, onset) : Holds(frame, hours, threshold, onset, h)})

\* The table of the test split: an episode has a row if any hour before it has.
LeadTimes(frame) ==
  LET hours == Usable(frame, Test(frame))
      judged == {e \in Episodes(frame) : e.onset \in Test(frame)}
  IN  {[onset |-> e.onset, lead |-> HeldLead(frame, hours, OperatingPoint(frame), e.onset)]
         : e \in {d \in judged : Window(hours, d.onset) # {}}}
=============================================================================
