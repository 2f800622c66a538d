----------------------------- MODULE Evaluation -----------------------------
(***************************************************************************)
(* Scoring the warnings against the floods there were: app/evaluation.py   *)
(* over the stored snapshots of a region and the flood events an operator  *)
(* enters, beside the experiment's own judgement of the same warnings.     *)
(* A step is a slot of time in which a pass may store a snapshot.          *)
(***************************************************************************)
EXTENDS Experiment

CONSTANTS
  SlotsPerHour, \* slots in an hour
  OpenHours,    \* hours an event without an end lasts: 24
  Severities,   \* ranks of a severity; 0: none
  Sinces,       \* where the window of the evaluation may begin
  LastSlot,     \* bound: slots in a behaviour
  None

ASSUME EvaluationAssumption ==
  /\ {SlotsPerHour, OpenHours} \subseteq Nat \ {0}
  /\ Severities \subseteq Nat /\ 0 \in Severities /\ IsFiniteSet(Severities)
  /\ LastSlot \in Nat /\ Sinces \subseteq Nat
  /\ None \notin Severities

VARIABLE
  slots   \* what happened so far: was there a flood, and the snapshot's severity

Floors == Severities \ {0}

Init == slots = <<>>

\* evaluate_all stores a snapshot of the region, unless the pass did not run.
Slot(flood, severity) ==
  /\ Len(slots) < LastSlot
  /\ slots' = Append(slots, [flood |-> flood, severity |-> severity])

Done == Len(slots) = LastSlot /\ UNCHANGED slots

Next ==
  \/ \E flood \in BOOLEAN, severity \in Severities \cup {None} : Slot(flood, severity)
  \/ Done

Spec == Init /\ [][Next]_slots

-----------------------------------------------------------------------------
(* flood_events: entered by hand, a row for each flood; one that goes on   *)
(* has no end yet.                                                         *)

Events == Onsets(slots)
EndOf(onset) ==
  LET after == {i \in DOMAIN slots : i > onset /\ ~Flooding(slots, i)}
  IN  IF after = {} THEN onset + OpenHours * SlotsPerHour ELSE Min(after)

-----------------------------------------------------------------------------
(* metrics_for_engine.  An hour is named by its first slot; slot 1 is the  *)
(* first of its hour.                                                      *)

\* Slip: the nearest full hour.
HourRounded(i) == ((i - 1 + SlotsPerHour \div 2) \div SlotsPerHour) * SlotsPerHour + 1

HourStart(i) == ((i - 1) \div SlotsPerHour) * SlotsPerHour + 1

Snapshots(since) == {i \in DOMAIN slots : slots[i].severity # None /\ i >= since}

\* The hours with a snapshot, and those whose strongest one reaches the floor.
RegionHours(since) == {HourStart(i) : i \in Snapshots(since)}
WarnedHours(since, floor) ==
  {HourStart(i) : i \in {j \in Snapshots(since) : slots[j].severity >= floor}}

IsFlood(hour) == \E onset \in Events : onset <= hour /\ hour < EndOf(onset)

Confusion(since, floor) ==
  LET warned == WarnedHours(since, floor)
      calm == RegionHours(since) \ warned
      flooded == {h \in RegionHours(since) : IsFlood(h)}
      wet(hours) == Cardinality(hours \cap flooded)
  IN  [tp |-> wet(warned), fp |-> Cardinality(warned) - wet(warned),
       fn |-> wet(calm),   tn |-> Cardinality(calm) - wet(calm)]

Hits(since, floor, onset) ==
  {h \in WarnedHours(since, floor) : onset - Lookback * SlotsPerHour <= h /\ h <= onset}

\* Slip: the last warning before the onset.
LeadOfLast(since, floor, onset) == onset - Max(Hits(since, floor, onset))

Lead(since, floor, onset) == onset - Min(Hits(since, floor, onset))

\* The events the window of the evaluation has, and those that were warned of.
Judged(since) == {onset \in Events : since <= onset}
Detected(since, floor) == {e \in Judged(since) : Hits(since, floor, e) # {}}

-----------------------------------------------------------------------------
(* What happened, as frames of the experiment.                             *)

Strongest(indices) ==
  Max({0} \cup {slots[i].severity : i \in {j \in indices : slots[j].severity # None}})

\* Every slot an hour.
BySlot == [i \in DOMAIN slots |-> [flood |-> slots[i].flood, score |-> Strongest({i})]]

HourIndex(i) == (i - 1) \div SlotsPerHour + 1
ByHour ==
  [k \in {HourIndex(i) : i \in DOMAIN slots} |->
     LET inHour == {i \in DOMAIN slots : HourIndex(i) = k}
     IN  [flood |-> \E i \in inHour : slots[i].flood, score |-> Strongest(inHour)]]

-----------------------------------------------------------------------------
(* Properties.                                                             *)

\* The lead time that is reported for an event is that of its first warning,
\* rounded up by less than an hour: the hour is what is compared, not the
\* snapshot.  So an event may count as detected by a warning that came after
\* its onset, but by one in the same hour only (evaluation.py: "minutes
\* between the FIRST positive prediction within the 24h before onset and the
\* onset").
LeadWithinAnHour ==
  \A since \in Sinces, floor \in Floors :
    \A onset \in Detected(since, floor) :
      \E i \in Snapshots(since) :
        /\ slots[i].severity >= floor
        /\ \A j \in Snapshots(since) :
             slots[j].severity >= floor /\ HourStart(j) >= onset - Lookback * SlotsPerHour => i <= j
        /\ Lead(since, floor, onset) - (onset - i) \in 0..(SlotsPerHour - 1)

\* A floor of a milder severity, on the same snapshots, never misses more
\* flooded hours, never misses an event the stricter one has, and never gives
\* it a shorter lead (compare: "on identical inputs").
MilderFloorCatchesMore ==
  \A since \in Sinces, mild, strict \in Floors :
    mild < strict =>
      /\ \A more \in {Confusion(since, mild)}, less \in {Confusion(since, strict)} :
           more.tp >= less.tp /\ more.fn <= less.fn
      /\ \A onset \in Detected(since, strict) :
           /\ onset \in Detected(since, mild)
           /\ Lead(since, mild, onset) >= Lead(since, strict, onset)

\* No threshold at all, whether some hour has it for a score or not, has a
\* better F-score on the validation hours than the chosen one, and nothing later
\* than the last of their labels has a part in the choice: with the rest of the
\* test split taken away it is the same (run_experiment.py: "Operating point
\* chosen on VALIDATION").
PointIsOfValidation ==
  LET frame == BySlot
      hours == Usable(frame, Validation(frame))
      known == SubSeq(frame, 1, Min({Len(frame), ValEnd(frame) - 1 + Horizon}))
  IN  hours # {} =>
        /\ \A best \in {Counts(frame, hours, OperatingPoint(frame))} :
             \A t \in 0..(Max(Severities) + 1) : NoWorse(best, Counts(frame, hours, t))
        /\ OperatingPoint(frame) = BestScore(known, hours)

\* The experiment's lead, which asks that the warning held until the onset, is
\* never an hour or more above the backend's, which takes the first warning:
\* the two pipelines' figures are comparable (ml/evaluate.py: "The continuity
\* condition matters").  In the experiment's own table a lead is at most that
\* of the first warning among the rows it has.
HeldLeadIsNoLonger ==
  LET hourly == ByHour
      frame == BySlot
  IN  /\ \A floor \in Floors, onset \in Events :
           LET held == HeldLead(hourly, DOMAIN hourly, floor, HourIndex(onset))
           IN  held > 0 =>
                 /\ onset \in Detected(1, floor)
                 /\ Lead(1, floor, onset) > (held - 1) * SlotsPerHour
      /\ Usable(frame, Validation(frame)) # {} =>
           \A row \in LeadTimes(frame) : row.lead > 0 =>
             \E h \in Window(Test(frame), row.onset) :
               /\ frame[h].score >= OperatingPoint(frame)
               /\ row.lead <= row.onset - h
=============================================================================
