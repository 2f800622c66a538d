---------------------------- MODULE StationHours ----------------------------
(***************************************************************************)
(* The hourly panel of a gauge, and the labels over it: the data set       *)
(* builder (scripts/build_dataset.py) and the experiment (ml/features.py). *)
(* Both are functions of the readings; this module has no state.           *)
(*                                                                         *)
(* A reading is a record with the slot it was published in, `at`, and its  *)
(* level and rain.  A value that may be missing (NaN) is a set: empty, or  *)
(* with the one value in it, so that a formula over missing values has a   *)
(* missing result.  A series maps every hour of an interval to such a set. *)
(***************************************************************************)
EXTENDS Integers, FiniteSetsExt

CONSTANTS
  Stations,     \* the gauges
  Measures,     \* what a reading may hold: records of a level and rain
  Gaps,         \* slots between one reading and the next
  PerHour,      \* slots in an hour
  Thresholds,   \* a gauge's alert, minor and major levels
  Horizons      \* HORIZONS, in hours

ASSUME PanelAssumption ==
  /\ PerHour \in Nat \ {0}
  /\ Thresholds \subseteq Nat
  /\ Horizons \subseteq Nat \ {0} /\ Gaps \subseteq Nat \ {0}
  /\ \A m \in Measures : m.level \cup m.rain \subseteq Nat
  /\ \A m \in Measures : \A x, y \in m.level : x = y
  /\ \A m \in Measures : \A x, y \in m.rain : x = y

\* ffill(limit=3): for so many hours a reading stands in for missing ones.
CarryLimit == 3

Missing == {}
Difference(A, B) == {x - y : x \in A, y \in B}
Top(values) == IF values = {} THEN Missing ELSE {Max(values)}

-----------------------------------------------------------------------------
(* build_station_hours: from readings to one row per hour.                 *)

HourOf(slot) == slot \div PerHour
FirstHour(rows) == HourOf(Min({r.at : r \in rows}))
LastHour(rows) == HourOf(Max({r.at : r \in rows}) + PerHour - 1)
Hours(rows) == IF rows = {} THEN {} ELSE FirstHour(rows)..LastHour(rows)

\* The last observation in the hour.
Observed(rows, h) ==
  LET seen == {r \in rows : HourOf(r.at) = h /\ r.level # Missing}
  IN  UNION {r.level : r \in {s \in seen : \A t \in seen : t.at <= s.at}}

\* How many hours back the last hour with an observation is.
SinceObserved(rows, h) ==
  {h - g : g \in {g \in Hours(rows) : g <= h /\ Observed(rows, g) # Missing}}

\* Slip: the observation of the hour before a gap stands for all of the gap.
CarriedOn(rows, h) ==
  LET back == SinceObserved(rows, h)
  IN  IF back = {} THEN Missing ELSE Observed(rows, h - Min(back))

Carried(rows, h) ==
  LET back == {n \in SinceObserved(rows, h) : n <= CarryLimit}
  IN  IF back = {} THEN Missing ELSE Observed(rows, h - Min(back))

\* The column water_level_m, over the hours of the panel or some of them.
LevelsOn(rows, hours) == [h \in hours |-> Carried(rows, h)]
Levels(rows) == LevelsOn(rows, Hours(rows))

-----------------------------------------------------------------------------
(* What both pipelines compute over a series s.                            *)

At(s, h) == IF h \in DOMAIN s THEN s[h] ELSE Missing
Within(s, hours) == {h \in hours \cap DOMAIN s : s[h] # Missing}
Values(s, hours) == UNION {s[h] : h \in Within(s, hours)}
Before(h, w) == (h - w + 1)..h

-----------------------------------------------------------------------------
(* _add_labels and add_labels.                                             *)

\* Slip: the window is an hour too long.
FutureMaxLate(s, h, horizon) ==
  IF h + horizon - 1 \in DOMAIN s THEN Top(Values(s, (h + 1)..(h + horizon + 1)))
  ELSE Missing

\* shift(-1).rolling(horizon, min_periods=1).max().shift(-(horizon - 1)): the
\* last hour that has a label looks at one hour less than the horizon.
FutureMax(s, h, horizon) ==
  IF h + horizon - 1 \in DOMAIN s THEN Top(Values(s, (h + 1)..(h + horizon)))
  ELSE Missing

\* y_<threshold>_<horizon>h.
Label(s, h, horizon, threshold) ==
  {x >= threshold : x \in FutureMax(s, h, horizon)}

\* y_rise_<horizon>h.
Rise(s, h, horizon) == Difference(FutureMax(s, h, horizon), At(s, h))
=============================================================================
