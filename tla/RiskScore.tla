----------------------------- MODULE RiskScore -----------------------------
(***************************************************************************)
(* The rule engine (risk.py, RulesV1Engine and its sub-scores) over the    *)
(* inputs of one region as they change: the nearest gauge, its readings,   *)
(* the rain, and the answers of the people there.                          *)
(*                                                                         *)
(* Levels are in centimetres, rain in millimetres, distances in            *)
(* kilometres.  The code's doubles are integers here: sub-scores and the   *)
(* fused score count millionths and are rounded down, a stored score       *)
(* counts ten-thousandths.                                                 *)
(***************************************************************************)
EXTENDS Integers

CONSTANTS
  Stations,     \* the gauges that may be the nearest one, as in Station
  Readings,     \* water levels
  Rises,        \* what earlier readings make of the rise in three hours
  Rains,        \* 24 h sums, of the grid and of the gauge
  Forecasts,    \* 6 h sums
  People,       \* bound: participants in the region
  None          \* no value

CrowdFloor == 5        \* crowd_min_respondents
YesRatio == 7500       \* crowd_yes_ratio
WeightGauge == 45
WeightRainfall == 35
WeightCrowd == 20
Mil == 1000           \* a thousandth of a score, in millionths
ScoreLow == 300 * Mil
ScoreModerate == 500 * Mil
ScoreHigh == 750 * Mil
RainHeavy == 75
RainVeryHeavy == 150
One == 1000 * Mil

Level == Int \cup {None}

\* Every published level is optional: the list of stations may lack it.
Station == [km : 0..25, alert : Level, minor : Level, major : Level]

ASSUME InputAssumption ==
  /\ None \notin Int
  /\ Stations \subseteq Station \ {None}
  /\ Readings \subseteq Int /\ Rises \subseteq Int
  /\ Rains \subseteq Nat /\ Forecasts \subseteq Nat
  /\ People \in Nat

VARIABLE ctx    \* RegionContext

Init ==
  \E s \in Stations \cup {None} :
    ctx = [station |-> s, level |-> None, rise |-> None, gaugeRain |-> 0,
           gridRain |-> 0, forecast |-> 0, yes |-> 0, no |-> 0]

-----------------------------------------------------------------------------
(* What changes the inputs.                                                *)

\* A reading comes in; with one that is three hours older there is a rise.
Reading ==
  /\ ctx.station # None
  /\ \E l \in Readings, r \in Rises \cup {None}, g \in Rains :
       ctx' = [ctx EXCEPT !.level = l, !.rise = r, !.gaugeRain = g]

\* Twelve hours without a reading; the rain it reported counts for longer.
Silence ==
  /\ ctx.level # None \/ ctx.gaugeRain # 0
  /\ \E g \in {0, ctx.gaugeRain} :
       ctx' = [ctx EXCEPT !.level = None, !.rise = None, !.gaugeRain = g]

\* The levels of the station are published anew.
StationRefreshed ==
  \E s \in Stations :
    /\ ctx.station # None /\ s.km = ctx.station.km
    /\ ctx' = [ctx EXCEPT !.station = s]

RainFetched ==
  \E o \in Rains, f \in Forecasts :
    ctx' = [ctx EXCEPT !.gridRain = o, !.forecast = f]

Counts(yes, no) == ctx' = [ctx EXCEPT !.yes = yes, !.no = no]

\* Somebody answers, and the latest answer of a participant counts.
Answer ==
  \/ /\ ctx.yes + ctx.no < People
     /\ Counts(ctx.yes + 1, ctx.no) \/ Counts(ctx.yes, ctx.no + 1)
  \/ ctx.no > 0 /\ Counts(ctx.yes + 1, ctx.no - 1)
  \/ ctx.yes > 0 /\ Counts(ctx.yes - 1, ctx.no + 1)

\* An answer is an hour old.
Lapse ==
  \/ ctx.yes > 0 /\ Counts(ctx.yes - 1, ctx.no)
  \/ ctx.no > 0 /\ Counts(ctx.yes, ctx.no - 1)

Next == Reading \/ Silence \/ StationRefreshed \/ RainFetched \/ Answer \/ Lapse

Spec == Init /\ [][Next]_ctx

-----------------------------------------------------------------------------
(* The context's derived fields.                                           *)

Smaller(a, b) == IF a < b THEN a ELSE b
Larger(a, b) == IF a < b THEN b ELSE a
Clip(x) == Larger(0, Smaller(One, x))

\* yes_ratio, rounded to four places.
Ratio(c) == (20000 * c.yes + c.yes + c.no) \div (2 * (c.yes + c.no))

\* crowd_floor_met.
FloorMet(c) == c.yes + c.no >= CrowdFloor

\* A gauge nearer than 10 km overrides the grid when it has more; a distance
\* of 0 is taken for none.
Rain24h(c) ==
  IF c.station # None /\ c.station.km \in 1..9 THEN Larger(c.gridRain, c.gaugeRain) ELSE c.gridRain

-----------------------------------------------------------------------------
(* Sub-scores.                                                             *)

\* "x or y": a level that is missing or zero.
Or(x, y) == IF x \in {None, 0} THEN y ELSE x

Minor(s) == Or(s.minor, (s.alert * 11) \div 10)
Major(s) == Or(s.major, (Minor(s) * 23) \div 20)

\* The water level against the station's flood levels.
LevelBase(s, level) ==
  CASE level >= Major(s) -> One
    [] level < Major(s) /\ level >= Minor(s) ->
         750 * Mil + (250 * Mil * (level - Minor(s))) \div Larger(1, Major(s) - Minor(s))
    [] level < Major(s) /\ level < Minor(s) /\ level >= s.alert ->
         500 * Mil + (250 * Mil * (level - s.alert)) \div Larger(1, Minor(s) - s.alert)
    [] OTHER -> Clip((One * Larger(0, level)) \div s.alert) \div 2

\* Capped at +0.15.
RiseBonus(c) == IF c.rise = None THEN 0 ELSE 1500 * Larger(0, Smaller(100, c.rise))

\* Slip: the sum of level and rise is not clipped.
UnclippedSubscore(c) ==
  IF c.level = None \/ c.station.alert = None \/ c.station.alert <= 0 THEN None
  ELSE LevelBase(c.station, c.level) + RiseBonus(c)

\* gauge_subscore, less sure with the distance.
GaugeSubscore(c) ==
  IF c.level = None \/ c.station.alert = None \/ c.station.alert <= 0 THEN None
  ELSE LET base == LevelBase(c.station, c.level) + RiseBonus(c)
       IN  Clip(IF c.station.km > 10 THEN (base * Larger(15, 40 - c.station.km)) \div 30 ELSE base)

\* rainfall_subscore: the forecast at half weight.
RainfallSubscore(c) ==
  LET mm == Rain24h(c)
      base == CASE mm >= RainVeryHeavy -> One
                [] mm < RainVeryHeavy /\ mm >= RainHeavy ->
                     600 * Mil + (400 * Mil * (mm - RainHeavy)) \div (RainVeryHeavy - RainHeavy)
                [] OTHER -> (600 * Mil * mm) \div RainHeavy
  IN  Clip(Larger(base, (base * 8) \div 10 + 10000 * Smaller(50, c.forecast)))

\* crowd_subscore.
CrowdSubscore(c) ==
  IF FloorMet(c) THEN Clip((Ratio(c) - 5000) * 200) ELSE None

-----------------------------------------------------------------------------
(* RulesV1Engine.score.                                                    *)

Term(x, weight) == IF x = None THEN 0 ELSE x * weight
Share(x, weight) == IF x = None THEN 0 ELSE weight

\* The weighted mean of the inputs there are.
Fused(c) ==
  (RainfallSubscore(c) * WeightRainfall
     + Term(GaugeSubscore(c), WeightGauge) + Term(CrowdSubscore(c), WeightCrowd))
  \div (WeightRainfall + Share(GaugeSubscore(c), WeightGauge) + Share(CrowdSubscore(c), WeightCrowd))

AboveMajor(c) ==
  /\ c.level # None /\ c.station.major # None
  /\ c.level >= c.station.major

\* The stronger of the two measurements.
Physical(c) == Larger(RainfallSubscore(c), IF GaugeSubscore(c) = None THEN 0 ELSE GaugeSubscore(c))

CrowdAgrees(c) == CrowdSubscore(c) # None /\ Ratio(c) >= YesRatio
CrowdConfirms(c) == CrowdAgrees(c) /\ Physical(c) >= 350 * Mil

\* Slip: a level above the major flood level fixes the score.
OverrideFixes(c, score) == IF AboveMajor(c) THEN 900 * Mil ELSE score

\* Slip: there is no such override.
NoOverride(c, score) == score

\* The first override.
MajorOverride(c, score) == IF AboveMajor(c) THEN Larger(score, 900 * Mil) ELSE score

\* The crowd's agreement, and the cap without a physical signal.
Score(c) ==
  LET major == MajorOverride(c, Fused(c))
      confirmed == IF CrowdConfirms(c) THEN Clip(major + 100 * Mil) ELSE major
  IN  IF Physical(c) < ScoreLow THEN Smaller(confirmed, ScoreLow - 100) ELSE confirmed

\* _severity_for.
SeverityFor(score) ==
  CASE score >= ScoreHigh -> "high"
    [] score >= ScoreModerate /\ score < ScoreHigh -> "moderate"
    [] score >= ScoreLow /\ score < ScoreModerate -> "low"
    [] OTHER -> "none"

\* Slip: the severity is that of the score before the crowd's bonus and the cap.
ResultBeforeCap(c) ==
  [score |-> (Clip(Score(c)) + 50) \div 100, severity |-> SeverityFor(MajorOverride(c, Fused(c)))]

\* RiskScore: the severity goes by the score before it is rounded.
Result(c) ==
  [score |-> (Clip(Score(c)) + 50) \div 100, severity |-> SeverityFor(Score(c))]

\* RainfallOnlyEngine: the baseline that is scored with it.
RainfallOnly(c) ==
  [score |-> (RainfallSubscore(c) + 50) \div 100, severity |-> SeverityFor(RainfallSubscore(c))]

\* gauges (admin.py): what the dashboard says of the gauge, for as long as its
\* latest reading is one the region's score uses.
GaugeState(c) ==
  LET reaches(level) == level \notin {None, 0} /\ c.level >= level
  IN  CASE c.level = None -> "unknown"
        [] c.level # None /\ reaches(c.station.major) -> "major"
        [] c.level # None /\ ~reaches(c.station.major) /\ reaches(c.station.minor) -> "minor"
        [] c.level # None /\ ~reaches(c.station.major) /\ ~reaches(c.station.minor)
             /\ reaches(c.station.alert) -> "alert"
        [] OTHER -> "normal"

-----------------------------------------------------------------------------
(* What the code promises.                                                 *)

IsShare(x) == x \in Int /\ 0 <= x /\ x <= One

Context ==
  [station : Stations \cup {None}, level : Readings \cup {None}, rise : Rises \cup {None},
   gaugeRain : Rains \cup {0}, gridRain : Rains \cup {0}, forecast : Forecasts \cup {0},
   yes : 0..People, no : 0..People]

\* Inputs and scores are in their ranges, and a level is a station's
\* (RegionContext, _clip).
TypeOK ==
  /\ ctx \in Context
  /\ ctx.yes + ctx.no <= People
  /\ ctx.level # None => ctx.station # None
  /\ \A x \in {GaugeSubscore(ctx), CrowdSubscore(ctx), RainfallSubscore(ctx)} : x = None \/ IsShare(x)
  /\ Result(ctx).score \in 0..10000

\* The same region with one thing worse: higher water, a faster rise, more
\* rain here or forecast, or a "no" that had been a "yes".
Worse(c) ==
  {[c EXCEPT !.level = l] : l \in IF c.level = None THEN {} ELSE {x \in Readings : x >= c.level}}
  \cup {[c EXCEPT !.rise = r] : r \in IF c.rise = None THEN {} ELSE {x \in Rises : x >= c.rise}}
  \cup {[c EXCEPT !.gridRain = o] : o \in {x \in Rains : x >= c.gridRain}}
  \cup {[c EXCEPT !.gaugeRain = g] : g \in {x \in Rains : x >= c.gaugeRain}}
  \cup {[c EXCEPT !.forecast = f] : f \in {x \in Forecasts : x >= c.forecast}}
  \cup {[c EXCEPT !.yes = @ + 1, !.no = @ - 1] : x \in {0} \cap (0..c.no - 1)}

\* No input that gets worse makes the score fall, whichever override or cap
\* comes or goes with it; and where the grid's rain is all there is, the score
\* is the baseline's, so that what separates the two engines elsewhere is what
\* the gauge and the crowd add (RulesV1Engine.score, gauge_subscore;
\* RainfallOnlyEngine: "on identical inputs").
WorseNeverScoresLower ==
  /\ \A c \in Worse(ctx) : Score(c) >= Score(ctx)
  /\ GaugeSubscore(ctx) = None /\ CrowdSubscore(ctx) = None /\ ~AboveMajor(ctx) =>
       /\ Result(ctx).severity = RainfallOnly(ctx).severity
       /\ RainfallOnly(ctx).score - Result(ctx).score \in {0, 1}

\* A gauge the dashboard shows above its major flood level makes the region
\* "high" and its score at least 0.9, however far the gauge, dry the sky and
\* contrary the crowd; and one that it shows above a lower level weighs at
\* least half, within 10 km.  Both when the station has an alert level, without
\* which the engine does not use it (RulesV1Engine.score, its overrides;
\* gauge_subscore; admin.py, gauges).
MajorFloodIsHigh ==
  GaugeSubscore(ctx) # None =>
    /\ GaugeState(ctx) = "major" =>
         Result(ctx).severity = "high" /\ Result(ctx).score >= 9000
    /\ GaugeState(ctx) \in {"alert", "minor"} /\ ctx.station.km <= 10 =>
         GaugeSubscore(ctx) >= 500 * Mil

\* The severity is the stored score's, or that of a score one ten-thousandth
\* less: what AlertLifecycle assumes of the engine's results (Bands).  The
\* baseline's too.
ResultsFitBands ==
  \A result \in {Result(ctx), RainfallOnly(ctx)} :
    result.severity \in {SeverityFor(100 * s) : s \in {result.score, result.score - 1}}

=============================================================================
