-------------------------- MODULE RiskScoreProofs --------------------------
(***************************************************************************)
(* What the rule engine's scores are for every gauge, reading, rain and    *)
(* number of participants, not only for the inputs TLC goes through.       *)
(* Leaves with arithmetic name SMT: Zenon would write 1000000 out in full. *)
(***************************************************************************)
EXTENDS RiskScore, TLAPS

-----------------------------------------------------------------------------
(* The inputs.                                                             *)

InputsOK ==
  /\ ctx \in Context
  /\ ctx.yes + ctx.no <= People
  /\ ctx.level # None => ctx.station # None

LEMMA InputsInit == Init => InputsOK
BY InputAssumption DEF Init, InputsOK, Context

\* Answers change nothing but their two numbers.
LEMMA CountsKept ==
  ASSUME InputsOK, NEW y \in 0..People, NEW n \in 0..People, y + n <= People, Counts(y, n)
  PROVE  InputsOK'
BY DEF Counts, InputsOK, Context

LEMMA InputsStep ==
  ASSUME InputsOK, [Next]_ctx
  PROVE  InputsOK'
<1> USE DEF InputsOK
<1>1. CASE Reading
  BY <1>1 DEF Reading, Context
<1>2. CASE Silence
  BY <1>2 DEF Silence, Context
<1>3. CASE StationRefreshed
  <2>1. PICK s \in Stations : ctx.station # None /\ ctx' = [ctx EXCEPT !.station = s]
    BY <1>3 DEF StationRefreshed
  <2>2. ctx.station \in Stations
    BY <2>1 DEF Context
  <2>3. s # None
    BY InputAssumption
  <2>4. ctx' \in Context /\ ctx'.station = s /\ ctx'.yes = ctx.yes /\ ctx'.no = ctx.no
    BY <2>1 DEF Context
  <2>5. QED
    BY <2>3, <2>4
<1>4. CASE RainFetched
  BY <1>4 DEF RainFetched, Context
<1>5. CASE Answer \/ Lapse
  <2>1. ctx.yes \in 0..People /\ ctx.no \in 0..People /\ People \in Nat
    BY InputAssumption DEF Context
  <2>2. PICK y \in 0..People, n \in 0..People : y + n <= People /\ Counts(y, n)
    BY <1>5, <2>1 DEF Answer, Lapse
  <2>3. QED
    BY <2>2, CountsKept
<1>6. CASE UNCHANGED ctx
  BY <1>6
<1>7. QED
  BY <1>1, <1>2, <1>3, <1>4, <1>5, <1>6 DEF Next

-----------------------------------------------------------------------------
(* Sub-scores.                                                             *)

USE DEF CrowdFloor, YesRatio, WeightGauge, WeightRainfall, WeightCrowd, ScoreLow,
        ScoreModerate, ScoreHigh, RainHeavy, RainVeryHeavy, Mil, One, IsShare

LEMMA ClipRange ==
  ASSUME NEW x \in Int
  PROVE  /\ IsShare(Clip(x))
         /\ x >= 0 /\ x <= One => Clip(x) = x
         /\ x >= One => Clip(x) = One
BY SMT DEF Clip, Larger, Smaller

\* The inputs of one evaluation.
Sound(c) == c \in Context /\ (c.level # None => c.station # None)

\* A gauge that counts: it has a level and an alert level.
Gauged(c) == ~(c.level = None \/ c.station.alert = None \/ c.station.alert <= 0)

LEMMA GaugedTypes ==
  ASSUME NEW c, Sound(c), Gauged(c)
  PROVE  /\ c.station \in Station /\ c.level \in Int
         /\ c.station.alert \in Int /\ c.station.alert > 0
<1>1. /\ c.station \in Stations \cup {None} /\ c.station # None
      /\ c.level \in Readings \cup {None} /\ c.level # None
  BY DEF Sound, Gauged, Context
<1>2. c.station \in Station /\ c.level \in Int
  BY <1>1, InputAssumption
<1>3. c.station.alert \in Int \cup {None}
  BY <1>2 DEF Station, Level
<1>4. QED
  BY <1>1, <1>2, <1>3, SMT DEF Gauged

LEMMA FloodLevels ==
  ASSUME NEW s \in Station, s.alert \in Int
  PROVE  /\ Minor(s) \in Int /\ Major(s) \in Int
         /\ s.major \notin {None, 0} => s.major \in Int /\ Major(s) = s.major
         /\ s.minor \notin {None, 0} => s.minor \in Int /\ Minor(s) = s.minor
BY SMT, InputAssumption DEF Station, Level, Minor, Major, Or

LEMMA LevelBaseType ==
  ASSUME NEW s \in Station, s.alert \in Int, s.alert > 0, NEW level \in Int
  PROVE  /\ LevelBase(s, level) \in Int
         /\ level >= Major(s) => LevelBase(s, level) = One
<1> DEFINE mi == Minor(s)
           ma == Major(s)
<1>1. mi \in Int /\ ma \in Int
  BY SMT, FloodLevels
<1>2. /\ Larger(1, ma - mi) \in Int /\ Larger(1, ma - mi) > 0
      /\ Larger(1, mi - s.alert) \in Int /\ Larger(1, mi - s.alert) > 0
      /\ Larger(0, level) \in Int
  BY SMT, <1>1 DEF Larger
<1>3. (One * Larger(0, level)) \div s.alert \in Int
  BY SMT, <1>2
<1>4. Clip((One * Larger(0, level)) \div s.alert) \div 2 \in Int
  BY SMT, <1>3, ClipRange
<1>5. /\ (250 * Mil * (level - mi)) \div Larger(1, ma - mi) \in Int
      /\ (250 * Mil * (level - s.alert)) \div Larger(1, mi - s.alert) \in Int
  BY SMT, <1>1, <1>2
<1>6. level >= ma => LevelBase(s, level) = One
  BY SMT, <1>1 DEF LevelBase
<1>7. LevelBase(s, level) \in Int
  <2>1. CASE level >= ma
    BY SMT, <1>6, <2>1
  <2>2. CASE level < ma /\ level >= mi
    BY SMT, <1>1, <1>5, <2>2 DEF LevelBase
  <2>3. CASE level < ma /\ level < mi /\ level >= s.alert
    BY SMT, <1>1, <1>5, <2>3 DEF LevelBase
  <2>4. CASE level < ma /\ level < mi /\ level < s.alert
    BY SMT, <1>1, <1>4, <2>4 DEF LevelBase
  <2>5. QED
    BY SMT, <1>1, <2>1, <2>2, <2>3, <2>4
<1>8. QED
  BY SMT, <1>6, <1>7

\* A level that reaches the alert level, or the minor flood level, weighs half.
LEMMA LevelBaseAtLeast ==
  ASSUME NEW s \in Station, s.alert \in Int, s.alert > 0, NEW level \in Int,
         level >= s.alert \/ level >= Minor(s)
  PROVE  LevelBase(s, level) >= 500 * Mil
<1> DEFINE mi == Minor(s)
           ma == Major(s)
<1>1. mi \in Int /\ ma \in Int
  BY SMT, FloodLevels
<1>2. PICK a \in Int, b \in Int : /\ a > 0 /\ a = Larger(1, ma - mi)
                                  /\ b > 0 /\ b = Larger(1, mi - s.alert)
  BY SMT, <1>1 DEF Larger
<1>3. CASE level >= ma
  BY SMT, <1>3, LevelBaseType
<1>4. CASE level < ma /\ level >= mi
  <2>1. PICK x \in Nat : x = level - mi
    BY SMT, <1>1, <1>4
  <2>2. (250 * Mil * x) \div a >= 0
    BY SMT, <1>2
  <2>3. LevelBase(s, level) = 750 * Mil + (250 * Mil * x) \div a
    BY SMT, <1>1, <1>2, <1>4, <2>1 DEF LevelBase
  <2>4. QED
    BY SMT, <1>2, <2>1, <2>2, <2>3
<1>5. CASE level < ma /\ level < mi
  <2>1. PICK x \in Nat : x = level - s.alert
    BY SMT, <1>1, <1>5
  <2>2. (250 * Mil * x) \div b >= 0
    BY SMT, <1>2
  <2>3. LevelBase(s, level) = 500 * Mil + (250 * Mil * x) \div b
    BY SMT, <1>1, <1>2, <1>5, <2>1 DEF LevelBase
  <2>4. QED
    BY SMT, <1>2, <2>1, <2>2, <2>3
<1>6. QED
  BY SMT, <1>1, <1>3, <1>4, <1>5

LEMMA RiseBonusType ==
  ASSUME NEW c, Sound(c)
  PROVE  RiseBonus(c) \in Nat
<1>1. c.rise \in Rises \cup {None}
  BY DEF Sound, Context
<1>2. c.rise = None \/ c.rise \in Int
  BY <1>1, InputAssumption
<1>3. QED
  BY SMT, <1>2 DEF RiseBonus, Larger, Smaller

\* A gauge is at least half as sure at the search radius as next door.
Faded(base, km) == IF km > 10 THEN (base * Larger(15, 40 - km)) \div 30 ELSE base

LEMMA FadedType ==
  ASSUME NEW base \in Int, NEW km \in 0..25
  PROVE  Faded(base, km) \in Int
<1>1. CASE km <= 10
  BY SMT, <1>1 DEF Faded
<1>2. CASE km > 10
  <2>1. Faded(base, km) = (base * (40 - km)) \div 30
    BY SMT, <1>2 DEF Faded, Larger
  <2>2. base * (40 - km) \in Int
    BY SMT
  <2>3. QED
    BY SMT, <2>1, <2>2
<1>3. QED
  BY SMT, <1>1, <1>2

LEMMA FadedRange ==
  ASSUME NEW base \in Int, NEW km \in 0..25
  PROVE  /\ Faded(base, km) \in Int
         /\ base >= One => Faded(base, km) >= 500 * Mil
<1>1. CASE km <= 10
  BY SMT, <1>1 DEF Faded
<1>2. CASE km > 10
  <2>1. Faded(base, km) = (base * (40 - km)) \div 30
    BY SMT, <1>2 DEF Faded, Larger
  <2>2. PICK k \in 15..29 : k = 40 - km
    BY SMT, <1>2
  <2>3. base * k \in Int
    BY SMT
  <2>4. base >= One => base * k >= 15000 * Mil
    <3>1. SUFFICES ASSUME base >= One PROVE base * k >= One * 15
      BY SMT
    <3>2. base * k >= base * 15
      BY SMT, <3>1
    <3>3. QED
      BY SMT, <3>1, <3>2, <2>3
  <2>5. QED
    BY SMT, <2>1, <2>2, <2>3, <2>4
<1>3. QED
  BY SMT, <1>1, <1>2

LEMMA GaugeRange ==
  ASSUME NEW c, Sound(c)
  PROVE  /\ GaugeSubscore(c) = None <=> ~Gauged(c)
         /\ Gauged(c) => IsShare(GaugeSubscore(c))
         /\ Gauged(c) /\ c.level >= Major(c.station) => GaugeSubscore(c) >= 500 * Mil
<1>1. CASE ~Gauged(c)
  BY SMT, <1>1 DEF Gauged, GaugeSubscore
<1>2. CASE Gauged(c)
  <2> DEFINE base == LevelBase(c.station, c.level) + RiseBonus(c)
  <2>1. /\ c.station \in Station /\ c.level \in Int
        /\ c.station.alert \in Int /\ c.station.alert > 0
    BY SMT, <1>2, GaugedTypes
  <2>2. /\ base \in Int
        /\ c.level >= Major(c.station) => base >= One
    BY SMT, <2>1, LevelBaseType, RiseBonusType
  <2>3. c.station.km \in 0..25
    BY SMT, <2>1 DEF Station
  <2>4. GaugeSubscore(c) = Clip(Faded(base, c.station.km))
    BY SMT, <1>2 DEF Gauged, GaugeSubscore, Faded
  <2>5. /\ Faded(base, c.station.km) \in Int
        /\ base >= One => Faded(base, c.station.km) >= 500 * Mil
    <3> HIDE DEF base
    <3>1. QED
      BY SMT, <2>2, <2>3, FadedRange
  <2>6. /\ IsShare(Clip(Faded(base, c.station.km)))
        /\ base >= One => Clip(Faded(base, c.station.km)) >= 500 * Mil
    <3> HIDE DEF base
    <3>1. QED
      BY SMT, <2>5 DEF Clip, Larger, Smaller
  <2>7. GaugeSubscore(c) # None
    BY SMT, <2>4, <2>6, InputAssumption
  <2> HIDE DEF base
  <2>8. QED
    BY SMT, <1>2, <2>2, <2>4, <2>6, <2>7
<1>3. QED
  BY SMT, <1>1, <1>2

\* Within 10 km no weight is lost.
LEMMA NearGauge ==
  ASSUME NEW c, Sound(c), Gauged(c), c.station.km <= 10,
         c.level >= c.station.alert \/ c.level >= Minor(c.station)
  PROVE  GaugeSubscore(c) >= 500 * Mil
<1>1. /\ c.station \in Station /\ c.level \in Int
      /\ c.station.alert \in Int /\ c.station.alert > 0
  BY SMT, GaugedTypes
<1>2. PICK base \in Int : base = LevelBase(c.station, c.level) /\ base >= 500 * Mil
  BY SMT, <1>1, LevelBaseType, LevelBaseAtLeast
<1>3. PICK rise \in Nat : rise = RiseBonus(c)
  BY RiseBonusType
<1>4. c.station.km \in 0..25
  BY SMT, <1>1 DEF Station
<1>5. ~(c.station.km > 10)
  BY SMT, <1>4
<1>6. GaugeSubscore(c) = Clip(base + rise)
  BY SMT, <1>2, <1>3, <1>5 DEF Gauged, GaugeSubscore
<1>7. Clip(base + rise) >= 500 * Mil
  BY SMT, <1>2, <1>3 DEF Clip, Larger, Smaller
<1>8. QED
  BY <1>6, <1>7

LEMMA RainfallRange ==
  ASSUME NEW c, Sound(c)
  PROVE  IsShare(RainfallSubscore(c))
<1>1. /\ c.gaugeRain \in Rains \cup {0} /\ c.gridRain \in Rains \cup {0}
      /\ c.forecast \in Forecasts \cup {0}
  BY DEF Sound, Context
<1>2. c.gaugeRain \in Nat /\ c.gridRain \in Nat /\ c.forecast \in Nat
  <2>1. Rains \subseteq Nat /\ Forecasts \subseteq Nat
    BY InputAssumption
  <2>2. 0 \in Nat
    BY SMT
  <2>3. QED
    BY Zenon, <1>1, <2>1, <2>2
<1>3. PICK mm \in Nat : mm = Rain24h(c)
  <2>1. Larger(c.gridRain, c.gaugeRain) \in Nat
    BY SMT, <1>2 DEF Larger
  <2>2. Rain24h(c) = Larger(c.gridRain, c.gaugeRain) \/ Rain24h(c) = c.gridRain
    BY Zenon DEF Rain24h
  <2>3. QED
    BY SMT, <1>2, <2>1, <2>2
<1>4. PICK base \in Int :
        base = CASE mm >= RainVeryHeavy -> One
                 [] mm < RainVeryHeavy /\ mm >= RainHeavy ->
                      600 * Mil + (400 * Mil * (mm - RainHeavy)) \div (RainVeryHeavy - RainHeavy)
                 [] OTHER -> (600 * Mil * mm) \div RainHeavy
  BY SMT
<1>5. RainfallSubscore(c) = Clip(Larger(base, (base * 8) \div 10 + 10000 * Smaller(50, c.forecast)))
  BY SMT, <1>3, <1>4 DEF RainfallSubscore
<1>6. Larger(base, (base * 8) \div 10 + 10000 * Smaller(50, c.forecast)) \in Int
  BY SMT, <1>2 DEF Larger, Smaller
<1>7. QED
  BY SMT, <1>5, <1>6, ClipRange

\* The share of "yes" is asked for only where somebody answered.
LEMMA CrowdRange ==
  ASSUME NEW c, Sound(c)
  PROVE  /\ CrowdSubscore(c) = None <=> ~FloorMet(c)
         /\ FloorMet(c) => IsShare(CrowdSubscore(c)) /\ Ratio(c) \in Int
<1>1. c.yes \in Nat /\ c.no \in Nat
  BY SMT, InputAssumption DEF Sound, Context
<1>2. ASSUME FloorMet(c) PROVE Ratio(c) \in Int
  <2>1. 2 * (c.yes + c.no) \in Int /\ 2 * (c.yes + c.no) > 0
    BY SMT, <1>1, <1>2 DEF FloorMet
  <2>2. 20000 * c.yes + c.yes + c.no \in Int
    BY SMT, <1>1
  <2>3. QED
    BY SMT, <2>1, <2>2 DEF Ratio
<1>3. ASSUME FloorMet(c) PROVE IsShare(CrowdSubscore(c))
  <2>1. (Ratio(c) - 5000) * 200 \in Int
    BY SMT, <1>2, <1>3
  <2>2. CrowdSubscore(c) = Clip((Ratio(c) - 5000) * 200)
    BY SMT, <1>3 DEF CrowdSubscore
  <2>3. QED
    BY SMT, <2>1, <2>2, ClipRange
<1>4. FloorMet(c) => CrowdSubscore(c) # None
  BY SMT, <1>3, InputAssumption
<1>5. ~FloorMet(c) => CrowdSubscore(c) = None
  BY SMT DEF CrowdSubscore
<1>6. QED
  BY SMT, <1>2, <1>3, <1>4, <1>5

-----------------------------------------------------------------------------
(* The score.                                                              *)

LEMMA FusedType ==
  ASSUME NEW c, Sound(c)
  PROVE  Fused(c) \in Int
<1>1. IsShare(RainfallSubscore(c))
  BY RainfallRange
<1>2. GaugeSubscore(c) = None \/ IsShare(GaugeSubscore(c))
  BY GaugeRange
<1>3. CrowdSubscore(c) = None \/ IsShare(CrowdSubscore(c))
  BY CrowdRange
<1>4. \A x, w : (x = None \/ x \in Int) /\ w \in {45, 20} =>
        Term(x, w) \in Int /\ Share(x, w) \in {0, w}
  BY SMT DEF Term, Share
<1>5. /\ Term(GaugeSubscore(c), WeightGauge) \in Int /\ Term(CrowdSubscore(c), WeightCrowd) \in Int
      /\ Share(GaugeSubscore(c), WeightGauge) \in Nat /\ Share(CrowdSubscore(c), WeightCrowd) \in Nat
  BY SMT, <1>2, <1>3, <1>4
<1>6. QED
  BY SMT, <1>1, <1>5 DEF Fused

LEMMA PhysicalRange ==
  ASSUME NEW c, Sound(c)
  PROVE  /\ Physical(c) \in Int
         /\ Gauged(c) /\ c.level >= Major(c.station) => Physical(c) >= 500 * Mil
BY SMT, RainfallRange, GaugeRange, InputAssumption DEF Physical, Larger

\* What the overrides make of a score, in one place.
LEMMA ScoreRange ==
  ASSUME NEW c, Sound(c)
  PROVE  /\ Score(c) \in Int
         /\ AboveMajor(c) /\ Physical(c) >= ScoreLow => Score(c) >= 900 * Mil
<1>1. Fused(c) \in Int /\ Physical(c) \in Int
  BY FusedType, PhysicalRange
<1>2. PICK major \in Int : /\ major = MajorOverride(c, Fused(c))
                           /\ AboveMajor(c) => major >= 900 * Mil
  BY SMT, <1>1 DEF MajorOverride, Larger
<1>3. /\ Clip(major + 100 * Mil) \in Int
      /\ major >= 900 * Mil => Clip(major + 100 * Mil) >= 900 * Mil
  BY SMTT(30), ClipRange
<1>4. QED
  BY SMT, <1>1, <1>2, <1>3 DEF Score, Smaller

\* A score and its rounded form, and the severities of the two.
LEMMA Banded ==
  ASSUME NEW x \in Int, NEW t \in Int, t = (Clip(x) + 50) \div 100
  PROVE  /\ t \in 0..10000
         /\ SeverityFor(x) \in {SeverityFor(100 * s) : s \in {t, t - 1}}
         /\ x >= 900 * Mil => SeverityFor(x) = "high" /\ t >= 9000
<1>1. /\ t >= 0 /\ t <= 10000
      /\ x >= 0 /\ x <= One => 100 * t <= x + 50 /\ x < 100 * t + 50
      /\ x < 0 => t = 0
      /\ x > One => t = 10000
      /\ x >= 900 * Mil => t >= 9000
  BY SMT DEF Clip, Larger, Smaller
<1>2. SeverityFor(x) = SeverityFor(100 * t) \/ SeverityFor(x) = SeverityFor(100 * (t - 1))
  BY SMT, <1>1 DEF SeverityFor
<1>3. x >= 900 * Mil => SeverityFor(x) = "high"
  BY SMT DEF SeverityFor
<1>4. \A u \in Int : u >= 0 /\ u <= 10000 => u \in 0..10000
  BY SMTT(30)
<1>5. QED
  BY SMT, <1>1, <1>2, <1>3, <1>4

LEMMA ResultRange ==
  ASSUME NEW c, Sound(c)
  PROVE  /\ Result(c).score \in 0..10000
         /\ Result(c).severity \in {SeverityFor(100 * s) : s \in {Result(c).score, Result(c).score - 1}}
         /\ Score(c) >= 900 * Mil => Result(c).severity = "high" /\ Result(c).score >= 9000
<1>1. PICK score \in Int : score = Score(c)
  BY ScoreRange
<1>2. PICK t \in Int : t = (Clip(score) + 50) \div 100
  BY SMT, ClipRange
<1>3. Result(c).score = t /\ Result(c).severity = SeverityFor(score)
  BY <1>1, <1>2 DEF Result
<1>4. QED
  BY <1>1, <1>2, <1>3, Banded

LEMMA BaselineRange ==
  ASSUME NEW c, Sound(c)
  PROVE  RainfallOnly(c).severity
           \in {SeverityFor(100 * s) : s \in {RainfallOnly(c).score, RainfallOnly(c).score - 1}}
<1>1. PICK x \in Int : x = RainfallSubscore(c) /\ x >= 0 /\ x <= One
  BY RainfallRange
<1>2. Clip(x) = x
  BY <1>1, ClipRange
<1>3. PICK t \in Int : t = (Clip(x) + 50) \div 100
  BY SMT, <1>1, <1>2
<1>4. RainfallOnly(c).score = t /\ RainfallOnly(c).severity = SeverityFor(x)
  BY <1>1, <1>2, <1>3 DEF RainfallOnly
<1>5. QED
  BY <1>3, <1>4, Banded

-----------------------------------------------------------------------------
(* The theorems.                                                           *)

LEMMA Reachable == Spec => []InputsOK
<1>1. InputsOK /\ UNCHANGED ctx => InputsOK'
  BY InputsStep
<1>2. QED
  BY InputsInit, InputsStep, PTL DEF Spec

LEMMA InputsAreSound == InputsOK => Sound(ctx)
BY Zenon DEF InputsOK, Sound

\* Inputs stay in range, every sub-score is a share of one, and a stored score
\* is one of 0 to 10000 (RegionContext, gauge_subscore, rainfall_subscore,
\* crowd_subscore).
THEOREM ScoresInRange == Spec => []TypeOK
<1>1. ASSUME InputsOK PROVE TypeOK
  <2>1. Sound(ctx)
    BY <1>1, InputsAreSound
  <2>2. \A x \in {GaugeSubscore(ctx), CrowdSubscore(ctx), RainfallSubscore(ctx)} : x = None \/ IsShare(x)
    BY SMT, <2>1, GaugeRange, CrowdRange, RainfallRange
  <2>3. Result(ctx).score \in 0..10000
    BY SMTT(30), <2>1, ResultRange
  <2>4. QED
    BY SMTT(30), <1>1, <2>2, <2>3 DEF TypeOK, InputsOK
<1>2. QED
  BY <1>1, Reachable, PTL

\* Severity and stored score of a result are a rounding apart, whatever the
\* inputs: AlertLifecycle's assumption on what the engine gives it
\* (RulesV1Engine.score, RainfallOnlyEngine.score, _severity_for).
THEOREM ResultsAlwaysFitBands == Spec => []ResultsFitBands
<1>1. ASSUME InputsOK PROVE ResultsFitBands
  BY <1>1, InputsAreSound, ResultRange, BaselineRange DEF ResultsFitBands
<1>2. QED
  BY <1>1, Reachable, PTL

\* What the dashboard says of a gauge, in levels.
LEMMA StateLevels ==
  ASSUME NEW c, Sound(c), Gauged(c)
  PROVE  /\ GaugeState(c) = "major" => AboveMajor(c) /\ c.level >= Major(c.station)
         /\ GaugeState(c) \in {"alert", "minor"} =>
              c.level >= c.station.alert \/ c.level >= Minor(c.station)
<1>1. /\ c.station \in Station /\ c.level \in Int
      /\ c.station.alert \in Int /\ c.station.alert > 0
  BY SMT, GaugedTypes
<1>2. c.level # None
  BY SMT, <1>1, InputAssumption
<1> DEFINE reaches(level) == level \notin {None, 0} /\ c.level >= level
<1>3. /\ GaugeState(c) = "major" => reaches(c.station.major)
      /\ GaugeState(c) = "minor" => reaches(c.station.minor)
      /\ GaugeState(c) = "alert" => reaches(c.station.alert)
  BY Zenon, <1>2 DEF GaugeState
<1>4. reaches(c.station.major) => AboveMajor(c) /\ c.level >= Major(c.station)
  BY SMT, <1>1, <1>2, FloodLevels DEF AboveMajor
<1>5. reaches(c.station.minor) => c.level >= Minor(c.station)
  BY SMT, <1>1, <1>2, FloodLevels
<1>6. QED
  BY SMT, <1>3, <1>4, <1>5

\* A river the dashboard shows above its major flood level is "high", for every
\* distance within the search radius, every rain, every crowd and every order of
\* the levels, and one it shows above a lower level weighs at least half nearby
\* (RulesV1Engine.score, the first override against the cap; gauge_subscore;
\* admin.py, gauges).
THEOREM MajorFloodIsAlwaysHigh == Spec => []MajorFloodIsHigh
<1>1. ASSUME InputsOK PROVE MajorFloodIsHigh
  <2>1. Sound(ctx)
    BY <1>1, InputsAreSound
  <2>2. SUFFICES ASSUME GaugeSubscore(ctx) # None
                 PROVE  /\ GaugeState(ctx) = "major" =>
                             Result(ctx).severity = "high" /\ Result(ctx).score >= 9000
                        /\ GaugeState(ctx) \in {"alert", "minor"} /\ ctx.station.km <= 10 =>
                             GaugeSubscore(ctx) >= 500 * Mil
    BY DEF MajorFloodIsHigh
  <2>3. Gauged(ctx)
    BY <2>1, <2>2, GaugeRange
  <2>4. ASSUME GaugeState(ctx) = "major"
        PROVE  Result(ctx).severity = "high" /\ Result(ctx).score >= 9000
    <3>1. AboveMajor(ctx) /\ ctx.level >= Major(ctx.station)
      BY <2>1, <2>3, <2>4, StateLevels
    <3>2. Physical(ctx) >= 500 * Mil /\ Physical(ctx) \in Int
      BY <2>1, <2>3, <3>1, PhysicalRange
    <3>3. Score(ctx) >= 900 * Mil
      BY SMT, <2>1, <3>1, <3>2, ScoreRange
    <3>4. QED
      BY <2>1, <3>3, ResultRange
  <2>5. ASSUME GaugeState(ctx) \in {"alert", "minor"}, ctx.station.km <= 10
        PROVE  GaugeSubscore(ctx) >= 500 * Mil
    BY <2>1, <2>3, <2>5, StateLevels, NearGauge
  <2>6. QED
    BY <2>4, <2>5
<1>2. QED
  BY <1>1, Reachable, PTL

-----------------------------------------------------------------------------
(* Worse inputs: each sub-score, and what the score makes of them, rises   *)
(* with every input.                                                       *)

LEMMA DivMonotone ==
  ASSUME NEW a \in Int, NEW b \in Int, NEW n \in Int, n > 0, a <= b
  PROVE  a \div n <= b \div n
BY SMT

LEMMA TimesMonotone ==
  ASSUME NEW a \in Int, NEW b \in Int, NEW n \in Nat, a <= b
  PROVE  a * n <= b * n
BY SMT

LEMMA ClipMonotone ==
  ASSUME NEW a \in Int, NEW b \in Int, a <= b
  PROVE  Clip(a) <= Clip(b)
BY SMT DEF Clip, Larger, Smaller

\* The way from one flood level to the next is worth a quarter.
LEMMA Interpolated ==
  ASSUME NEW x \in Nat, NEW y \in Nat, NEW w \in Int, w > 0, x <= y, y <= w
  PROVE  /\ (250 * Mil * x) \div w \in Int /\ (250 * Mil * y) \div w \in Int
         /\ 0 <= (250 * Mil * x) \div w
         /\ (250 * Mil * x) \div w <= (250 * Mil * y) \div w
         /\ (250 * Mil * y) \div w <= 250 * Mil
<1>1. PICK a \in Int, b \in Int : a = 250 * Mil * x /\ b = 250 * Mil * y
  BY SMT
<1>2. 0 <= a /\ a <= b /\ b <= (250 * Mil) * w
  BY SMT, <1>1
<1>3. a \div w <= b \div w /\ 0 <= a \div w
  BY SMT, <1>2
<1>4. b \div w <= 250 * Mil
  <2>1. PICK q \in Int : q = b \div w /\ q * w <= b
    BY SMT, <1>1
  <2>2. q >= 250 * Mil + 1 => q * w >= (250 * Mil + 1) * w
    BY SMT, <2>1
  <2>3. (250 * Mil + 1) * w > (250 * Mil) * w
    BY SMT
  <2>4. QED
    BY SMT, <1>2, <2>1, <2>2, <2>3
<1>5. QED
  BY SMT, <1>1, <1>3, <1>4

\* Higher water weighs no less, for flood levels in any order.
LEMMA LevelBaseMonotone ==
  ASSUME NEW s \in Station, s.alert \in Int, s.alert > 0,
         NEW low \in Int, NEW high \in Int, low <= high
  PROVE  LevelBase(s, low) <= LevelBase(s, high)
<1>1. PICK mi \in Int, ma \in Int, al \in Int : mi = Minor(s) /\ ma = Major(s) /\ al = s.alert
  BY SMT, FloodLevels
<1>2. PICK a \in Int, b \in Int :
        /\ a > 0 /\ a = Larger(1, ma - mi) /\ ma - mi <= a
        /\ b > 0 /\ b = Larger(1, mi - al) /\ mi - al <= b
  <2>1. ASSUME NEW x \in Int
        PROVE  Larger(1, x) \in Int /\ Larger(1, x) > 0 /\ x <= Larger(1, x)
    BY SMT DEF Larger
  <2>2. ma - mi \in Int /\ mi - al \in Int
    BY SMT
  <2>3. QED
    BY <2>1, <2>2
<1> DEFINE Base(level) == LevelBase(s, level)
<1>3. ASSUME NEW level \in Int
      PROVE  /\ Base(level) \in Int
             /\ level >= ma => Base(level) = One
             /\ level < ma /\ level >= mi =>
                  Base(level) = 750 * Mil + (250 * Mil * (level - mi)) \div a
             /\ level < ma /\ level < mi /\ level >= al =>
                  Base(level) = 500 * Mil + (250 * Mil * (level - al)) \div b
             /\ level < ma /\ level < mi /\ level < al =>
                  Base(level) = Clip((One * Larger(0, level)) \div al) \div 2
  BY SMT, <1>1, <1>2, LevelBaseType DEF LevelBase
<1>4. ASSUME NEW x \in Int, NEW y \in Int, x <= y, y < al
      PROVE  LET half(level) == Clip((One * Larger(0, level)) \div al) \div 2
             IN  half(x) <= half(y) /\ half(y) <= 500 * Mil
  <2>1. PICK u \in Int, v \in Int : u = One * Larger(0, x) /\ v = One * Larger(0, y) /\ u <= v
    BY SMT, <1>4 DEF Larger
  <2>2. PICK q \in Int, r \in Int : q = u \div al /\ r = v \div al /\ q <= r
    BY SMT, <1>1, <2>1, DivMonotone
  <2>3. Clip(q) \div 2 <= Clip(r) \div 2 /\ Clip(r) \div 2 <= 500 * Mil
    BY SMT, <2>2 DEF Clip, Larger, Smaller
  <2>4. QED
    BY SMT, <2>1, <2>2, <2>3
<1> HIDE DEF Base
<1>5. ASSUME NEW level \in Int
      PROVE  /\ Base(level) <= One
             /\ level < ma /\ level >= mi => Base(level) >= 750 * Mil
             /\ level < ma /\ level < mi => Base(level) <= 750 * Mil
             /\ level < ma /\ level < mi /\ level >= al => Base(level) >= 500 * Mil
             /\ level < ma /\ level < mi /\ level < al => Base(level) <= 500 * Mil
  <2>1. ASSUME level < ma, level >= mi
        PROVE  Base(level) >= 750 * Mil /\ Base(level) <= One
    <3>1. PICK x \in Nat : x = level - mi /\ x <= a
      BY SMT, <1>2, <2>1
    <3>2. x <= x /\ x <= a /\ a > 0
      BY SMT, <1>2, <3>1
    <3>3. /\ (250 * Mil * x) \div a \in Int /\ 0 <= (250 * Mil * x) \div a
          /\ (250 * Mil * x) \div a <= 250 * Mil
      BY <3>2, Interpolated
    <3>4. Base(level) = 750 * Mil + (250 * Mil * x) \div a
      BY <1>3, <2>1, <3>1
    <3>5. QED
      BY SMT, <3>3, <3>4
  <2>2. ASSUME level < ma, level < mi, level >= al
        PROVE  Base(level) >= 500 * Mil /\ Base(level) <= 750 * Mil
    <3>1. PICK x \in Nat : x = level - al /\ x <= b
      BY SMT, <1>2, <2>2
    <3>2. x <= x /\ x <= b /\ b > 0
      BY SMT, <1>2, <3>1
    <3>3. /\ (250 * Mil * x) \div b \in Int /\ 0 <= (250 * Mil * x) \div b
          /\ (250 * Mil * x) \div b <= 250 * Mil
      BY <3>2, Interpolated
    <3>4. Base(level) = 500 * Mil + (250 * Mil * x) \div b
      BY <1>3, <2>2, <3>1
    <3>5. QED
      BY SMT, <3>3, <3>4
  <2>3. ASSUME level < ma, level < mi, level < al
        PROVE  Base(level) <= 500 * Mil
    BY SMT, <1>3, <1>4, <2>3
  <2>4. QED
    BY SMT, <1>3, <2>1, <2>2, <2>3
<1>6. Base(low) <= Base(high)
  <2>1. CASE high >= ma
    BY SMT, <1>3, <1>5, <2>1
  <2>2. CASE high < ma /\ low >= mi
    <3>1. PICK x \in Nat, y \in Nat : x = low - mi /\ y = high - mi /\ x <= y /\ y <= a
      BY SMT, <1>2, <2>2
    <3>2. /\ Base(low) = 750 * Mil + (250 * Mil * x) \div a
          /\ Base(high) = 750 * Mil + (250 * Mil * y) \div a
      BY SMT, <1>3, <2>2, <3>1
    <3>3. QED
      BY SMT, <1>2, <3>1, <3>2, Interpolated
  <2>3. CASE high < ma /\ low < mi /\ high >= mi
    BY SMT, <1>3, <1>5, <2>3
  <2>4. CASE high < ma /\ high < mi /\ low >= al
    <3>1. PICK x \in Nat, y \in Nat : x = low - al /\ y = high - al /\ x <= y /\ y <= b
      BY SMT, <1>2, <2>4
    <3>2. /\ Base(low) = 500 * Mil + (250 * Mil * x) \div b
          /\ Base(high) = 500 * Mil + (250 * Mil * y) \div b
      BY SMT, <1>3, <2>4, <3>1
    <3>3. QED
      BY SMT, <1>2, <3>1, <3>2, Interpolated
  <2>5. CASE high < ma /\ high < mi /\ low < al /\ high >= al
    BY SMT, <1>3, <1>5, <2>5
  <2>6. CASE high < ma /\ high < mi /\ high < al
    BY SMT, <1>3, <1>4, <2>6
  <2>7. QED
    BY SMT, <2>1, <2>2, <2>3, <2>4, <2>5, <2>6
<1>7. QED
  BY <1>6 DEF Base

\* The same inputs are there, and none is milder.
Graver(c, d) ==
  /\ Sound(c) /\ Sound(d)
  /\ d.station = c.station
  /\ IF c.level = None THEN d.level = None ELSE d.level # None /\ c.level <= d.level
  /\ IF c.rise = None THEN d.rise = None ELSE d.rise # None /\ c.rise <= d.rise
  /\ c.gaugeRain <= d.gaugeRain /\ c.gridRain <= d.gridRain /\ c.forecast <= d.forecast
  /\ c.yes <= d.yes /\ c.yes + c.no = d.yes + d.no

LEMMA RiseMonotone ==
  ASSUME NEW c, NEW d, Graver(c, d)
  PROVE  RiseBonus(c) <= RiseBonus(d)
<1>1. /\ c.rise = None \/ c.rise \in Int
      /\ d.rise = None \/ d.rise \in Int
  BY InputAssumption DEF Graver, Sound, Context
<1>2. QED
  BY SMT, <1>1 DEF Graver, RiseBonus, Larger, Smaller

LEMMA FadedMonotone ==
  ASSUME NEW a \in Int, NEW b \in Int, a <= b, NEW km \in 0..25
  PROVE  Faded(a, km) <= Faded(b, km)
<1>1. CASE km <= 10
  BY SMT, <1>1 DEF Faded
<1>2. CASE km > 10
  <2>1. PICK k \in Nat : k = Larger(15, 40 - km)
    BY SMT DEF Larger
  <2>2. PICK x \in Int, y \in Int : x = a * k /\ y = b * k /\ x <= y
    BY SMT, TimesMonotone
  <2>3. Faded(a, km) = x \div 30 /\ Faded(b, km) = y \div 30
    BY <1>2, <2>1, <2>2 DEF Faded
  <2>4. QED
    BY SMT, <2>2, <2>3
<1>3. QED
  BY SMT, <1>1, <1>2

LEMMA GaugeMonotone ==
  ASSUME NEW c, NEW d, Graver(c, d)
  PROVE  /\ Gauged(c) <=> Gauged(d)
         /\ Gauged(c) => GaugeSubscore(c) <= GaugeSubscore(d)
<1>1. Gauged(c) <=> Gauged(d)
  BY DEF Graver, Gauged
<1>2. ASSUME Gauged(c) PROVE GaugeSubscore(c) <= GaugeSubscore(d)
  <2>1. /\ c.station \in Station /\ c.level \in Int /\ d.level \in Int
        /\ c.station.alert \in Int /\ c.station.alert > 0
        /\ c.station.km \in 0..25
    <3>1. /\ c.station \in Station /\ c.level \in Int
          /\ c.station.alert \in Int /\ c.station.alert > 0
          /\ d.level \in Int
      BY <1>1, <1>2, GaugedTypes DEF Graver
    <3>2. QED
      BY <3>1 DEF Station
  <2>2. c.level <= d.level /\ d.station = c.station
    BY <2>1, InputAssumption DEF Graver
  <2>3. PICK x \in Int, y \in Int : /\ x = LevelBase(c.station, c.level) + RiseBonus(c)
                                    /\ y = LevelBase(c.station, d.level) + RiseBonus(d)
                                    /\ x <= y
    <3>1. /\ LevelBase(c.station, c.level) \in Int /\ LevelBase(c.station, d.level) \in Int
          /\ LevelBase(c.station, c.level) <= LevelBase(c.station, d.level)
      BY <2>1, <2>2, LevelBaseType, LevelBaseMonotone
    <3>2. RiseBonus(c) \in Nat /\ RiseBonus(d) \in Nat /\ RiseBonus(c) <= RiseBonus(d)
      BY RiseBonusType, RiseMonotone DEF Graver
    <3>3. QED
      BY SMT, <3>1, <3>2
  <2>4. /\ GaugeSubscore(c) = Clip(Faded(x, c.station.km))
        /\ GaugeSubscore(d) = Clip(Faded(y, c.station.km))
    BY <1>1, <1>2, <2>2, <2>3 DEF Gauged, GaugeSubscore, Faded
  <2>5. /\ Faded(x, c.station.km) \in Int /\ Faded(y, c.station.km) \in Int
        /\ Faded(x, c.station.km) <= Faded(y, c.station.km)
    <3>1. PICK km \in 0..25 : km = c.station.km
      BY <2>1
    <3>2. Faded(x, km) \in Int /\ Faded(y, km) \in Int
      BY FadedType
    <3>3. Faded(x, km) <= Faded(y, km)
      BY <2>3, FadedMonotone
    <3>4. QED
      BY <3>1, <3>2, <3>3
  <2>6. QED
    BY <2>4, <2>5, ClipMonotone
<1>3. QED
  BY <1>1, <1>2

LEMMA RainTypes ==
  ASSUME NEW c, Sound(c)
  PROVE  c.gaugeRain \in Nat /\ c.gridRain \in Nat /\ c.forecast \in Nat
<1>1. Rains \cup {0} \subseteq Nat /\ Forecasts \cup {0} \subseteq Nat
  BY InputAssumption
<1>2. QED
  BY <1>1 DEF Sound, Context

LEMMA RainfallMonotone ==
  ASSUME NEW c, NEW d, Graver(c, d)
  PROVE  RainfallSubscore(c) <= RainfallSubscore(d)
<1>1. PICK m \in Nat, n \in Nat : m = Rain24h(c) /\ n = Rain24h(d) /\ m <= n
  <2>1. /\ c.gaugeRain \in Nat /\ c.gridRain \in Nat
        /\ d.gaugeRain \in Nat /\ d.gridRain \in Nat
    BY RainTypes DEF Graver
  <2>2. /\ Larger(c.gridRain, c.gaugeRain) \in Nat /\ Larger(d.gridRain, d.gaugeRain) \in Nat
        /\ Larger(c.gridRain, c.gaugeRain) <= Larger(d.gridRain, d.gaugeRain)
        /\ c.gridRain <= d.gridRain
    BY SMT, <2>1 DEF Graver, Larger
  <2>3. d.station = c.station
    BY DEF Graver
  <2>4. QED
    BY <2>1, <2>2, <2>3 DEF Rain24h
<1> DEFINE Base(mm) ==
      CASE mm >= RainVeryHeavy -> One
        [] mm < RainVeryHeavy /\ mm >= RainHeavy ->
             600 * Mil + (400 * Mil * (mm - RainHeavy)) \div (RainVeryHeavy - RainHeavy)
        [] OTHER -> (600 * Mil * mm) \div RainHeavy
<1>2. PICK a \in Int, b \in Int : a = Base(m) /\ b = Base(n) /\ a <= b
  BY SMT, <1>1
<1>3. PICK f \in Nat, g \in Nat : f = c.forecast /\ g = d.forecast /\ f <= g
  BY RainTypes DEF Graver
<1> DEFINE sum(base, forecast) == Larger(base, (base * 8) \div 10 + 10000 * Smaller(50, forecast))
<1>4. sum(a, f) \in Int /\ sum(b, g) \in Int /\ sum(a, f) <= sum(b, g)
  BY SMT, <1>2, <1>3 DEF Larger, Smaller
<1>5. RainfallSubscore(c) = Clip(sum(a, f)) /\ RainfallSubscore(d) = Clip(sum(b, g))
  BY SMT, <1>1, <1>2, <1>3 DEF RainfallSubscore
<1> HIDE DEF sum
<1>6. QED
  BY <1>4, <1>5, ClipMonotone

LEMMA CrowdMonotone ==
  ASSUME NEW c, NEW d, Graver(c, d)
  PROVE  /\ FloorMet(c) <=> FloorMet(d)
         /\ FloorMet(c) => /\ Ratio(c) <= Ratio(d)
                           /\ CrowdSubscore(c) <= CrowdSubscore(d)
<1>1. /\ c.yes \in Nat /\ c.no \in Nat /\ d.yes \in Nat /\ d.no \in Nat
      /\ c.yes <= d.yes /\ c.yes + c.no = d.yes + d.no
  BY InputAssumption DEF Graver, Sound, Context
<1>2. FloorMet(c) <=> FloorMet(d)
  BY <1>1 DEF FloorMet
<1>3. ASSUME FloorMet(c)
      PROVE  Ratio(c) <= Ratio(d) /\ CrowdSubscore(c) <= CrowdSubscore(d)
  <2>1. PICK x \in Int, y \in Int, n \in Int :
          /\ x = 20000 * c.yes + c.yes + c.no /\ y = 20000 * d.yes + d.yes + d.no
          /\ n = 2 * (c.yes + c.no) /\ n > 0 /\ x <= y
    BY SMT, <1>1, <1>3 DEF FloorMet
  <2>2. Ratio(c) = x \div n /\ Ratio(d) = y \div n
    BY <1>1, <2>1 DEF Ratio
  <2>3. Ratio(c) <= Ratio(d)
    BY <2>1, <2>2, DivMonotone
  <2>4. Ratio(c) \in Int /\ Ratio(d) \in Int
    BY <1>2, <1>3, CrowdRange DEF Graver
  <2>5. PICK p \in Int, q \in Int :
          p = (Ratio(c) - 5000) * 200 /\ q = (Ratio(d) - 5000) * 200 /\ p <= q
    BY SMT, <2>3, <2>4
  <2>6. CrowdSubscore(c) = Clip(p) /\ CrowdSubscore(d) = Clip(q)
    BY <1>2, <1>3, <2>5 DEF CrowdSubscore
  <2>7. QED
    BY <2>3, <2>5, <2>6, ClipMonotone
<1>4. QED
  BY <1>2, <1>3

LEMMA PhysicalMonotone ==
  ASSUME NEW c, NEW d, Graver(c, d)
  PROVE  Physical(c) <= Physical(d)
<1>1. /\ IsShare(RainfallSubscore(c)) /\ IsShare(RainfallSubscore(d))
      /\ RainfallSubscore(c) <= RainfallSubscore(d)
  BY RainfallRange, RainfallMonotone DEF Graver
<1>2. CASE ~Gauged(c)
  <2>1. GaugeSubscore(c) = None /\ GaugeSubscore(d) = None
    BY <1>2, GaugeRange, GaugeMonotone DEF Graver
  <2>2. QED
    BY SMT, <1>1, <2>1 DEF Physical, Larger
<1>3. CASE Gauged(c)
  <2>1. /\ IsShare(GaugeSubscore(c)) /\ IsShare(GaugeSubscore(d))
        /\ GaugeSubscore(c) <= GaugeSubscore(d)
        /\ GaugeSubscore(c) # None /\ GaugeSubscore(d) # None
    BY <1>3, GaugeRange, GaugeMonotone DEF Graver
  <2>2. QED
    BY SMT, <1>1, <2>1 DEF Physical, Larger
<1>4. QED
  BY <1>2, <1>3

\* The mean of shares is a share and rises with each of them, over the same inputs.
LEMMA FusedMonotone ==
  ASSUME NEW c, NEW d, Graver(c, d)
  PROVE  Fused(c) <= Fused(d) /\ Fused(c) <= One /\ Fused(d) <= One
<1>1. PICK r \in Int, s \in Int :
        /\ r = RainfallSubscore(c) /\ s = RainfallSubscore(d) /\ r <= s /\ s <= One
  BY RainfallRange, RainfallMonotone DEF Graver
<1>2. PICK g \in Int, h \in Int, v \in {0, 45} :
        /\ g = Term(GaugeSubscore(c), WeightGauge) /\ h = Term(GaugeSubscore(d), WeightGauge)
        /\ v = Share(GaugeSubscore(c), WeightGauge) /\ v = Share(GaugeSubscore(d), WeightGauge)
        /\ g <= h /\ h <= v * One
  <2>1. CASE ~Gauged(c)
    <3>1. GaugeSubscore(c) = None /\ GaugeSubscore(d) = None
      BY <2>1, GaugeRange, GaugeMonotone DEF Graver
    <3>2. QED
      BY SMT, <3>1 DEF Term, Share
  <2>2. CASE Gauged(c)
    <3>1. PICK x \in Int, y \in Int :
            /\ x = GaugeSubscore(c) /\ y = GaugeSubscore(d) /\ x # None /\ y # None
            /\ x <= y /\ y <= One
      BY <2>2, GaugeRange, GaugeMonotone DEF Graver
    <3>2. QED
      BY SMT, <3>1 DEF Term, Share
  <2>3. QED
    BY <2>1, <2>2
<1>3. PICK k \in Int, l \in Int, w \in {0, 20} :
        /\ k = Term(CrowdSubscore(c), WeightCrowd) /\ l = Term(CrowdSubscore(d), WeightCrowd)
        /\ w = Share(CrowdSubscore(c), WeightCrowd) /\ w = Share(CrowdSubscore(d), WeightCrowd)
        /\ k <= l /\ l <= w * One
  <2>1. CASE ~FloorMet(c)
    <3>1. CrowdSubscore(c) = None /\ CrowdSubscore(d) = None
      BY <2>1, CrowdRange, CrowdMonotone DEF Graver
    <3>2. QED
      BY SMT, <3>1 DEF Term, Share
  <2>2. CASE FloorMet(c)
    <3>1. PICK x \in Int, y \in Int :
            /\ x = CrowdSubscore(c) /\ y = CrowdSubscore(d) /\ x # None /\ y # None
            /\ x <= y /\ y <= One
      BY <2>2, CrowdRange, CrowdMonotone DEF Graver
    <3>2. QED
      BY SMT, <3>1 DEF Term, Share
  <2>3. QED
    BY <2>1, <2>2
<1>4. PICK a \in Int, b \in Int, n \in {35, 80, 55, 100} :
        a = r * 35 + g + k /\ b = s * 35 + h + l /\ n = 35 + v + w
  BY SMT, <1>1, <1>2, <1>3
<1>5. a <= b /\ b <= n * One
  BY SMT, <1>1, <1>2, <1>3, <1>4
<1>6. Fused(c) = a \div n /\ Fused(d) = b \div n
  BY <1>1, <1>2, <1>3, <1>4 DEF Fused
<1>7. a \div n <= b \div n /\ b \div n <= One /\ a \div n <= One
  BY SMT, <1>4, <1>5
<1>8. QED
  BY <1>6, <1>7

\* The weighted mean, the three rules that may lift or cap it, step by step.
LEMMA ScoreMonotone ==
  ASSUME NEW c, NEW d, Graver(c, d)
  PROVE  Score(c) <= Score(d)
<1>1. AboveMajor(c) => AboveMajor(d)
  <2>1. SUFFICES ASSUME AboveMajor(c) PROVE AboveMajor(d)
    OBVIOUS
  <2>2. /\ c.level # None /\ c.station \in Stations /\ c.station.major # None
        /\ d.station = c.station /\ d.level # None /\ c.level <= d.level
        /\ c.level >= c.station.major
    BY <2>1, InputAssumption DEF AboveMajor, Graver, Sound, Context
  <2>3. c.level \in Int /\ d.level \in Int /\ c.station.major \in Int
    BY <2>2, InputAssumption DEF Graver, Sound, Context, Station, Level
  <2>4. QED
    BY <2>2, <2>3 DEF AboveMajor
<1>2. PICK m \in Int, n \in Int :
        /\ m = MajorOverride(c, Fused(c)) /\ n = MajorOverride(d, Fused(d))
        /\ m <= n /\ m <= One /\ n <= One
  <2>1. PICK x \in Int, y \in Int :
          x = Fused(c) /\ y = Fused(d) /\ x <= y /\ x <= One /\ y <= One
    BY FusedType, FusedMonotone DEF Graver
  <2>2. QED
    BY SMT, <1>1, <2>1 DEF MajorOverride, Larger
<1>3. PICK p \in Int, q \in Int : p = Physical(c) /\ q = Physical(d) /\ p <= q
  BY PhysicalRange, PhysicalMonotone DEF Graver
<1>4. CrowdConfirms(c) => CrowdConfirms(d)
  <2>1. SUFFICES ASSUME CrowdConfirms(c) PROVE CrowdConfirms(d)
    OBVIOUS
  <2>2. FloorMet(c) /\ FloorMet(d)
    BY <2>1, CrowdRange, CrowdMonotone DEF Graver, CrowdConfirms, CrowdAgrees
  <2>3. /\ Ratio(c) \in Int /\ Ratio(d) \in Int /\ Ratio(c) <= Ratio(d)
        /\ CrowdSubscore(d) # None
    BY <2>2, CrowdRange, CrowdMonotone DEF Graver
  <2>4. QED
    BY SMT, <1>3, <2>1, <2>3 DEF CrowdConfirms, CrowdAgrees
<1> DEFINE confirmed(e, x) == IF CrowdConfirms(e) THEN Clip(x + 100 * Mil) ELSE x
<1>5. PICK x \in Int, y \in Int : x = confirmed(c, m) /\ y = confirmed(d, n) /\ x <= y
  BY SMT, <1>2, <1>4 DEF Clip, Larger, Smaller
<1>6. /\ Score(c) = IF p < ScoreLow THEN Smaller(x, ScoreLow - 100) ELSE x
      /\ Score(d) = IF q < ScoreLow THEN Smaller(y, ScoreLow - 100) ELSE y
  BY <1>2, <1>3, <1>5 DEF Score
<1>7. QED
  BY SMT, <1>3, <1>5, <1>6 DEF Smaller

\* Where the grid's rain is all there is, the two engines agree but for the cap.
LEMMA RainAlone ==
  ASSUME NEW c, Sound(c), GaugeSubscore(c) = None, CrowdSubscore(c) = None, ~AboveMajor(c)
  PROVE  /\ Result(c).severity = RainfallOnly(c).severity
         /\ RainfallOnly(c).score - Result(c).score \in {0, 1}
<1>1. PICK r \in Int : r = RainfallSubscore(c) /\ 0 <= r /\ r <= One
  BY RainfallRange
<1>2. Fused(c) = r
  BY SMT, <1>1 DEF Fused, Term, Share
<1>3. MajorOverride(c, Fused(c)) = r
  BY <1>2 DEF MajorOverride
<1>4. Physical(c) = r /\ ~CrowdConfirms(c)
  BY SMT, <1>1 DEF Physical, Larger, CrowdConfirms, CrowdAgrees
<1>5. PICK s \in Int : s = Score(c) /\ s = IF r < ScoreLow THEN Smaller(r, ScoreLow - 100) ELSE r
  BY SMT, <1>3, <1>4 DEF Score, Smaller
<1>6. SeverityFor(s) = SeverityFor(r)
  BY SMT, <1>5 DEF SeverityFor, Smaller
<1>7. /\ (r + 50) \div 100 - (s + 50) \div 100 \in {0, 1}
      /\ Clip(s) = s
  BY SMT, <1>1, <1>5 DEF Clip, Larger, Smaller
<1>8. QED
  BY <1>1, <1>5, <1>6, <1>7 DEF Result, RainfallOnly

LEMMA WorseIsGraver ==
  ASSUME InputsOK, NEW c \in Worse(ctx)
  PROVE  Graver(ctx, c)
<1>0. /\ ctx \in Context /\ Sound(ctx) /\ ctx.yes + ctx.no <= People
      /\ ctx.yes \in Nat /\ ctx.no \in Nat /\ People \in Nat
  BY InputsAreSound, InputAssumption DEF InputsOK, Context
<1>1. /\ ctx.level = None \/ ctx.level \in Int
      /\ ctx.rise = None \/ ctx.rise \in Int
      /\ ctx.gaugeRain \in Nat /\ ctx.gridRain \in Nat /\ ctx.forecast \in Nat
  BY <1>0, RainTypes, InputAssumption DEF Context
<1>2. ASSUME NEW l \in Readings, ctx.level # None, l >= ctx.level, c = [ctx EXCEPT !.level = l]
      PROVE  Graver(ctx, c)
  BY <1>0, <1>1, <1>2, InputAssumption DEF Graver, Sound, Context
<1>3. ASSUME NEW r \in Rises, ctx.rise # None, r >= ctx.rise, c = [ctx EXCEPT !.rise = r]
      PROVE  Graver(ctx, c)
  BY <1>0, <1>1, <1>3, InputAssumption DEF Graver, Sound, Context
<1>4. ASSUME NEW o \in Rains, o >= ctx.gridRain, c = [ctx EXCEPT !.gridRain = o]
      PROVE  Graver(ctx, c)
  BY <1>0, <1>1, <1>4, InputAssumption DEF Graver, Sound, Context
<1>5. ASSUME NEW g \in Rains, g >= ctx.gaugeRain, c = [ctx EXCEPT !.gaugeRain = g]
      PROVE  Graver(ctx, c)
  BY <1>0, <1>1, <1>5, InputAssumption DEF Graver, Sound, Context
<1>6. ASSUME NEW f \in Forecasts, f >= ctx.forecast, c = [ctx EXCEPT !.forecast = f]
      PROVE  Graver(ctx, c)
  BY <1>0, <1>1, <1>6, InputAssumption DEF Graver, Sound, Context
<1>7. ASSUME ctx.no > 0, c = [ctx EXCEPT !.yes = @ + 1, !.no = @ - 1]
      PROVE  Graver(ctx, c)
  <2>1. /\ ctx.yes + 1 \in 0..People /\ ctx.no - 1 \in 0..People
        /\ ctx.yes + 1 >= ctx.yes /\ (ctx.yes + 1) + (ctx.no - 1) = ctx.yes + ctx.no
    BY <1>0, <1>7
  <2>2. PICK y \in 0..People, n \in 0..People : y = ctx.yes + 1 /\ n = ctx.no - 1
    BY <2>1
  <2>3. c = [ctx EXCEPT !.yes = y, !.no = n]
    BY <1>7, <2>2
  <2>4. /\ c \in Context /\ c.yes = y /\ c.no = n
        /\ c.station = ctx.station /\ c.level = ctx.level /\ c.rise = ctx.rise
        /\ c.gaugeRain = ctx.gaugeRain /\ c.gridRain = ctx.gridRain /\ c.forecast = ctx.forecast
    BY <1>0, <2>3 DEF Context
  <2>5. QED
    BY <1>0, <1>1, <2>1, <2>2, <2>4 DEF Graver, Sound
<1>8. QED
  BY <1>0, <1>2, <1>3, <1>4, <1>5, <1>6, <1>7 DEF Worse

\* No input that gets worse lowers the score, for every gauge, reading, rain and
\* number of answers, and without gauge and crowd the score is the baseline's
\* (RulesV1Engine.score, RainfallOnlyEngine.score).
THEOREM WorseNeverScoresLowerAlways == Spec => []WorseNeverScoresLower
<1>1. ASSUME InputsOK PROVE WorseNeverScoresLower
  <2>1. Sound(ctx)
    BY <1>1, InputsAreSound
  <2>2. ASSUME NEW c \in Worse(ctx) PROVE Score(c) >= Score(ctx)
    <3>1. Graver(ctx, c)
      BY <1>1, WorseIsGraver
    <3>2. Score(ctx) \in Int /\ Score(c) \in Int /\ Score(ctx) <= Score(c)
      BY <3>1, ScoreRange, ScoreMonotone DEF Graver
    <3>3. QED
      BY SMT, <3>2
  <2>3. QED
    BY <2>1, <2>2, RainAlone DEF WorseNeverScoresLower
<1>2. QED
  BY <1>1, Reachable, PTL
=============================================================================
