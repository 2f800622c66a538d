---------------------------- MODULE GaugeFeatures ---------------------------
(***************************************************************************)
(* The features of a gauge's hours and of the gauge upstream of it, as     *)
(* scripts/build_dataset.py and ml/features.py compute them over the panel *)
(* of StationHours, while readings of all gauges come in.  What is stored  *)
(* is computed once, when there are readings of all hours: a feature of an *)
(* hour could see what the gauges showed after it.                         *)
(***************************************************************************)
EXTENDS StationHours

CONSTANTS
  Upstreams,    \* a gauge and the next one up the river
  AlertLevel,   \* a gauge's alert_level_m
  Windows,      \* the rolling windows, in hours
  Lags,         \* the lags of the differences, in hours
  MinHistory,   \* hours of history the expanding rank asks for
  Cumulative,   \* --gauge-rain-cumulative
  DataSetSearch, ExperimentSearch,  \* how the lag of a gauge upstream is looked for
  TrainUntil,   \* the first hour that is not of the training split
  MaxReadings   \* bound: readings of a gauge

\* A search asks for `least` hours that both gauges have a level in, tries the
\* lags up to `most`, and falls back on `default`.
Searches == [least : Nat, most : Nat, default : Nat]

ASSUME FeatureAssumption ==
  /\ Upstreams \subseteq Stations \X Stations
  /\ AlertLevel \in Nat
  /\ Windows \cup Lags \subseteq Nat \ {0}
  /\ {MinHistory, TrainUntil, MaxReadings} \subseteq Nat
  /\ Cumulative \in BOOLEAN
  /\ {DataSetSearch, ExperimentSearch} \subseteq Searches

VARIABLE readings  \* the readings of every gauge

FeatureInit == readings = [s \in Stations |-> {}]

\* A gauge is read some slots after its last reading.
Latest(rows) == IF rows = {} THEN 0 ELSE Max({r.at : r \in rows})
Read(station, measure, gap) ==
  /\ Cardinality(readings[station]) < MaxReadings
  /\ readings' = [readings EXCEPT ![station] =
       @ \cup {[at |-> Latest(@) + gap, level |-> measure.level, rain |-> measure.rain]}]

AllRead ==
  /\ \A s \in Stations : Cardinality(readings[s]) = MaxReadings
  /\ UNCHANGED readings

FeatureNext ==
  \/ \E s \in Stations, m \in Measures, g \in Gaps : Read(s, m, g)
  \/ AllRead

FeatureSpec == FeatureInit /\ [][FeatureNext]_readings

-----------------------------------------------------------------------------
(* The rest of the panel: how old a level is, and the rain.                *)

\* level_age_hours counts up from the first row while nothing was observed;
\* ml/features.py numbers the hours of such a gap from 0.
Age(rows, h) ==
  LET back == SinceObserved(rows, h)
  IN  IF back = {} THEN h - FirstHour(rows) + 1 ELSE Min(back)
AgeOfExperiment(rows, h) ==
  LET back == SinceObserved(rows, h)
  IN  IF back = {} THEN h - FirstHour(rows) ELSE Min(back)

\* gauge_rain_mm: an hour without a value counts as dry.
Amount(r) == CHOOSE mm \in r.rain : TRUE
FellIn(rows, h) == {r \in rows : HourOf(r.at) = h /\ r.rain # Missing}
RainOf(fell) ==
  IF fell = {} THEN 0
  ELSE IF Cumulative THEN Max({Amount(r) : r \in fell})
  ELSE MapThenSumSet(Amount, fell)
RainOn(rows, hours) == [h \in hours |-> RainOf(FellIn(rows, h))]

\* The panel of some readings over some hours, and all of it.
PanelOn(rows, hours) ==
  [rows |-> rows, level |-> LevelsOn(rows, hours), rain |-> RainOn(rows, hours)]
Panel(rows) == PanelOn(rows, Hours(rows))

-----------------------------------------------------------------------------
(* What both pipelines compute over a series s.                            *)

\* level_delta_<lag>h and level_accel.
Delta(s, h, lag) == Difference(At(s, h), At(s, h - lag))
Acceleration(s, h) == Difference(Delta(s, h, 3), Delta(s, h - 3, 3))

\* level_max_<w>h and level_range_<w>h: missing while fewer than `least`
\* hours of the window have a level.
RollingMax(s, h, w, least) ==
  IF Cardinality(Within(s, Before(h, w))) < least THEN Missing
  ELSE Top(Values(s, Before(h, w)))
RollingRange(s, h, w, least) ==
  {x - Min(Values(s, Before(h, w))) : x \in RollingMax(s, h, w, least)}

\* hours_since_alert, 10000 where the alert level was never reached.
Never == 10000
SinceAlert(s, h) ==
  LET above == {g \in DOMAIN s : g <= h /\ \E x \in s[g] : x >= AlertLevel}
  IN  IF above = {} THEN Never ELSE h - Max(above)

\* level_pct_rank of the data set: among all of the gauge's hours.
RankInAll(s, h) ==
  {[below |-> Cardinality({g \in DOMAIN s : \E y \in s[g] : y < x}),
    equal |-> Cardinality({g \in DOMAIN s : x \in s[g]}),
    of    |-> Cardinality(Within(s, DOMAIN s))] : x \in At(s, h)}

\* Slip: the experiment ranks as the data set does.
RankWithFuture(s, h) == RankInAll(s, h)

\* level_pct_rank of the experiment: among the hours so far.  An hour that has
\* no level is at or above nothing, and so has a rank of zero.
RankInPast(s, h) ==
  IF Cardinality(Within(s, {g \in DOMAIN s : g <= h})) < MinHistory THEN Missing
  ELSE {[below |-> Cardinality({g \in DOMAIN s : g < h /\
                                  \E x \in s[h], y \in s[g] : y <= x}),
         of    |-> Cardinality({g \in DOMAIN s : g < h})]}

SumOver(f, S) == MapThenSumSet(LAMBDA x : f[x], S)
RainOver(rain, h, w) == SumOver(rain, Before(h, w) \cap DOMAIN rain)
WetHours(rain, h, w) == Cardinality({g \in Before(h, w) \cap DOMAIN rain : rain[g] > 0})

\* The antecedent precipitation index, in thousandths: 0.9 ** (1/24) an hour.
Decayed(x) == (x * 996) \div 1000
Api(rain) ==
  LET first == Min(DOMAIN rain)
      api[h \in DOMAIN rain] ==
        (IF h = first THEN 0 ELSE Decayed(api[h - 1])) + 1000 * rain[h]
  IN  api

\* The baselines of ml/models.py, before they are scaled: B1, capped at twice
\* the heavy rain of a day, and B2, how far the river stands above its alert
\* level.
HeavyRain == 75
RainBaseline(rain, h) == Min({RainOver(rain, h, 24), 2 * HeavyRain})
Persistence(s, h) ==
  LET above == {x - AlertLevel : x \in {x \in At(s, h) : x > AlertLevel}}
      span  == Max(Thresholds \cup {AlertLevel}) - AlertLevel
  IN  IF above = {} THEN 0 ELSE Min(above \cup {span})

-----------------------------------------------------------------------------
(* The gauge upstream.                                                     *)

\* The hours both gauges have a level in, and those of them that shift(lag) puts
\* together: it moves by that many of these hours, with a gap or without.
Both(up, down) == {h \in DOMAIN up : up[h] # Missing /\ At(down, h) # Missing}
Pairs(up, down, lag) ==
  {pair \in Both(up, down) \X Both(up, down) :
     pair[1] < pair[2] /\ Cardinality({h \in Both(up, down) : pair[1] <= h /\ h < pair[2]}) = lag}

\* The correlation of up, shifted, with down, kept as covariance and product of
\* the variances, each times the squared number of pairs; missing where one of
\* the series stands still.
Only(value) == CHOOSE x \in value : TRUE
Deviation(pairs, u, v) ==
  Cardinality(pairs) * SumOver([p \in pairs |-> u[p] * v[p]], pairs)
    - SumOver(u, pairs) * SumOver(v, pairs)
CorrelationOver(pairs, x, y) ==
  LET spread == Deviation(pairs, x, x) * Deviation(pairs, y, y)
  IN  IF spread = 0 THEN Missing ELSE {[cov |-> Deviation(pairs, x, y), spread |-> spread]}
Correlation(up, down, lag) ==
  UNION {CorrelationOver(pairs, [p \in pairs |-> Only(up[p[1]])],
                                [p \in pairs |-> Only(down[p[2]])]) : pairs \in {Pairs(up, down, lag)}}

\* cov / sqrt(spread) is greater than another, and greater than 0.1.
Squared(c) == c.cov * (IF c.cov < 0 THEN -c.cov ELSE c.cov)
Stronger(c, d) == Squared(c) * d.spread > Squared(d) * c.spread
Clear(c) == 100 * Squared(c) > c.spread

\* The first of the lags with the greatest correlation, if any has one.
BestLags(up, down, most) ==
  {lag \in 1..most : \E c \in Correlation(up, down, lag) :
     \A n \in 1..most : \A d \in Correlation(up, down, n) :
       ~Stronger(d, c) /\ (n < lag => Stronger(c, d))}
BestLag(up, down, search) ==
  LET best == IF Cardinality(Both(up, down)) < search.least THEN {}
              ELSE BestLags(up, down, search.most)
  IN  IF best = {} THEN Missing ELSE {Min(best)}

\* _estimate_lag: over the levels of all hours.
DataSetLag(up, down) ==
  LET clear == {lag \in BestLag(up, down, DataSetSearch) :
                  \A c \in Correlation(up, down, lag) : Clear(c)}
  IN  IF clear = {} THEN DataSetSearch.default ELSE Min(clear)

\* Slip: travel times are estimated over all hours.
AllHours(s) == [h \in DOMAIN s |-> Delta(s, h, 3)]

\* estimate_travel_times: over the change of the levels in the training split.
TrainingHours(s) ==
  LET train == [h \in {g \in DOMAIN s : g < TrainUntil} |-> s[h]]
  IN  [h \in DOMAIN train |-> Delta(train, h, 3)]
ExperimentLag(up, down) ==
  LET best == BestLag(TrainingHours(up), TrainingHours(down), ExperimentSearch)
  IN  IF best = {} THEN ExperimentSearch.default ELSE Min(best)

\* Up, `lag` hours earlier, on the hours of up itself: a gauge that has no row
\* for hour h gives nothing, whatever it had `lag` hours before.
Upstream(up, h, lag) == IF h \in DOMAIN up THEN At(up, h - lag) ELSE Missing
UpstreamDelta(up, h, lag) == IF h \in DOMAIN up THEN Delta(up, h - lag, 3) ELSE Missing

-----------------------------------------------------------------------------
(* The features of an hour, by the panel p of the gauge, and by the panel u *)
(* of the one upstream and its lag.                                        *)

LevelFeatures(s, h, least) ==
  [level  |-> At(s, h),
   delta  |-> [lag \in Lags |-> Delta(s, h, lag)],
   accel  |-> Acceleration(s, h),
   max    |-> [w \in Windows |-> RollingMax(s, h, w, least)],
   range  |-> [w \in Windows |-> RollingRange(s, h, w, least)],
   since  |-> SinceAlert(s, h)]

RainFeatures(rain, h) ==
  [sum |-> [w \in Windows |-> RainOver(rain, h, w)],
   wet |-> [w \in Windows |-> WetHours(rain, h, w)],
   api |-> Api(rain)[h]]

\* _add_features and _add_upstream.
DataSetFeatures(p, h) ==
  [levels |-> LevelFeatures(p.level, h, 2), rank |-> RankInAll(p.level, h),
   rain   |-> RainFeatures(p.rain, h), age |-> Age(p.rows, h)]
DataSetUpstream(u, h, lag) == [lag |-> lag, level |-> Upstream(u.level, h, lag)]

\* add_river_features, add_rainfall_features and the baselines, and
\* add_upstream_features.
ExperimentFeatures(p, h) ==
  [levels |-> LevelFeatures(p.level, h, 3), rank |-> RankInPast(p.level, h),
   rain   |-> RainFeatures(p.rain, h), age |-> AgeOfExperiment(p.rows, h),
   baselines |-> <<RainBaseline(p.rain, h), Persistence(p.level, h)>>]
ExperimentUpstream(u, h, lag) ==
  [lag |-> lag, level |-> Upstream(u.level, h, lag), delta |-> UpstreamDelta(u.level, h, lag)]

-----------------------------------------------------------------------------
(* Properties.                                                             *)

\* What a label says (_add_labels).  A positive one has a reading that reached
\* the level, and that the gauge gave in the hours the label is about or, carried
\* forward, at most CarryLimit hours before them; a negative one has no hour in
\* its window whose last reading reached the level.
LabelsAreWitnessed ==
  \A s \in Stations :
    LET rows == readings[s]
        levels == Levels(rows)
    IN  \A h \in Hours(rows), horizon \in Horizons, threshold \in Thresholds :
          /\ TRUE \in Label(levels, h, horizon, threshold) =>
               \E r \in rows :
                 /\ \E x \in r.level : x >= threshold
                 /\ HourOf(r.at) \in (h + 1 - CarryLimit)..(h + horizon)
          /\ FALSE \in Label(levels, h, horizon, threshold) =>
               \A g \in (h + 1)..(h + horizon) :
                 \A x \in Observed(rows, g) : x < threshold

\* The panel as it stood at the end of hour h: the rows up to it, made of the
\* readings that had come by then.
Known(rows, h) ==
  PanelOn({r \in rows : HourOf(r.at) <= h}, {g \in Hours(rows) : g <= h})

\* Which features of an hour could be computed when it ended (ml/features.py:
\* "Every feature at hour t is computed from information available at or before
\* t").  At the gauge itself every one could, in both pipelines, but for
\* level_pct_rank of the data set.  (Panels and lags are bound as the members of
\* singletons, for TLC to compute them once.)
OwnFeaturesSeeNoFuture ==
  \A s \in Stations : \A all \in {Panel(readings[s])} : \A h \in Hours(readings[s]) :
    \A known \in {Known(readings[s], h)} :
      /\ [DataSetFeatures(all, h) EXCEPT !.rank = Missing]
            = [DataSetFeatures(known, h) EXCEPT !.rank = Missing]
      /\ ExperimentFeatures(all, h) = ExperimentFeatures(known, h)

\* The level and the change that an hour has from upstream could for the lag
\* there is.  The lag itself could in the experiment, for the hours after those
\* it was estimated on; in the data set it could not.
UpstreamSeesNoFuture ==
  \A s, u \in Stations : <<s, u>> \in Upstreams =>
    \A down \in {Levels(readings[s])}, up \in {Panel(readings[u])} :
      \A lag \in {DataSetLag(up.level, down)}, travel \in {ExperimentLag(up.level, down)} :
        \A h \in Hours(readings[s]) :
          \A known \in {Known(readings[s], h)}, upKnown \in {Known(readings[u], h)} :
            /\ DataSetUpstream(up, h, lag) = DataSetUpstream(upKnown, h, lag)
            /\ h + 1 >= TrainUntil =>
                 /\ travel = ExperimentLag(upKnown.level, known.level)
                 /\ ExperimentUpstream(up, h, travel) = ExperimentUpstream(upKnown, h, travel)

FeaturesSeeNoFuture == OwnFeaturesSeeNoFuture /\ UpstreamSeesNoFuture
=============================================================================
