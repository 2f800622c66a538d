# Flood Alerts LK in TLA+

A specification of the flood-warning system in this repository: the server
`src/floodwatch-backend` (FastAPI, SQLAlchemy, APScheduler) and the app
`src/flood_alerts_app` (Flutter). Phones send location pings and answers, the
server scores regions from gauges, rain and answers and queues *proposals*, an
operator approves a proposal, and the *alert* is committed, pushed, and later
retracted or left to expire. Beside it stand the pipelines that judge it: the
evaluation of stored snapshots, the data set builder, and the experiment under
`ml/`. Paths below are relative to `src/floodwatch-backend`, its `app`, and
`src/flood_alerts_app/lib`.

## The system

| Part | State | Operations | Interacts with |
|---|---|---|---|
| Risk evaluation (`risk.py`, `scheduler.py`) | `alert_proposals`, snapshots | `evaluate_all`, `maybe_propose`, every 10 minutes or by `POST /admin/evaluate` | reads pings, readings, rain, answers, live alerts |
| Alert service (`alerts_service.py`, `routers/admin.py`) | `alert_proposals`, `alerts`, `alert_regions` | approve, dismiss, retract, manual alert | calls push; decides the rows evaluation writes |
| Push (`push.py`) | `devices` | `send_alert`, pruning of dead tokens | FCM |
| Active alerts (`routers/alerts.py`) | none | `find_active_alert_for` | reads what the alert service commits |
| Ping ingest (`routers/locations.py`) | `location_pings` | `POST /locations` | unique key on (user, recorded_at, source) |
| Account, devices, feedback, sign-in (`routers/*`, `deps.py`, `security.py`) | `users`, `devices`, `feedback`, `consent_records` | register, log in, delete account, register token, answer, consent | 401 tears the app's session down |
| Upstream ingest (`ingest/*`) | stations, readings, rain | scheduled fetches with unique keys | feeds evaluation |
| Retention (`retention.py`) | deletes, roll-up rows | `rollup_and_purge`, nightly or on an operator's request | pings, readings, answers |
| Evaluation (`evaluation.py`) | none | `metrics_for_engine`, `compare` | reads snapshots and flood events |
| Data set builder (`scripts/build_dataset.py`, `dataset_sources.py`) | cached answers, the reading archive, CSV files | a run, by hand | upstream services |
| Experiment (`ml/`) | none | features, labels, splits, threshold, lead times | the data set or simulated hours |
| Rate limit (`ratelimit.py`) | windows in memory | `allow` | a refusal is 503, never 4xx |
| Location service (`services/location_service.dart`) | queue in memory and on disk, load memo, flush flag, session counter, throttle | automatic and manual uploads, drain, enqueue, clear | API client, position stream |
| Session (`auth_*`, `home_provider.dart`, `main.dart`) | token in memory and in secure storage, status | sign in, log out, 401, restore | tears queue, banner and consent down |
| Consent (`consent_*`) | a record per account, an unsynced list, status | grant, withdraw, sync | `POST /consent` |
| Home (`home_provider.dart`, `alert_service.dart`, `feedback_service.dart`) | banner, request counter, device registration | refresh, submit | pushes, pull-to-refresh |

What is hard here: handlers run in worker threads and the scheduler's job in
another, each with its own session, and nothing locks a row between a read and
the commit; the app interleaves tasks at every `await`, and sessions end and
begin while requests are out; answers are lost and requests repeated; both
processes can die between two writes. `PROJECT.json` lists each hazard at its
line, with the properties that cover it or the reason why none does.

What makes each part correct: no worse input with a better score and no alert on
answers alone (risk score); one proposal per wet region and no lost escalation
(evaluation); an alert only after a decision, a push only after the commit, an ended
alert stays ended (alert service); every ping once on the server and none forgotten,
and no account sends another's (location service with ingest); no state of one account
shown to or acted on for the next (session, home, consent); units and overwrites right
and nothing in reach missed (upstream ingest); nothing purged uncounted (retention);
an erased account leaves nothing, and consent in force is current (account); figures
that mean what their table says, and no feature that knows the future (evaluation,
data set, experiment).

## Modules

| Module | Models |
|---|---|
| `AlertLifecycle` | a scoring pass, proposals, operators' requests, alerts, push |
| `AlertContract` | what the alert service promises, without threads, copies and tables; `AlertLifecycle` implements it |
| `AlertLifecycleProofs` | for every instance: its types, the audit trail, push after commit, what holds while one thread evaluates and one operator decides, and that it implements the contract |
| `LocationQueue` | uploads, retry queue and sessions on a phone, the ping table |
| `LocationQueueProofs` | that the queue is sound, keeps accounts apart, and forgets nothing |
| `ClientSession` | who is signed in, the consent gate, position stream, banner and the teardown |
| `ClientSessionProofs` | its types, that no consent record is lost and the banner never goes back |
| `RiskScore` | the rule engine over the changing inputs of one region |
| `RiskScoreProofs` | its scores for every input, and that they are monotone |
| `GaugeIngest` | stations and readings from two upstream layers |
| `GaugeIngestProofs` | that passed rows are stored and wrong units end |
| `RainIngest` | gridded rain, and the sums that read it |
| `RainIngestProofs` | that no forecast passes for rain and no hour is lost |
| `Accounts` | sign-in, consent, devices, feedback, erasure and the purge on the server |
| `AccountsProofs` | erasure, consent, tokens and the purge for any number of requests |
| `Experiment` | splits, threshold and lead times of the experiment, as operators |
| `Evaluation` | the backend's metrics over a course of snapshots and floods, beside the experiment's |
| `StationHours` | the hourly panel and its labels, as operators |
| `GaugeFeatures` | the features of a gauge's hours and of the gauge upstream, while readings come in |
| `Dataset` | the runs of the data set builder: feed, cache, archive |
| `PipelineProofs` | what the figures mean, for every course of events; what archive, labels and features rest on, for any data |
| `MC...` | symmetry and inputs for the instances TLC checks; the other values are in the `.cfg` files |

Definitions commented `Slip:` stand before the one they vary. They are plausible
mistakes in that code, part of no specification; replacing the definition by its
slip must make a property fail, which shows that the property watches the code.

### AlertLifecycle

`proposals` and `alerts` are the tables, as sequences in order of insertion.
`eval[e]` is what a scoring thread has in its session: the regions still to do,
the result for the current one, the row it loaded and the severity it loaded
with it. `req[h]` is a request's copy of a proposal. A transaction is one step;
between its steps a thread sees the world change, exactly as the SQLAlchemy
sessions do under READ COMMITTED (and in SQLite, where each statement before the
commit reads what is committed). A commit writes the columns that the thread
assigned a *new* value, as the unit of work does: `Refreshed` and `Decided`.

| Code | Action |
|---|---|
| `populated_regions` | `StartPass` |
| `evaluate_region`, the skip in `evaluate_all`, `now = utcnow()` | `ScoreRegion` |
| first query of `maybe_propose` | `ReadPending`, then `Refresh` or the end |
| second query | `ReadLive`, then `Insert` or the end |
| an exception in the job | `PassFails` |
| approve, up to `publish`'s clock reading | `ApproveRead` |
| manual alert, its own commit, then `db.refresh` | `ManualInsert`, `ManualReload` |
| `publish`: first commit, `send_alert`, second commit | `PublishCommit`, `Push`, `Stamp` |
| dismiss | `DismissRead`, `DismissCommit` |
| retract | `Retract` |
| an error or a crash between steps | `RequestFails`, `Crash` |

The engine is abstracted to `level`: any of the `Results` at any time. A result's
score is in units of 1e-4, as it is stored, and its severity is picked *before*
rounding, so a score on a threshold may carry the severity below it (`Bands`).
Titles and messages are known by the severity they were written for, or as the
operator's. A cell is an atom: an alert for a coarser cell is not seen inside
it. `explanation` moves with `score` and is left out, `decided_at/by` too.
`Queryable` is the lookup behind GET /alerts/active: the pass reads live alerts
with the same condition, less the one on `issued_at`. Time is in units of six
hours, the default life of a "low" or "moderate" alert.

### LocationQueue

Dart switches tasks only at an `await` that waits, so a step runs from one such
`await` to the next. `task[t]` is an upload in progress: its ping, the session it
began in, the drain's copy of the queue. `net` holds requests that were sent;
`Ingest` serves one at any later time, also after the client gave up on it.
`LogOut`, `WipeMemory` and `WipeDisk` are the teardown's steps (`stop` and the
first half of `clearQueue`, then the removal of the stored list); a 401 starts
the same teardown and drops the token at once. The deletes of the stored token are
not waited for after a 401, so it may be gone at once or only with the teardown's end
(`saved' \in {saved, NoUser}`). `Crash` keeps the stored queue and the stored token,
and `restoreSession` takes that token up, a dead session's too. `owed` is a history
variable: the pings whose failures could all be retried so far. A ping is no longer
owed when the server refuses it, when a 401 or a portal's page makes the client drop
it, when the cap pushes it out, or when its session is torn down: all of these the
code does on purpose.

`Position` asks only whether the stream is open (`stream`), as `_onPosition` does, and
`StreamStarts` opens it whoever is signed in, for `requestAccess` may call `start` after
its session has ended (`location_service.dart:187`). So a ping may be nobody's
(`owner[n] = NoUser`), and two properties say whose pings go where:

* `NoOthersPings` holds and is proved: no ping that one account recorded waits for
  another to send it. It leaves out, by name, pings taken once their session had ended
  (`late`) and what a kill in the middle of a teardown leaves behind (`stranded`); both
  can reach the next account.
* `DrainSendsOwn`, that a queued ping goes out with its recorder's token, is violated
  (Findings, 1): a ping of nobody waits for the next account, and the guards compare
  sessions when a drain ends, not at each post.

Simplified: any tick of the position stream may upload (a slow drain outlasts
the throttle), and the stored preferences never fail. `LogIn` waits until no task is
at a storage step: typing credentials and a round trip take longer than a local write.
When the stream is opened is `ClientSession`'s subject; here it may happen at any time
once the queue is loaded.

### ClientSession

`flow[f]` is an async function that waits; a step runs to the next `await` that
waits. `kind` says which function it is, `pc` what it waits for.

| Code | Action |
|---|---|
| `AuthGate.build` | `FrameLeave`, `FrameLoad` (splash), `FrameHome` |
| `_persist` | `LogIn`, `Persisted` |
| profile: log out, withdraw; consent screen: agree, no thanks | `LogOut`, `Withdraw`, `Grant`, `Decline` |
| `onUnauthorized` on a request or a ping | `Unauthorized`, `PingUnauthorized` |
| `resetForLostSession` | `ResetBegins` inside those, `Cancelled`, `Cleared` |
| `AuthService.logout` | inside `Cleared`, then `Forgotten` |
| `loadFor`, `syncPending`, `_push`, `_markUnsynced` | `Loaded`, `Answered`, `Marked` |
| `onSignedIn`, `requestAccess`, `start` | `FrameHome`, `Ask`, `CallStart`, `StartEnds` |
| `registerDevice`, `unregisterDevice` | `SendDevice`, `Answered`, `AfterDevice` |
| `refreshAlert` | `Refresh`, `SendGet`, `Serve`, `Show` |
| a kill, then `restoreSession` | `Restart` |

`_alertRequest` and `_session` are only ever compared with a copy of themselves,
so a flow keeps the outcome: `valid` is FALSE once the counter has moved.
After a 401 the deletes of the stored session are not waited for: `BeingDeleted` are
the accounts whose teardown is still under way, and `Restart` takes up the token, the
account shown, or one of these. `_loadedFor` is not a variable because its guard also asks for a status that is
known, and `AuthGate` calls `loadFor` only while it is unknown.

`POST /consent` is always refused here, because it always is: `ConsentRecord.toJson`
sends `version`, and the server's `ConsentRequest` requires `noticeVersion`. What
a device request changes on the server is outside the module, so its answer only
moves the flow on. That a request ends is the client's timeout of 20 s; the
reading of a body (`Response.fromStream`) is not under it, and the module assumes
that it ends too.

`Settled`: people act only when no flow is at a step of the phone's own storage,
for a tap or a login takes longer than a local write. Frames, requests and the
platform's dialogs are not so bound, and the races found are theirs.

### RiskScore

`ctx` is the code's `RegionContext` without what no score depends on. The actions
change one input each (`Reading`, `Silence`, `StationRefreshed`, `RainFetched`,
`Answer`, `Lapse`); every sub-score and `RulesV1Engine.score` is an operator over
it, so that a property can compare the score of a context with that of a worse
one. `Score` keeps the order of the code: weighted mean of the inputs there are,
override, bonus, cap, then severity, then rounding. `station_km or 99` takes a
distance of 0 for none, and a level of 0 is missing where the code says `or` and
is a level where it says `is not None`; both are kept. Doubles are integers in
millionths, rounded down at each division; the settings have the defaults of
`config.py`. `Rises` stands for what older readings yield, and the windows' sums
and joins for the numbers they give.

`AlertLifecycle` takes a result as a pair of score and severity with the severity
in `Bands(score)`; `ResultsFitBands` is that assumption, checked and proved here.

The dashboard (`admin.py`) shows a state of each gauge that the engine does not
use; `GaugeState` is that state, and `MajorFloodIsHigh` says that within 10 km the
two agree. `RainfallOnly` is the baseline engine, which stores snapshots beside it.

### GaugeIngest and RainIngest

A thread is the scheduler's job or a request; a step is a page, a row with its own
commit, a statement of the stations' refresh, or an hour of rain with its own
commit. Upstream is external: `feed` only grows at its head, `listed` is what
hydrostations has, and both are read as they are when a page is asked for. A
reading's level is the unit it was converted from (`Converted`), rain's amount the
time its answer was given, because that is what can be wrong with either. `Compared`
keeps the 1000 rows of `check_threshold_agreement`; what it finds missing is what
`WrongUnitsEnd` is stated with, for it is what an operator sees. The levels of a
station and the comparison of levels are not kept.

`EveryReadingArrives` has `OutOfReach` in it because the code has: the job reads one
page of the newest rows, so a reading is lost for good if more than a page of newer
rows comes first, and a level that is no number ends the run before the rows below.

### Accounts

Each request is a session of its own: `Begin` reads, a commit is a step, and the
rows an erasure has deleted and not committed are in `gone`, where nobody else may
write. `Cascade` and the refusal of a row whose account is gone stand for the
foreign keys as PostgreSQL enforces them (`DATABASE_URL`'s default is SQLite, which
does not unless told to). `nic` numbers, tokens and versions are atoms. `withdrawn`,
`letGo`, `late` and `uncounted` are history variables of the properties; an account has
let a phone go when it unregistered it, and also when another account registered the
phone's token (`Holder`). A stale
token of a deleted account is refused (`current_user`); `tokens_valid_from` is read
there and set at registration only, so it is not a variable.

### Experiment and Evaluation

A behaviour of `Evaluation` writes a course of slots, in each a flood or none and a
snapshot's severity or none, and at every length of it the properties compare the
operators: `metrics_for_engine` with its floored hours, and the experiment's
`choose_threshold` and `lead_times` over the same course as a frame of hours. Flood
events are entered by hand, so their onsets are the slots'. `SlotsPerHour` slots to the
hour let an onset and a snapshot fall within an hour of each other, which is what
the flooring is about.

### StationHours, GaugeFeatures and Dataset

`StationHours` is the hourly panel of `build_station_hours` and the labels of
`_add_labels` and `ml/features.py`, as operators on a set of readings, with missing
values as empty sets. An hour keeps its last reading, so a negative label says that no
hour of its window *ended* at the level or above, and nothing of a reading between,
though the docstring does (Findings). A positive label may stem from a value carried forward from before
its hour (`LabelsAreWitnessed` has the bound).

`GaugeFeatures` brings in the readings of all gauges and computes, of the panels they
give, every feature of an hour in both pipelines, and for each pair of `Upstreams` what
the hour has from the gauge above. The lag is estimated as the code does: `Both` are
the hours that both gauges have, `Pairs` shifts by rows and not by hours,
`BestLag` is the first of the greatest. Correlations are compared exactly, as
covariance and product of variances in integers, where the code compares floats.
`_estimate_lag` asks for 48 hours and tries 12 lags, `estimate_travel_times` for 500
and 18; these are the constants `DataSetSearch` and `ExperimentSearch`. `TrainUntil` is
the end of the training split, fixed here; it is a share of the hours in the code, and
estimation happens once.

`FeaturesSeeNoFuture` compares the features of an hour over all readings with those
over `Known`: the same hours up to it, made of the readings that had come by its end.
(Which hours have a row depends on the newest reading, so the calendar is kept.) What
could not have been computed then is left out by name, and is all there is:

* `level_pct_rank` of the data set, which ranks among all hours (`build_dataset.py:283`).
  Its comment says otherwise (Findings).
* `upstream_lag_hours` of the data set, estimated over all hours
  (`build_dataset.py:388`). The upstream level depends on later readings through it, and
  so the property takes the stored lag as given: for that lag, the level is upstream's
  own past.
* the experiment's lag in the training hours themselves, which is estimated over all of
  them. From the last of them on (`h + 1 >= TrainUntil`) the lag is past.

Not in it: which gauge is upstream (a ranking by elevation), counts over a basin, and
the minima and means of windows, which are computed as the maxima are.

`Dataset` brings the readings together: a run fetches the station list and the
pages one by one, from upstream or from its cache, merges them into the archive and
writes it; it may fail, be offline, or be killed while it writes the cache or the
archive. The rain of an hour is the gauge's own, as where ERA5 has no value.
`SettledLabelsStay` speaks of the panel that any such archive gives.

## Runs

| Run | Instance | Shows |
|---|---|---|
| `alert_safety` | 1 region, 1 evaluator, 2 handlers, 2 requests, severities low and moderate with a rounded score, manual alerts, one clock tick; 1.7 million states | races of two requests and a pass keep all safety properties, and all of it implements `AlertContract` |
| `alert_one_operator` | 2 regions (one with a station), 1 evaluator, 1 handler, 2 requests, one tick, one crash or failure anywhere; 0.7 million states | one standing proposal, one alert per proposal, and the liveness properties |
| `queue_safety` | 2 accounts, 2 uploads at once, cap 2, 3 pings of which one is refused, 2 teardowns, 1 kill, a stream that may run signed out; 6.9 million states (symmetric) | the queue is sound, keeps accounts apart and forgets nothing |
| `queue_sender` | 2 accounts, 1 upload, 3 pings, 1 teardown | finding: a ping taken signed out goes out with the next account's token |
| `session` | 1 account, 2 flows, a 401, 2 states of the server's alerts, 1 kill; 0.65 million states | the banner, the consent records, the guard of `start`; nobody stays on the splash, no stream without a session stays |
| `session_consent` | 2 accounts, no kill, no 401 | finding: the gate opens for an account that has not consented |
| `risk_inputs` | 8 kinds of gauge or none, 4 levels, 3 rises, 3 rains, 3 forecasts, up to 8 participants; 165 thousand contexts | worse inputs never score lower, a major flood is high, severities fit scores |
| `ingest_readings` | 2 gauges, one in feet, pages of 2, 3 readings, the job and an operator, 1 fault; 0.7 million states | no row twice or missing behind a run, wrong units end, readings arrive |
| `ingest_rain` | 2 cells, 2 threads, an hour back and one ahead, 3 hours, 1 fault; 1.0 million states | forecasts stay forecasts, no hour is lost |
| `accounts` | 2 people, 2 accounts, 1 phone, 2 requests at once, 6 in all, 2 notices; 5.1 million states (symmetric) | erasure, consent, tokens and the purge under races |
| `pipelines` | `Evaluation`: up to 6 slots of half an hour, severities and gaps, both floors, 0.3 million courses. `GaugeFeatures`: 2 gauges, one above the other, 3 readings each, gaps of 1 or 5 half-hours, 3 kinds of reading, 67 thousand states. `Dataset`: the same gauges and kinds, 3 readings, a view of 2, pages of 1, 2 runs, 1 kill or cleared cache, 1.5 million states | lead times, floors and thresholds mean what they say; labels follow the hours' last readings; but for what is named above, features see no future; settled labels stay |
| `dataset_feed` | the same | finding: the second run does not keep what the feed shows |

Bounds, and why they are enough. Two requests and two handlers give every pair of
operator actions every interleaving with a pass; a third actor adds nothing, for each
hazard is between a reader and one writer. One tick of six hours lets a low or
moderate alert expire between any two steps. In the queue three pings are one more
than the cap and one more than the uploads; two teardowns let a third session meet
remains of the first. In a session two flows are one async function and the teardown,
or the answer of one and the newer request of another, which is what each hazard of
the session needs; a reordered banner needs two states of the alerts. `session` has
one account: the accounts share no state but the gate, which `session_consent` is
about, and symmetry would be unsound for liveness. In the ingest a page of two and
three readings give a full page, a second page and a row pushed out of reach; two
cells are the one in hand and the one still to ask. Two requests at once are every
pair of statements of two handlers, and six in all let one account be made, used,
erased and made again. In `pipelines` the three modules share no state, so TLC moves one of them
at a time with the others where they began (`MCNext`). The window of an evaluation begins within an
hour (`Sinces`). A gap of half an hour puts two
readings in an hour; a reading without a level between two gaps of two and a half hours
makes one longer than `CarryLimit`; the searches ask for 3 hours and try 2 lags, so that
both the estimate and the default occur, and hours lie on both sides of `TrainUntil`.
Three readings in the feed are one more than the view shows; two runs are the first time
and the repetition. Where deadlock checking is off (`LocationQueue`) the
system stops because every bound is reached; `Evaluation`, `GaugeFeatures` and `Dataset`
have a step for it (`Done`, `AllRead`, `DataDone`). Faults are in `alert_one_operator` rather than in
`alert_safety` to keep the latter small; the theorems cover both together.

Fairness (`FairSpec`, used for liveness only): weak fairness of each scoring
thread, for the scheduler starts the job at every interval and a pass makes
progress; weak fairness of a request's later steps, for a handler that started
runs on. Operators' new requests, the weather and the clock are not fair, and
neither is `PassFails`, of which there is a bounded number.
In `ClientSession`: weak fairness of a flow's steps (storage, the platform and
requests end), of the stream's cancelling and of the end of a login; strong
fairness of frames and of the 401 to a ping without a token, because both need a
free flow and `Flows` is a bound of the model that the code does not have: a
refresh at every push must not be able to use it up. A ping is due every minute
(`AppConfig`), and one of them gets through. In `GaugeIngest` only the job's thread
is fair: the scheduler starts it at every interval, and nobody has to press a button.

`WetRegionStands` holds because a dismissed or expired warning is proposed again
by the next pass. `EveryAlertPushed` has "unless a fault came" in it because the
code has no recovery: a crash between `publish`'s two commits leaves a live alert
that nobody was told of.

### Findings

1. A position stream opened after its session ended (`location_service.dart:187`) ticks
   with nobody signed in; offline, the ping is queued, and the account that signs in next
   sends it with its own token (`queue_sender`), against `home_provider.dart:97-98`:
   "Queued pings belong to the user who recorded them". Without that stream the property
   fails another way: a drain that waits across a logout and a login posts the rest of
   the previous account's pings with the new token (`location_service.dart:375`).
2. A logout resets the consent status before `auth.logout()` has ended. A frame in
   between finds the account still shown and loads its consent again; the next
   account on the phone is let through on it (`profile_screen.dart:22`;
   `session_consent`). A 401 to the consent request does the same: `grant` sets the
   status after the reset.
3. The data set builder caches upstream pages by their number and uses a cached page
   whatever its age, so a second run merges the first run's pages again and the
   archive does not grow (`dataset_sources.py:74`; `dataset_feed`), against
   `build_dataset.py:131`.

Known disagreements of code and comments that no run checks, each at the border of a
property that does hold:

* `maybe_propose` is check-then-insert without a lock: the job and
  `POST /admin/evaluate` at once queue two proposals (`risk.py:597`). With two
  `Evaluators` in `AlertSafety.cfg`, `OnePendingPerRegion` fails.
* The live-alert query takes any row; with two alerts live it can miss the more
  severe one and propose what is no escalation (`risk.py:614`; three requests).
* `_flushQueue` assigns its own copy over entries queued meanwhile
  (`location_service.dart:393`); `NothingForgotten` says "but by the overwrite".
* A kill between the dropping of the token and the removal of the stored queue leaves
  the queue to the next account (`location_service.dart:436`); `NoOthersPings` says so
  (`stranded`).
* A kill after a 401 and before the deletes that it does not wait for restores the dead
  session (`auth_provider.dart:83`); the next request's 401 ends it again.
* A kill between storing a consent record and noting that its push failed loses the
  retry (`consent_service.dart:67`); `NoRecordForgotten` says so (`cut`).
* Two operators who both read "proposed" publish twice, and a dismissal can overtake an
  approval, which leaves a dismissed row with a live alert (`alerts_service.py:60`, `:76`);
  the contract permits both.
* A failure between the two commits of a manual alert leaves a row that awaits a
  decision with a score no pass can exceed, and silences its region
  (`admin.py:378`); no run has manual alerts and failures together.
* A ping stored between the roll-up's count and the delete is purged uncounted, and two
  runs at once count twice (`retention.py:70`); `PurgedAreCounted` says so (`late`).
* An hour of the panel keeps its last reading (`build_dataset.py:220`), so a level that
  is reached and left again within an hour leaves a label of 0, against
  `build_dataset.py:422`: "1 if the station reaches that threshold at any point in the
  next H hours"; `LabelsAreWitnessed` is about the hours' last readings.
* `level_pct_rank` of the data set ranks among all hours, later ones included
  (`build_dataset.py:283`), against line 281: "Percentile against this station's own
  history". The experiment ranks among the past. `FeaturesSeeNoFuture` leaves it out.
* A signal is flagged `crowdOnlySignal` below a physical support of 0.35 but capped
  only below 0.30; in between it becomes a proposal (`risk.py:461`).
* A reading that came before the first refresh of the stations is in feet for good
  (`irrigation.py:188`); `WrongUnitsEnd` is about the readings after it.

Seen while modelling, without a run of their own: the server refuses every consent
record (`consent_service.dart:76`), so the retry list never empties; a withdrawal does
not call `consent.reset`, unlike a logout; a refresh begun while a teardown waits
shows the old account's banner after it (`home_provider.dart:95`); a `start` of a new
session returns at once while the old session's still waits, and the new one has no
stream (`location_service.dart:84`); a withdrawal, which the dialog says stops sharing
immediately, stops the stream after two requests of up to 20 s each
(`profile_screen.dart:64`). In the engine: `crowd_subscore`'s docstring says zero
below the respondent floor, not None, so that a thinly covered region does not look
more certain, and the code returns None and the weight moves to the others
(`risk.py:379`); a major level published as 0 counts as exceeded by every reading, and
a station without an alert level has its major flood capped when it is dry
(`risk.py:422`); a gauge at distance 0.00 lends no rain (`risk.py:253`); a forecast of
50 mm alone scores 0.5, "moderate", where the comment says it is a reason to watch and
not to warn (`risk.py:373`). In the ingest: the stations job is added paused and never
runs (`scheduler.py:69`); an hour without rain data is stored as 0 mm
(`rainfall.py:91`); a failed threshold comparison looks like agreement
(`irrigation.py:234`). On the server: the unregistering of a device and the pruning of
stale tokens delete by id a row that may belong to another account by then, which then
gets no alerts (`devices.py:57`); `IntegrityError` is not caught in `feedback.py:62`.
In the pipelines: the first hour of a flood, if it began within it, is no flooded
hour, so a warning in it is a false alarm per hour and a detection per event
(`evaluation.py:80`, `:117`); the travel time from upstream is stored with hours that
came before the readings it was estimated from (`build_dataset.py:388`); the archive is started afresh
when a kill left it unreadable (`build_dataset.py:139`); an empty or cut answer is
cached for good (`dataset_sources.py:98`); a gauge upstream without a row for an hour
gives no lagged value although there is one (`build_dataset.py:390`); validation
labels reach up to a horizon into the test split (`run_experiment.py:130`).

## Proofs

All are checked by TLAPS, and every theorem holds for every value of the constants
that the assumptions at the head of its module allow: any regions, threads, accounts,
phones, pages, caps, severities, thresholds, request parameters and bounds. A theorem
that needs more says so in its own ASSUME. What follows gives, for each, the inductive
invariant and why the property alone is not one.

**Alerts** (`AlertLifecycleProofs`)

* `TypeCorrect`. `TypeOK` is not inductive: an index that a thread carries could point
  outside the table. `Refs` adds that it does not, which holds because rows are never
  deleted.
* `AuditTrailKept`. `AuditInv` splits the property into a part for alerts and a part
  for rows and adds `CopiesStay`: a handler that is about to publish an already
  approved row (a manual row approved by someone else meanwhile) finds it named by an
  alert. Every action that writes a row is one of four (`RowChanges`), and each keeps
  region, engine, decision and alert (`Kept`).
* `AlertsOnlyEndAlways`, `PushFollowsCommit`: action properties from the same
  invariants.
* `OnePendingIfOneEvaluator`, `SeverityIsTheScores`, `ProposalsEscalate`,
  `AlertsNeverExaggerate` assume `OneEvaluator`, which is needed (see Findings).
  `PassInv` says what the thread still *knows*: after its two reads no row of the
  engine's awaits a decision in its region, and the row it is to refresh has the
  severity it loaded and a lower score. Handlers cannot falsify either, and only this
  thread inserts or refreshes. `CopiesBelow` carries the order of severities from the
  row through a handler's copy to the alert; `BandsMonotone` is where rounding comes
  in. For the wording, `RowsWorded` bounds the title by the row's severity, which rises
  under it, and keeps manual rows, whose score no pass can exceed, in the operator's
  words; a handler's copy takes severity, title and message at one moment (`CopiesFit`).
* `PublishedOnce` assumes `OneHandler`: with two, both may read a row as proposed.
  `WaitsForPublish` says that the row which the request in hand will publish still
  awaits its decision; a pass may refresh that row but decides nothing. A row that
  awaits has no alert (`AuditInv`), so that the new alert is its first.
* `OneProposalStands` assumes in addition one scoring thread, one warning severity and
  no manual alerts, as the run does. All are needed: a more severe result is proposed
  beside a live alert by design, and a manual alert beside anything. `StandInv` adds
  what the thread knows of its region (`KnowsStanding`): when it looks for live alerts
  nothing awaits, and when it inserts nothing stands. A proposal stands again only by
  a commit in that region, and with one severity the lookup cannot overlook an alert.
* `ContractKept`: `AlertLifecycle` implements `AlertContract` under the mapping at
  its end: `issued` is what the committed alerts say, `over` those retracted or
  expired by the clock, `told` those a push left for, `decided` the proposals with a
  decision. `TypeOK`, `Refs` and `AuditInv` suffice; each action maps to one step of
  the contract or to a stutter, and the clock's tick is an `End` of all alerts that
  expire at once.

**The phone's queue** (`LocationQueueProofs`)

* `QueueTypesCorrect`, `QueueAlwaysSound`. `ListInv` has the same of the lists that an
  upload carries (`Carries`: the rest of its copy of the queue, without repetition),
  because the end of a drain assigns that copy to the queue; and that a ping just
  taken is in no list yet (`Fresh`), for `_enqueue` does not look for it.
* `QueueKeepsAccountsApart`. `FlushInv`: one upload drains at a time, and only once the queue is
  loaded, so that whoever changes the queue in between is an `_enqueue`. `OwnInv`
  follows a ping from its fix through an upload of the current session to the queue
  and the stored queue, and through the steps of a teardown: what memory may hold
  before the wipe, the store may hold until the removal. It is stated with the account
  whose token is *stored* (`saved`), because after a 401 nobody is signed in and a kill
  may bring that account back; pings of nobody are let through it (`Stray`), and an open
  stream with nobody signed in adds no others.
* `NothingIsForgotten`. `OwedInv`: an upload that holds an owed ping is of the current
  session, its request carries the account the ping is of, and what a drain has gone
  past in its copy and the queue still has is delivered (`AccountsFor`). So the copy
  it assigns at the end lacks only what the server has, and what came meanwhile, which
  is the exception in the property.

**The session** (`ClientSessionProofs`)

* `TypeCorrect` needs the states a waiting function can be in (`Shaped`: which `pc`
  each `kind` has, and whose account it carries) and `OneStart`: `_starting` is a
  flag, and it says whether a function waits in `start` only if at most one does.
* `RecordsAreKept`: the three places a record can be are exhausted by what a push
  becomes at each step (`Moves`), also when a reset voids it.
* `BannerIsMonotone`: at most one request has not been overtaken, and its answer is
  not older than the banner (`BannerInv`); the counter is what makes that so, and a
  teardown only sets the banner to nothing.

**Risk score** (`RiskScoreProofs`)

* `ScoresInRange`, `ResultsAlwaysFitBands`, `MajorFloodIsAlwaysHigh` hold for every
  station, level, rain and crowd: `InputsOK` is inductive, and lemmas give each
  sub-score's range (`LevelBaseType`, `FadedRange`, `GaugeRange`, `RainfallRange`,
  `CrowdRange`) and what override, bonus and cap leave of it (`ScoreRange`). The
  flood case rests on `FadedRange`: at the search radius a gauge still counts by
  half, and half is above the cap's threshold. `Banded` and `BaselineRange` are the
  same for the baseline engine, `StateLevels` and `NearGauge` tie the dashboard's
  state to the sub-score.
* `WorseNeverScoresLowerAlways` compares two contexts with the same inputs, none of
  them milder in the second (`Graver`). Each sub-score is monotone (`LevelBaseMonotone`
  for flood levels in any order, `GaugeMonotone`, `RainfallMonotone`, `CrowdMonotone`),
  rounding down included: the way from one level to the next is worth a quarter and no
  more (`Interpolated`). The mean is taken over the same weights, and so is monotone too
  (`FusedMonotone`), as are override, bonus and cap in their order (`ScoreMonotone`).
  `RainAlone` is the agreement with the baseline.

**Ingest** (`RainIngestProofs`, `GaugeIngestProofs`)

* `ObservedAlwaysMeasured`, `NoHourEverLost`. `RainInv` relates a thread to the table:
  an answer is not older than the run's clock (`InOrder`), the hours the thread has
  passed are stored as observations if they were past when it began (`PassedKnown`),
  and the row that was in its way may only have become an observation since
  (`ConflictStands`). Other threads cannot break that, because no step takes an
  observation back (`Grows`).
* `PassedAlwaysStored`, `WrongUnitsAlwaysEnd`. `GaugeInv`: the table has one row of
  each reading, what a thread has passed is stored, and a table of stations, the
  shared one or the older copy a thread holds, names no unit but the gauge's
  (`UnitsTrue`). A copy may lack a unit, and that is the only way a wrong one gets in.

**Accounts** (`AccountsProofs`)

* `AccountsInv` says what a request's session knows between its statements and which
  of it the commits of others leave true (`Knows`): the id it carries is drawn and,
  when it registers, nobody's (`IdsDistinct`, `DrawnBefore`); a withdrawal has found
  every record that stood when it began; a purge has counted the old pings that were
  there. With it follow `ErasureIsComplete`, for which the cascade at the last delete
  is what catches rows that came in between; `ConsentAlwaysCurrent`, from
  `ConsentInOrder`: the records that stand came after the last withdrawal that went
  through; `LetGoAlwaysStaysLetGo`, from the row that the request which lets go is about
  to remove (`LettingGoRow`), and because a registration leaves the row to nobody but
  the account that made it; and `PurgedAlwaysCounted`.

**Evaluation** (`PipelineProofs`)

These need only the type of a course (`CourseOK`); the work is in the operators.

* `LeadIsAlwaysWithinAnHour`, `MilderFloorAlwaysCatchesMore`: flooring is monotone and
  loses less than an hour (`HourOfSlot`, `HoursInOrder`), so the first warned hour is
  the hour of the first warning; a milder floor's warned hours include the stricter's.
* `HeldLeadIsNeverLonger` assumes a lookback of more than one hour; the code's is 24.
  The first of the hours that held (`HeldRows`) either begins within the backend's
  lookback or is cut by it, and then the next one begins within it (`HeldHours`). With
  one hour there is no next one, and the figures may differ by more.
* `PointIsAlwaysOfValidation`: F-scores are compared crosswise, which is transitive
  only where the denominators are positive (`CrossTransitive`); they are for every
  threshold that some hour has for a score, so that there is a best (`BestOf`), and any
  other number warns of what a score warns of or of nothing (`NoNumberBetter`). That
  nothing later matters is `SameChoice`.

**Features and labels** (`PipelineProofs`)

Any gauges, readings, gaps, thresholds, windows, searches and rivers, with any number of
readings.

* `LabelsAlwaysWitnessed`. `ReadingsInv` says that the readings of a gauge are finitely
  many and each has one level or none (`RowsOK`). The rest is about the panel made of
  them: a value in an hour was the last read in it or carried from at most `CarryLimit`
  hours before.
* `FeaturesNeverSeeFuture`. The two panels agree up to the hour (`PanelsAgree`,
  `KnownIs`), windows and sums are over the same hours (`WindowIs`, `SumsAgree`), and the
  antecedent precipitation index, a recursive function, agrees because there is no first
  hour where it does not (`ApiIs`). What comes from upstream agrees for whatever lag
  (`UpstreamKnown`; that a lag is a natural number is `LagIs`), and the experiment's lag
  agrees because the hours it is estimated over are all past (`TrainingKnown`).

**The data set** (`PipelineProofs`)

Any stations, readings, view, page size, number of pages and of runs, offline or not,
including the runs that find the archive unreadable and start it afresh. `SourceInv` says
that whatever the cached pages, a run and the archive hold was published.

* `SettledLabelsAlwaysStay`, an action property. A settled label stays if all that a run
  adds is newer than what the archive has (`AddsNewer`, `SettledStay`). That depends on
  how the archive came about, for a hole in it could be filled later. `HistoryInv` says
  that there are counts of readings, one for each cached page (`seen`, when it was fetched)
  and one for the archive (`upTo`), such that the pages are what the feed showed then
  (`AsSeen`), the archive has no hole in the reach of `upTo` (`Unbroken`), and a page has
  nothing the archive lacks unless it was fetched since (`Since`). With `InTurn` and
  `RunInv`, pages fetched in turn touch or overlap, though readings come in between
  (`PagesTouch`), so that a write leaves no hole either.

Model-checked only: the liveness properties `WetRegionStands`,
`EveryAlertPushed`, `EveryReadingArrives`, `SplashEnds` and `OrphanStreamStops`
(temporal reasoning with fairness is out of the prover's reach). Every invariant and
every action property that a passing run checks has a theorem.
Induction over data is out of reach in general; where one fixed set needs it, the
proofs use a smallest counterexample (`NatLessThanWellFounded` with `WFMin`): the
first of some positions, the last record of an account, the best of finitely many, the
first hour of a recursive function.

## Not modelled, and the plan

`PROJECT.json` lists every part with its status. Left out for good, because they keep
no state the system depends on or are numbers that no small instance tells apart:
screens and theming, validation of input formats, serialisation, platform
scaffolding; the simulator's hydrology, the training and calibration of models,
bootstrap intervals, figures and reports (`ml/`); region hours, quality reports and
file formats of the data set builder; the seeding script and the mock server; geohash
arithmetic; the rate limit, which clients meet as one more refusal.

What is left to do: the region prefixes behind GET /alerts/active and the choice of
devices for a push.
