--------------------------- MODULE AlertLifecycle ---------------------------
(***************************************************************************)
(* The life of a public flood alert in floodwatch-backend: a scoring pass  *)
(* queues a proposal, an operator decides it, an approval commits an alert *)
(* and then pushes it, and the alert is retracted or expires.              *)
(*                                                                         *)
(* The FastAPI handlers run in worker threads and the scheduler's job in a *)
(* thread of its own, each with its own database session.  A transaction   *)
(* is one step: what a thread has loaded stays in its state record between *)
(* its reads and its commit, as it does in the SQLAlchemy session, and a   *)
(* commit writes the columns the thread assigned and no others.            *)
(*                                                                         *)
(* Time is in units of six hours, the shortest default life of an alert.   *)
(***************************************************************************)
EXTENDS Integers, Sequences, FiniteSets

CONSTANTS
  Regions,          \* the geohash cells that can be scored
  StationRegions,   \* the cells with a gauge station: scored on every pass
  NoRegion,         \* what a thread with no region in hand records
  Evaluators,       \* threads that can be inside risk.evaluate_all
  Handlers,         \* threads that serve the operator's requests
  LowAt, ModerateAt, HighAt,  \* settings.score_low, score_moderate, score_high
  TopScore,         \* the score 1.0
  Levels,           \* the scores the engine may give a region, as rounded
  Ttls,             \* the ttlHours a request may carry; 0: none, or zero
  ManualSeverities, \* the severities of the alerts operators issue unasked
  MaxCalls,         \* bound: operator requests in a behaviour
  MaxTime,          \* bound: the clock
  MaxFaults         \* bound: crashes and failed requests or passes

ASSUME RegionAssumption ==
  /\ StationRegions \subseteq Regions
  /\ NoRegion \notin Regions

ASSUME ScoreAssumption ==
  /\ LowAt \in Nat /\ ModerateAt \in Nat /\ HighAt \in Nat /\ TopScore \in Nat
  /\ 0 < LowAt /\ LowAt <= ModerateAt /\ ModerateAt <= HighAt
  /\ HighAt <= TopScore
  /\ Levels \subseteq 0..TopScore

ASSUME RequestAssumption ==
  /\ Ttls \subseteq Int
  /\ ManualSeverities \subseteq {"low", "moderate", "high"}

ASSUME BoundAssumption ==
  MaxCalls \in Nat /\ MaxTime \in Nat /\ MaxFaults \in Nat

VARIABLES
  proposals,   \* table alert_proposals, a sequence of rows in order of id
  alerts,      \* tables alerts and alert_regions, likewise
  notified,    \* the alerts that a push went out for
  level,       \* what the engine would make of each region now
  clock,       \* utcnow()
  eval,        \* the state of each scoring thread
  req,         \* the state of each operator request
  calls,       \* operator requests made so far
  faults       \* crashes and failures so far

vars == <<proposals, alerts, notified, level, clock, eval, req, calls, faults>>

-----------------------------------------------------------------------------
(* Severities and rows.                                                    *)

Severities == {"low", "moderate", "high"}

\* risk._severity_for, "none" for None.
SeverityFor(score) ==
  IF score >= HighAt THEN "high"
  ELSE IF score >= ModerateAt THEN "moderate"
  ELSE IF score >= LowAt THEN "low"
  ELSE "none"

\* The severities a score may come with.  The engine picks the severity before
\* it rounds the score, to the unit here, so a score on a threshold may have
\* been rounded up to it.
Bands(score) == {SeverityFor(score), SeverityFor(score - 1)}

\* The rank tables of risk.maybe_propose and routers/alerts.py.
Rank(severity) ==
  CASE severity = "low" -> 1
    [] severity = "moderate" -> 2
    [] severity = "high" -> 3
    [] OTHER -> 0

\* DEFAULT_TTL_HOURS.
DefaultTtl(severity) == IF severity = "high" THEN 2 ELSE 1

\* A title and a message are known by the severity they were written for, or
\* as the operator's own words.
Wordings == Severities \cup {"operator"}

\* A RiskScore of the primary engine.
Results ==
  {x \in [score : Levels, severity : Severities \cup {"none"}] :
     x.severity \in Bands(x.score)}

Statuses == {"proposed", "approved", "dismissed"}

Proposal ==
  [region : Regions, engine : {"rules", "manual"}, score : 0..TopScore,
   severity : Severities, title : Wordings, message : Wordings,
   status : Statuses, alert : Nat]

Alert ==
  [region : Regions, severity : Severities, title : Wordings,
   message : Wordings, proposal : Nat \ {0}, issued : 0..MaxTime,
   expires : Int, retracted : BOOLEAN, pushed : BOOLEAN]

\* The WHERE clause of the two queries for live alerts, at time t.
LiveAt(a, t) == ~alerts[a].retracted /\ alerts[a].expires > t

LiveIn(r, t) == {a \in DOMAIN alerts : alerts[a].region = r /\ LiveAt(a, t)}

\* Slip: a dismissed proposal still counts as standing.
PendingOrDismissedIn(r) ==
  {p \in DOMAIN proposals : proposals[p].region = r
                            /\ proposals[p].status # "approved"}

PendingIn(r) ==
  {p \in DOMAIN proposals : proposals[p].region = r
                            /\ proposals[p].status = "proposed"}

\* What GET /alerts/active can return now.
Queryable(a) == LiveAt(a, clock) /\ alerts[a].issued <= clock

-----------------------------------------------------------------------------
(* Threads.                                                                *)

EvalIdle ==
  [pc |-> "idle", todo |-> {}, region |-> NoRegion, score |-> 0,
   severity |-> "none", at |-> 0, row |-> 0, seen |-> "none"]

ReqIdle ==
  [pc |-> "idle", row |-> 0, status |-> "proposed", severity |-> "low",
   title |-> "low", message |-> "low", ttl |-> 0, at |-> 0, alert |-> 0]

Init ==
  /\ proposals = <<>>
  /\ alerts = <<>>
  /\ notified = {}
  /\ level \in [Regions -> Results]
  /\ clock = 0
  /\ eval = [e \in Evaluators |-> EvalIdle]
  /\ req = [h \in Handlers |-> ReqIdle]
  /\ calls = 0
  /\ faults = 0

-----------------------------------------------------------------------------
(* A scoring pass: job_evaluate, or POST /admin/evaluate.                  *)

\* The thread's state once it is done with its region: the rest of the loop.
LoopOn(s) ==
  IF s.todo = {} THEN EvalIdle ELSE [EvalIdle EXCEPT !.pc = "scan", !.todo = s.todo]

\* evaluate_all reads populated_regions.  Where people are changes, so any
\* set of cells that has the stations' may come out.
StartPass(e) ==
  /\ eval[e].pc = "idle"
  /\ \E todo \in SUBSET Regions :
       /\ StationRegions \subseteq todo /\ todo # {}
       /\ eval' = [eval EXCEPT ![e] = [EvalIdle EXCEPT !.pc = "scan", !.todo = todo]]
  /\ UNCHANGED <<proposals, alerts, notified, level, clock, req, calls, faults>>

\* Slip: the pass does not skip a region without a severity.
ScoreRegionAll(e) ==
  /\ eval[e].pc = "scan"
  /\ \E r \in eval[e].todo :
       eval' = [eval EXCEPT ![e] =
         [@ EXCEPT !.todo = @ \ {r}, !.pc = "pending", !.region = r,
                   !.score = level[r].score, !.severity = level[r].severity,
                   !.at = clock]]
  /\ UNCHANGED <<proposals, alerts, notified, level, clock, req, calls, faults>>

\* evaluate_region on the next cell; below the lowest band nothing follows,
\* else maybe_propose begins, and takes its clock reading.  The regions come
\* in order of name, which here is any order.
ScoreRegion(e) ==
  /\ eval[e].pc = "scan"
  /\ \E r \in eval[e].todo :
       LET rest == [eval[e] EXCEPT !.todo = @ \ {r}]
       IN  eval' = [eval EXCEPT ![e] =
             IF level[r].severity = "none" THEN LoopOn(rest)
             ELSE [rest EXCEPT !.pc = "pending", !.region = r,
                               !.score = level[r].score,
                               !.severity = level[r].severity, !.at = clock]]
  /\ UNCHANGED <<proposals, alerts, notified, level, clock, req, calls, faults>>

\* Slip: the early return is indented under "the score is higher".
ReadPendingReturnsLate(e) ==
  /\ eval[e].pc = "pending"
  /\ \/ \E p \in PendingIn(eval[e].region) :
          eval' = [eval EXCEPT ![e] =
            IF eval[e].score > proposals[p].score
            THEN [@ EXCEPT !.pc = "refresh", !.row = p, !.seen = proposals[p].severity]
            ELSE [@ EXCEPT !.pc = "live"]]
     \/ /\ PendingIn(eval[e].region) = {}
        /\ eval' = [eval EXCEPT ![e].pc = "live"]
  /\ UNCHANGED <<proposals, alerts, notified, level, clock, req, calls, faults>>

\* Slip: the standing proposal is refreshed whatever its score.
ReadPendingAlwaysRefreshes(e) ==
  /\ eval[e].pc = "pending"
  /\ \/ \E p \in PendingIn(eval[e].region) :
          eval' = [eval EXCEPT ![e] =
            [@ EXCEPT !.pc = "refresh", !.row = p, !.seen = proposals[p].severity]]
     \/ /\ PendingIn(eval[e].region) = {}
        /\ eval' = [eval EXCEPT ![e].pc = "live"]
  /\ UNCHANGED <<proposals, alerts, notified, level, clock, req, calls, faults>>

\* The first query of maybe_propose: some pending proposal of the region.
ReadPending(e) ==
  /\ eval[e].pc = "pending"
  /\ \/ \E p \in PendingIn(eval[e].region) :
          eval' = [eval EXCEPT ![e] =
            IF eval[e].score > proposals[p].score
            THEN [@ EXCEPT !.pc = "refresh", !.row = p, !.seen = proposals[p].severity]
            ELSE LoopOn(@)]
     \/ /\ PendingIn(eval[e].region) = {}
        /\ eval' = [eval EXCEPT ![e].pc = "live"]
  /\ UNCHANGED <<proposals, alerts, notified, level, clock, req, calls, faults>>

\* Slip: the advice stays behind, as the title does.
RefreshedAsWorded(row, s, reworded) ==
  [row EXCEPT !.score = s.score,
              !.severity = IF s.severity # s.seen THEN s.severity ELSE @]

\* The row as the refresh writes it.  A column is written only if its new
\* value differs from the one loaded; a message that keeps its advice may
\* still have a new reason and so be written.  The title stays.
Refreshed(row, s, reworded) ==
  [row EXCEPT !.score = s.score,
              !.severity = IF s.severity # s.seen THEN s.severity ELSE @,
              !.message = IF s.severity # s.seen \/ reworded THEN s.severity ELSE @]

\* The commit that refreshes the standing proposal.
Refresh(e) ==
  /\ eval[e].pc = "refresh"
  /\ \E reworded \in BOOLEAN :
       proposals' = [proposals EXCEPT ![eval[e].row] = Refreshed(@, eval[e], reworded)]
  /\ eval' = [eval EXCEPT ![e] = LoopOn(@)]
  /\ UNCHANGED <<alerts, notified, level, clock, req, calls, faults>>

\* Slip: an alert of the same severity does not stop the proposal.
ReadLiveStrict(e) ==
  /\ eval[e].pc = "live"
  /\ LET s == eval[e]
         live == LiveIn(s.region, s.at)
     IN  \/ \E a \in live :
              eval' = [eval EXCEPT ![e] =
                IF Rank(s.severity) < Rank(alerts[a].severity)
                THEN LoopOn(@) ELSE [@ EXCEPT !.pc = "insert"]]
         \/ /\ live = {}
            /\ eval' = [eval EXCEPT ![e].pc = "insert"]
  /\ UNCHANGED <<proposals, alerts, notified, level, clock, req, calls, faults>>

\* The second query: some live alert of the region, in no order.  An alert at
\* least as severe stops the proposal.
ReadLive(e) ==
  /\ eval[e].pc = "live"
  /\ LET s == eval[e]
         live == LiveIn(s.region, s.at)
     IN  \/ \E a \in live :
              eval' = [eval EXCEPT ![e] =
                IF Rank(s.severity) <= Rank(alerts[a].severity)
                THEN LoopOn(@) ELSE [@ EXCEPT !.pc = "insert"]]
         \/ /\ live = {}
            /\ eval' = [eval EXCEPT ![e].pc = "insert"]
  /\ UNCHANGED <<proposals, alerts, notified, level, clock, req, calls, faults>>

\* The row maybe_propose inserts.
NewProposal(s) ==
  [region |-> s.region, engine |-> "rules", score |-> s.score,
   severity |-> s.severity, title |-> s.severity,
   message |-> s.severity, status |-> "proposed", alert |-> 0]

Insert(e) ==
  /\ eval[e].pc = "insert"
  /\ proposals' = Append(proposals, NewProposal(eval[e]))
  /\ eval' = [eval EXCEPT ![e] = LoopOn(@)]
  /\ UNCHANGED <<alerts, notified, level, clock, req, calls, faults>>

\* An exception ends the pass: _session_job, or a 500 to POST /admin/evaluate.
\* What the pass committed stays.
PassFails(e) ==
  /\ eval[e].pc # "idle" /\ faults < MaxFaults
  /\ faults' = faults + 1
  /\ eval' = [eval EXCEPT ![e] = EvalIdle]
  /\ UNCHANGED <<proposals, alerts, notified, level, clock, req, calls>>

EvalStep(e) ==
  \/ StartPass(e) \/ ScoreRegion(e) \/ ReadPending(e)
  \/ Refresh(e) \/ ReadLive(e) \/ Insert(e)

-----------------------------------------------------------------------------
(* The operator's requests.                                                *)

\* A handler's copy of a row of alert_proposals, with what the request says.
Loaded(p, message, ttl) ==
  [pc |-> "publish", row |-> p, status |-> proposals[p].status,
   severity |-> proposals[p].severity, title |-> proposals[p].title,
   message |-> message, ttl |-> ttl, at |-> clock, alert |-> 0]

\* Slip: a decided proposal can be approved again.
ApproveReadUnchecked(h) ==
  /\ req[h].pc = "idle" /\ calls < MaxCalls
  /\ \E p \in DOMAIN proposals, ttl \in Ttls :
       req' = [req EXCEPT ![h] = Loaded(p, proposals[p].message, ttl)]
  /\ calls' = calls + 1
  /\ UNCHANGED <<proposals, alerts, notified, level, clock, eval, faults>>

\* POST /admin/proposals/{id}/approve up to publish's clock reading.  A
\* proposal that is not "proposed" gets 409 and changes nothing.
ApproveRead(h) ==
  /\ req[h].pc = "idle" /\ calls < MaxCalls
  /\ \E p \in DOMAIN proposals, ttl \in Ttls, edit \in BOOLEAN :
       /\ proposals[p].status = "proposed"
       /\ req' = [req EXCEPT ![h] =
            Loaded(p, IF edit THEN "operator" ELSE proposals[p].message, ttl)]
  /\ calls' = calls + 1
  /\ UNCHANGED <<proposals, alerts, notified, level, clock, eval, faults>>

\* POST /admin/alerts/manual commits a proposal of its own ...
ManualInsert(h) ==
  /\ req[h].pc = "idle" /\ calls < MaxCalls
  /\ \E r \in Regions, severity \in ManualSeverities, ttl \in Ttls \cup {1} :
       /\ proposals' = Append(proposals,
            [region |-> r, engine |-> "manual", score |-> TopScore,
             severity |-> severity, title |-> "operator",
             message |-> "operator", status |-> "proposed", alert |-> 0])
       /\ req' = [req EXCEPT ![h] =
            [ReqIdle EXCEPT !.pc = "reload", !.row = Len(proposals) + 1, !.ttl = ttl]]
  /\ calls' = calls + 1
  /\ UNCHANGED <<alerts, notified, level, clock, eval, faults>>

\* ... and reads it back, whatever its status now is, for publish.
ManualReload(h) ==
  /\ req[h].pc = "reload"
  /\ req' = [req EXCEPT ![h] = Loaded(@.row, proposals[@.row].message, @.ttl)]
  /\ UNCHANGED <<proposals, alerts, notified, level, clock, eval, calls, faults>>

\* The alert publish commits, from the handler's copy of the proposal.
NewAlert(s) ==
  [region |-> proposals[s.row].region, severity |-> s.severity,
   title |-> s.title, message |-> s.message, proposal |-> s.row,
   issued |-> s.at,
   expires |-> s.at + (IF s.ttl = 0 THEN DefaultTtl(s.severity) ELSE s.ttl),
   retracted |-> FALSE, pushed |-> FALSE]

\* Slip: the decision is not written with the alert.
DecidedWithoutStatus(row, s, id) == [row EXCEPT !.alert = id]

\* The proposal's row as publish writes it.
Decided(row, s, id) ==
  [row EXCEPT !.status = IF s.status # "approved" THEN "approved" ELSE @,
              !.message = IF s.message = "operator" THEN s.message ELSE @,
              !.alert = id]

\* The first commit of publish: the alert, its region and the decision.
PublishCommit(h) ==
  /\ req[h].pc = "publish"
  /\ LET s == req[h]
         id == Len(alerts) + 1
     IN  /\ alerts' = Append(alerts, NewAlert(s))
         /\ proposals' = [proposals EXCEPT ![s.row] = Decided(@, s, id)]
         /\ req' = [req EXCEPT ![h] = [ReqIdle EXCEPT !.pc = "push", !.alert = id]]
  /\ UNCHANGED <<notified, level, clock, eval, calls, faults>>

\* Slip: a refusal by FCM escapes and ends the request.
PushRaises(h) ==
  /\ req[h].pc = "push"
  /\ \/ /\ notified' = notified \cup {req[h].alert}
        /\ req' = [req EXCEPT ![h].pc = "stamp"]
     \/ /\ notified' = notified
        /\ req' = [req EXCEPT ![h] = ReqIdle]
  /\ UNCHANGED <<proposals, alerts, level, clock, eval, calls, faults>>

\* push.send_alert.  It goes out, or it does not: no device in the region,
\* push disabled, or FCM refuses.  It never raises.
Push(h) ==
  /\ req[h].pc = "push"
  /\ notified' \in {notified, notified \cup {req[h].alert}}
  /\ req' = [req EXCEPT ![h].pc = "stamp"]
  /\ UNCHANGED <<proposals, alerts, level, clock, eval, calls, faults>>

\* Slip: the handler's whole copy of the alert is written back.
StampWholeRow(h) ==
  /\ req[h].pc = "stamp"
  /\ alerts' = [alerts EXCEPT ![req[h].alert] =
       [@ EXCEPT !.pushed = TRUE, !.retracted = FALSE]]
  /\ req' = [req EXCEPT ![h] = ReqIdle]
  /\ UNCHANGED <<proposals, notified, level, clock, eval, calls, faults>>

\* The second commit of publish: push_sent_at and push_result.
Stamp(h) ==
  /\ req[h].pc = "stamp"
  /\ alerts' = [alerts EXCEPT ![req[h].alert].pushed = TRUE]
  /\ req' = [req EXCEPT ![h] = ReqIdle]
  /\ UNCHANGED <<proposals, notified, level, clock, eval, calls, faults>>

\* POST /admin/proposals/{id}/dismiss loads a row, whatever its status ...
DismissRead(h) ==
  /\ req[h].pc = "idle" /\ calls < MaxCalls
  /\ \E p \in DOMAIN proposals :
       req' = [req EXCEPT ![h] =
         [ReqIdle EXCEPT !.pc = "dismiss", !.row = p, !.status = proposals[p].status]]
  /\ calls' = calls + 1
  /\ UNCHANGED <<proposals, alerts, notified, level, clock, eval, faults>>

\* ... and commits the dismissal.
DismissCommit(h) ==
  /\ req[h].pc = "dismiss"
  /\ proposals' = [proposals EXCEPT ![req[h].row].status =
       IF req[h].status # "dismissed" THEN "dismissed" ELSE @]
  /\ req' = [req EXCEPT ![h] = ReqIdle]
  /\ UNCHANGED <<alerts, notified, level, clock, eval, calls, faults>>

\* POST /admin/alerts/{id}/retract.  Nothing it loads decides what it writes.
Retract(h) ==
  /\ req[h].pc = "idle" /\ calls < MaxCalls
  /\ \E a \in DOMAIN alerts : alerts' = [alerts EXCEPT ![a].retracted = TRUE]
  /\ calls' = calls + 1
  /\ UNCHANGED <<proposals, notified, level, clock, eval, req, faults>>

\* A request that fails between two steps: a database error, a lost worker.
RequestFails(h) ==
  /\ req[h].pc # "idle" /\ faults < MaxFaults
  /\ faults' = faults + 1
  /\ req' = [req EXCEPT ![h] = ReqIdle]
  /\ UNCHANGED <<proposals, alerts, notified, level, clock, eval, calls>>

\* The steps that carry a request on once it has started.
RequestStep(h) ==
  \/ ManualReload(h) \/ PublishCommit(h) \/ Push(h) \/ Stamp(h)
  \/ DismissCommit(h)

NewRequest(h) ==
  ApproveRead(h) \/ ManualInsert(h) \/ DismissRead(h) \/ Retract(h)

-----------------------------------------------------------------------------
(* The surroundings.                                                       *)

\* New readings, rain or answers change what the engine makes of a region.
Weather ==
  /\ \E r \in Regions, x \in Results : level' = [level EXCEPT ![r] = x]
  /\ UNCHANGED <<proposals, alerts, notified, clock, eval, req, calls, faults>>

Tick ==
  /\ clock < MaxTime
  /\ clock' = clock + 1
  /\ UNCHANGED <<proposals, alerts, notified, level, eval, req, calls, faults>>

\* The process dies and comes back: the tables stay, the threads do not.
Crash ==
  /\ faults < MaxFaults
  /\ faults' = faults + 1
  /\ eval' = [e \in Evaluators |-> EvalIdle]
  /\ req' = [h \in Handlers |-> ReqIdle]
  /\ UNCHANGED <<proposals, alerts, notified, level, clock, calls>>

Next ==
  \/ \E e \in Evaluators : EvalStep(e) \/ PassFails(e)
  \/ \E h \in Handlers : NewRequest(h) \/ RequestStep(h) \/ RequestFails(h)
  \/ Weather \/ Tick \/ Crash

Spec == Init /\ [][Next]_vars

\* The scheduler runs the job at every interval and a request in progress goes
\* on; nothing makes an operator act or time pass.
Fairness ==
  /\ \A e \in Evaluators : WF_vars(EvalStep(e))
  /\ \A h \in Handlers : WF_vars(RequestStep(h))

FairSpec == Spec /\ Fairness

-----------------------------------------------------------------------------
(* What the system promises.                                               *)

EvalState ==
  [pc : {"idle", "scan", "pending", "refresh", "live", "insert"},
   todo : SUBSET Regions, region : Regions \cup {NoRegion},
   score : 0..TopScore, severity : Severities \cup {"none"}, at : 0..MaxTime,
   row : Nat, seen : Severities \cup {"none"}]

ReqState ==
  [pc : {"idle", "reload", "publish", "push", "stamp", "dismiss"}, row : Nat,
   status : Statuses, severity : Severities, title : Wordings,
   message : Wordings, ttl : Int, at : 0..MaxTime, alert : Nat]

\* The tables hold well-formed rows and every thread a well-formed state.
TypeOK ==
  /\ proposals \in Seq(Proposal)
  /\ alerts \in Seq(Alert)
  /\ notified \subseteq Nat
  /\ level \in [Regions -> Results]
  /\ clock \in 0..MaxTime
  /\ eval \in [Evaluators -> EvalState]
  /\ req \in [Handlers -> ReqState]
  /\ calls \in 0..MaxCalls
  /\ faults \in 0..MaxFaults

\* A region has one proposal of the engine's to decide, not one per pass:
\* maybe_propose's first check, whatever the operators and the faults do, as
\* long as one thread evaluates.
OnePendingPerRegion ==
  \A p, q \in DOMAIN proposals :
    (/\ proposals[p].engine = "rules" /\ proposals[q].engine = "rules"
     /\ proposals[p].status = "proposed" /\ proposals[q].status = "proposed"
     /\ proposals[p].region = proposals[q].region) => p = q

\* The severity an operator decides on is the one of the score shown with it,
\* up to rounding, and the message's advice is for that severity, though the
\* refresh writes the columns only where they differ from what it loaded.
SeverityFollowsScore ==
  \A p \in DOMAIN proposals :
    proposals[p].engine = "rules" =>
      /\ proposals[p].severity \in Bands(proposals[p].score)
      /\ proposals[p].message \in {proposals[p].severity, "operator"}

\* The audit trail has no special case: every alert names the proposal of its
\* region that an operator decided, an approved proposal names an alert, and
\* the alert a proposal names was issued from it (publish's single commit).
AuditTrail ==
  /\ \A a \in DOMAIN alerts :
       /\ alerts[a].proposal \in DOMAIN proposals
       /\ proposals[alerts[a].proposal].region = alerts[a].region
       /\ proposals[alerts[a].proposal].status # "proposed"
       /\ proposals[alerts[a].proposal].alert # 0
  /\ \A p \in DOMAIN proposals :
       /\ proposals[p].status = "approved" => proposals[p].alert # 0
       /\ proposals[p].alert # 0 =>
            /\ proposals[p].alert \in DOMAIN alerts
            /\ alerts[proposals[p].alert].proposal = p

\* An alert may understate the danger, never exaggerate it: a publish that works
\* from a stale copy can only have missed an escalation of its row, the title,
\* which the refresh leaves behind, is for no higher severity than the alert's,
\* and the advice is for just that.  An operator's own words rank below all.
AlertNeverExaggerates ==
  \A a \in DOMAIN alerts :
    /\ Rank(alerts[a].severity) <= Rank(proposals[alerts[a].proposal].severity)
    /\ Rank(alerts[a].title) <= Rank(alerts[a].severity)
    /\ alerts[a].message \in {alerts[a].severity, "operator"}

\* The proposals of a region that ask for, or keep up, a warning.
Standing(r) ==
  {p \in DOMAIN proposals :
     /\ proposals[p].region = r
     /\ \/ proposals[p].status = "proposed"
        \/ \E a \in DOMAIN alerts : alerts[a].proposal = p /\ LiveAt(a, clock)}

\* A region that stays as wet as it is produces one proposal at a time, not
\* one per pass, through approvals, dismissals, retractions and expiry.
OneStandingProposal == \A r \in Regions : Cardinality(Standing(r)) <= 1

\* A proposal is published once: approving it again is 409 "This proposal is
\* already approved", as long as the operators' requests come one at a time.
OneAlertPerProposal ==
  \A a, b \in DOMAIN alerts : alerts[a].proposal = alerts[b].proposal => a = b

EscalationStep ==
  \A p \in DOMAIN proposals :
    /\ proposals'[p].score >= proposals[p].score
    /\ proposals[p].status # "proposed" => proposals'[p].status # "proposed"

\* While it waits for an operator a proposal only gets worse, and a decided
\* proposal never waits again: "the operator sees the worse number".
ProposalsOnlyEscalate == [][EscalationStep]_proposals

EndingStep ==
  \A a \in DOMAIN alerts :
    /\ alerts'[a] = [alerts[a] EXCEPT !.retracted = alerts'[a].retracted,
                                      !.pushed = alerts'[a].pushed]
    /\ ~LiveAt(a, clock) => ~LiveAt(a, clock)'

\* An alert that has ended stays ended and one that was issued stays what it
\* said, whatever commits come late: no thread writes back a stale row.
AlertsOnlyEnd == [][EndingStep]_<<alerts, clock>>

NotifyingStep ==
  \A a \in notified' \ notified :
    /\ a \in DOMAIN alerts
    /\ proposals[alerts[a].proposal].status # "proposed"

\* The one invariant of alerts_service: a push leaves only for an alert that
\* is committed already, with its decision.
PushAfterCommit == [][NotifyingStep]_notified

\* If a station's region is wet from some time on, it keeps coming to have a
\* proposal to decide or an alert at least as severe, however often operators
\* dismiss or retract and alerts expire.
WetRegionStands ==
  \A r \in StationRegions :
    <>[](level[r].severity # "none") =>
      []<>(\/ \E p \in DOMAIN proposals :
               proposals[p].region = r /\ proposals[p].status = "proposed"
           \/ \E a \in LiveIn(r, clock) :
               Rank(alerts[a].severity) >= Rank(level[r].severity))

\* Unless a fault comes, every committed alert gets its push attempt recorded.
EveryAlertPushed ==
  \A n \in 1..MaxCalls :
    (n \in DOMAIN alerts) ~> (faults > 0 \/ \E a \in DOMAIN alerts : a = n /\ alerts[a].pushed)

-----------------------------------------------------------------------------
(* The contract, and how the tables keep it.                               *)

\* What participants read in an alert, and where it came from.
Says(a) ==
  [region |-> alerts[a].region, severity |-> alerts[a].severity,
   title |-> alerts[a].title, message |-> alerts[a].message,
   proposal |-> alerts[a].proposal, issued |-> alerts[a].issued,
   expires |-> alerts[a].expires]

Issued == [a \in DOMAIN alerts |-> Says(a)]

Over == {a \in DOMAIN alerts : ~LiveAt(a, clock)}

Decisions == {p \in DOMAIN proposals : proposals[p].status # "proposed"}

Contract == INSTANCE AlertContract WITH
  issued <- Issued, over <- Over, told <- notified, decided <- Decisions

\* Stale copies, late commits, failed requests and crashes never show: what
\* the tables and the pushes do is what AlertContract promises, an alert and
\* its decision in one commit, the push after it, no alert reworded or revived.
ImplementsContract == Contract!Spec

=============================================================================
