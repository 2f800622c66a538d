------------------------ MODULE AlertLifecycleProofs ------------------------
(***************************************************************************)
(* Theorems about AlertLifecycle, for every set of regions, evaluators and *)
(* handlers, every scale of scores and every bound: its types, its safety  *)
(* properties, that it implements AlertContract, and what holds besides    *)
(* while one thread evaluates, or one request is served at a time.         *)
(*                                                                         *)
(* The safety properties rest on what a step may do to a row, proved once  *)
(* (RowsKept, NewRows, AlertsKept, NewAlerts), and on what a thread still  *)
(* knows of a row it loaded earlier.                                       *)
(***************************************************************************)
EXTENDS AlertLifecycle, SequenceTheorems, FiniteSetTheorems, TLAPS

\* What the assumptions on the constants give, unfolded.
LEMMA Constants ==
  /\ LowAt \in Nat /\ ModerateAt \in Nat /\ HighAt \in Nat /\ TopScore \in Nat
  /\ 0 < LowAt /\ LowAt <= ModerateAt /\ ModerateAt <= HighAt
  /\ Levels \subseteq 0..TopScore /\ Ttls \subseteq Int
  /\ ManualSeverities \subseteq Severities
  /\ MaxTime \in Nat /\ MaxCalls \in Nat /\ MaxFaults \in Nat
BY ScoreAssumption, RequestAssumption, BoundAssumption
   DEF ScoreAssumption, RequestAssumption, BoundAssumption, Severities

-----------------------------------------------------------------------------
(* Types.  What a thread will index the tables with must be in their       *)
(* domains; that is what TypeOK needs to be inductive.                     *)

\* The thread has a result of the engine's that asks for a warning.
HasResult(s) == s.severity \in Severities /\ s.severity \in Bands(s.score)

EvalRef(s) ==
  /\ s.pc \in {"pending", "refresh", "live", "insert"} =>
       s.region \in Regions /\ HasResult(s)
  /\ s.pc = "refresh" => s.row \in DOMAIN proposals

ReqRef(s) ==
  /\ s.pc \in {"reload", "publish", "dismiss"} => s.row \in DOMAIN proposals
  /\ s.pc \in {"push", "stamp"} => s.alert \in DOMAIN alerts

Refs ==
  /\ \A e \in Evaluators : EvalRef(eval[e])
  /\ \A h \in Handlers : ReqRef(req[h])

TypeInv == TypeOK /\ Refs

\* What a result of the engine's holds, field by field.
LEMMA ResultType ==
  ASSUME NEW x \in Results
  PROVE  /\ x.score \in 0..TopScore
         /\ x.severity \in Severities \cup {"none"}
         /\ x.severity \in Bands(x.score)
BY Constants DEF Results

LEMMA IdleTypes ==
  /\ EvalIdle \in EvalState /\ EvalIdle.pc = "idle"
  /\ ReqIdle \in ReqState /\ ReqIdle.pc = "idle"
BY Constants DEF EvalIdle, EvalState, ReqIdle, ReqState, Statuses, Severities, Wordings

\* A thread that goes on to its next region refers to no row.
LEMMA ScanType ==
  ASSUME NEW todo \in SUBSET Regions
  PROVE  LET next == [EvalIdle EXCEPT !.pc = "scan", !.todo = todo]
         IN  next \in EvalState /\ next.pc = "scan"
BY IdleTypes DEF EvalState

LEMMA LoopOnType ==
  ASSUME NEW s \in EvalState
  PROVE  LoopOn(s) \in EvalState /\ LoopOn(s).pc \in {"idle", "scan"}
<1>1. s.todo \in SUBSET Regions
  BY DEF EvalState
<1> QED
  BY <1>1, IdleTypes, ScanType DEF LoopOn

\* The rows of the two tables, and what a row is written over with.
LEMMA RowType ==
  ASSUME TypeOK, NEW p \in DOMAIN proposals
  PROVE  p \in 1..Len(proposals) /\ p \in Nat \ {0} /\ proposals[p] \in Proposal
BY DEF TypeOK

LEMMA RowWritten ==
  ASSUME TypeOK, NEW p \in DOMAIN proposals, NEW row \in Proposal
  PROVE  /\ [proposals EXCEPT ![p] = row] \in Seq(Proposal)
         /\ Len([proposals EXCEPT ![p] = row]) = Len(proposals)
BY RowType, ExceptSeq DEF TypeOK

\* A refresh writes a well-formed row, and what it leaves alone it leaves.
LEMMA RefreshedType ==
  ASSUME NEW row \in Proposal, NEW s \in EvalState, NEW reworded \in BOOLEAN,
         HasResult(s)
  PROVE  /\ Refreshed(row, s, reworded) \in Proposal
         /\ Refreshed(row, s, reworded).score = s.score
         /\ Refreshed(row, s, reworded).status = row.status
         /\ Refreshed(row, s, reworded).region = row.region
         /\ Refreshed(row, s, reworded).engine = row.engine
         /\ Refreshed(row, s, reworded).alert = row.alert
         /\ Refreshed(row, s, reworded).title = row.title
<1> DEFINE severity == IF s.severity # s.seen THEN s.severity ELSE row.severity
           message == IF s.severity # s.seen \/ reworded THEN s.severity ELSE row.message
<1>1. severity \in Severities /\ message \in Wordings /\ s.score \in 0..TopScore
  BY DEF Proposal, EvalState, Wordings, HasResult
<1>2. Refreshed(row, s, reworded) =
        [row EXCEPT !.score = s.score, !.severity = severity, !.message = message]
  BY DEF Refreshed
<1> HIDE DEF severity, message
<1> QED
  BY <1>1, <1>2 DEF Proposal

LEMMA AlertType ==
  ASSUME TypeOK, NEW a \in DOMAIN alerts
  PROVE  a \in 1..Len(alerts) /\ a \in Nat \ {0} /\ alerts[a] \in Alert
BY DEF TypeOK

LEMMA MarkedType ==
  ASSUME NEW a \in Alert
  PROVE  /\ [a EXCEPT !.retracted = TRUE] \in Alert
         /\ [a EXCEPT !.pushed = TRUE] \in Alert
BY DEF Alert

LEMMA AlertWritten ==
  ASSUME TypeOK, NEW a \in DOMAIN alerts, NEW row \in Alert
  PROVE  /\ [alerts EXCEPT ![a] = row] \in Seq(Alert)
         /\ Len([alerts EXCEPT ![a] = row]) = Len(alerts)
BY AlertType, ExceptSeq DEF TypeOK

\* The state of a manual request that has inserted row n.
LEMMA ReloadType ==
  ASSUME NEW n \in Nat, NEW ttl \in Int
  PROVE  LET s == [ReqIdle EXCEPT !.pc = "reload", !.row = n, !.ttl = ttl]
         IN  s \in ReqState /\ s.pc = "reload" /\ s.row = n
BY IdleTypes DEF ReqState

\* What a handler loads is a well-formed state that refers to that row.
LEMMA LoadedType ==
  ASSUME TypeOK, NEW p \in DOMAIN proposals, NEW message \in Wordings,
         NEW ttl \in Int
  PROVE  /\ Loaded(p, message, ttl) \in ReqState
         /\ Loaded(p, message, ttl).pc = "publish"
         /\ Loaded(p, message, ttl).row = p
<1>1. proposals[p] \in Proposal /\ p \in Nat
  BY DEF TypeOK
<1> QED
  BY <1>1 DEF Loaded, TypeOK, ReqState, Proposal

\* The tables at the start: empty.
LEMMA TypeInvInit == Init => TypeInv
<1> SUFFICES ASSUME Init PROVE TypeInv
  OBVIOUS
<1>1. TypeOK
  <2>1. proposals \in Seq(Proposal) /\ alerts \in Seq(Alert)
    BY DEF Init
  <2>2. level \in [Regions -> Results]
    BY Constants DEF Init
  <2>3. clock \in 0..MaxTime /\ calls \in 0..MaxCalls /\ faults \in 0..MaxFaults
    BY Constants DEF Init
  <2>4. eval \in [Evaluators -> EvalState] /\ req \in [Handlers -> ReqState]
    BY IdleTypes DEF Init
  <2> QED
    BY <2>1, <2>2, <2>3, <2>4 DEF Init, TypeOK
<1>2. Refs
  BY IdleTypes DEF Init, Refs, EvalRef, ReqRef
<1> QED
  BY <1>1, <1>2 DEF TypeInv

\* A step of a scoring thread keeps the types if the thread's new state and
\* the table of proposals are well-formed.
LEMMA EvalMoves ==
  ASSUME TypeInv, NEW e \in Evaluators, NEW s \in EvalState, EvalRef(s),
         eval' = [eval EXCEPT ![e] = s],
         proposals' \in Seq(Proposal), Len(proposals) <= Len(proposals'),
         faults' \in 0..MaxFaults,
         UNCHANGED <<alerts, notified, level, clock, req, calls>>
  PROVE  TypeInv'
<1> USE DEF TypeInv
<1>1. DOMAIN proposals \subseteq DOMAIN proposals'
  BY LenProperties DEF TypeOK
<1>2. TypeOK'
  BY DEF TypeOK
<1>3. \A f \in Evaluators : EvalRef(eval[f])'
  BY <1>1 DEF Refs, EvalRef, TypeOK
<1>4. \A h \in Handlers : ReqRef(req[h])'
  BY <1>1 DEF Refs, ReqRef
<1> QED
  BY <1>2, <1>3, <1>4 DEF Refs

LEMMA EvalReads ==
  ASSUME TypeInv, NEW e \in Evaluators, NEW s \in EvalState, EvalRef(s),
         eval' = [eval EXCEPT ![e] = s],
         UNCHANGED <<proposals, alerts, notified, level, clock, req, calls, faults>>
  PROVE  TypeInv'
<1>1. /\ proposals' \in Seq(Proposal) /\ Len(proposals) <= Len(proposals')
      /\ faults' \in 0..MaxFaults
  BY DEF TypeInv, TypeOK
<1> QED
  BY <1>1, EvalMoves

\* Likewise for a step of a request, which may change every table.
LEMMA RequestMoves ==
  ASSUME TypeInv, NEW h \in Handlers, NEW s \in ReqState, ReqRef(s)',
         req' = [req EXCEPT ![h] = s],
         proposals' \in Seq(Proposal), Len(proposals) <= Len(proposals'),
         alerts' \in Seq(Alert), Len(alerts) <= Len(alerts'),
         notified' \subseteq Nat,
         calls' \in 0..MaxCalls, faults' \in 0..MaxFaults,
         UNCHANGED <<level, clock, eval>>
  PROVE  TypeInv'
<1> USE DEF TypeInv
<1>1. /\ DOMAIN proposals \subseteq DOMAIN proposals'
      /\ DOMAIN alerts \subseteq DOMAIN alerts'
  BY LenProperties DEF TypeOK
<1>2. TypeOK'
  BY DEF TypeOK
<1>3. \A e \in Evaluators : EvalRef(eval[e])'
  BY <1>1 DEF Refs, EvalRef
<1>4. \A g \in Handlers : ReqRef(req[g])'
  <2> TAKE g \in Handlers
  <2>1. CASE g = h
    BY <2>1 DEF TypeOK, ReqRef
  <2>2. CASE g # h
    BY <1>1, <2>2 DEF Refs, ReqRef, TypeOK
  <2> QED
    BY <2>1, <2>2
<1> QED
  BY <1>2, <1>3, <1>4 DEF Refs

LEMMA EvalStepType ==
  ASSUME TypeInv, NEW e \in Evaluators, EvalStep(e)
  PROVE  TypeInv'
<1> USE DEF TypeInv
<1> DEFINE s == eval[e]
<1>0. s \in EvalState /\ EvalRef(s)
  BY DEF TypeOK, Refs
<1>1. CASE StartPass(e)
  <2>1. PICK todo \in SUBSET Regions :
          eval' = [eval EXCEPT ![e] = [EvalIdle EXCEPT !.pc = "scan", !.todo = todo]]
    BY <1>1 DEF StartPass
  <2>2. EvalRef([EvalIdle EXCEPT !.pc = "scan", !.todo = todo])
    BY ScanType DEF EvalRef
  <2> QED
    BY <1>1, <2>1, <2>2, ScanType, EvalReads DEF StartPass
<1>2. CASE ScoreRegion(e)
  <2> DEFINE rest(r) == [s EXCEPT !.todo = @ \ {r}]
             scored(r) == [rest(r) EXCEPT !.pc = "pending", !.region = r,
                                          !.score = level[r].score,
                                          !.severity = level[r].severity,
                                          !.at = clock]
  <2>1. PICK r \in s.todo :
          eval' = [eval EXCEPT ![e] =
            IF level[r].severity = "none" THEN LoopOn(rest(r)) ELSE scored(r)]
    BY <1>2 DEF ScoreRegion
  <2>2. r \in Regions /\ rest(r) \in EvalState
    BY <1>0 DEF EvalState
  <2>3. CASE level[r].severity = "none"
    <3>1. LoopOn(rest(r)) \in EvalState /\ EvalRef(LoopOn(rest(r)))
      BY <2>2, LoopOnType DEF EvalRef
    <3>2. eval' = [eval EXCEPT ![e] = LoopOn(rest(r))]
      BY <2>1, <2>3
    <3> HIDE DEF rest
    <3> QED
      BY <1>2, <3>1, <3>2, EvalReads DEF ScoreRegion
  <2>4. CASE level[r].severity # "none"
    <3>0. level[r] \in Results
      BY <2>2 DEF TypeOK
    <3>1. scored(r) \in EvalState
      BY <2>2, <3>0, ResultType DEF EvalState, TypeOK
    <3>2. EvalRef(scored(r))
      BY <2>2, <2>4, <3>0, ResultType DEF EvalRef, EvalState, HasResult
    <3>3. eval' = [eval EXCEPT ![e] = scored(r)]
      BY <2>1, <2>4
    <3> HIDE DEF scored
    <3> QED
      BY <1>2, <3>1, <3>2, <3>3, EvalReads DEF ScoreRegion
  <2> QED
    BY <2>3, <2>4
<1>3. CASE ReadPending(e)
  <2> DEFINE found(p) == [s EXCEPT !.pc = "refresh", !.row = p, !.seen = proposals[p].severity]
             none == [s EXCEPT !.pc = "live"]
  <2>1. LoopOn(s) \in EvalState /\ EvalRef(LoopOn(s))
    BY <1>0, LoopOnType DEF EvalRef
  <2>2. \A p \in PendingIn(s.region) : found(p) \in EvalState /\ EvalRef(found(p))
    <3> TAKE p \in PendingIn(s.region)
    <3>1. p \in DOMAIN proposals /\ p \in Nat /\ proposals[p].severity \in Severities
      BY RowType DEF PendingIn, Proposal
    <3>2. found(p) \in EvalState
      BY <1>0, <3>1 DEF EvalState
    <3> QED
      BY <1>0, <1>3, <3>1, <3>2 DEF EvalRef, EvalState, ReadPending, HasResult
  <2>3. none \in EvalState /\ EvalRef(none)
    BY <1>0, <1>3 DEF EvalRef, EvalState, ReadPending, HasResult
  <2>4. \E t \in EvalState : EvalRef(t) /\ eval' = [eval EXCEPT ![e] = t]
    BY <1>3, <2>1, <2>2, <2>3 DEF ReadPending
  <2> QED
    BY <1>3, <2>4, EvalReads DEF ReadPending
<1>4. CASE Refresh(e)
  <2>1. PICK reworded \in BOOLEAN :
          proposals' = [proposals EXCEPT ![s.row] = Refreshed(proposals[s.row], s, reworded)]
    BY <1>4 DEF Refresh
  <2>2. s.row \in DOMAIN proposals /\ HasResult(s)
    BY <1>0, <1>4 DEF EvalRef, Refresh
  <2>3. Refreshed(proposals[s.row], s, reworded) \in Proposal
    BY <1>0, <2>2, RowType, RefreshedType
  <2>4. proposals' \in Seq(Proposal) /\ Len(proposals') = Len(proposals)
    BY <2>1, <2>2, <2>3, RowWritten
  <2>5. LoopOn(s) \in EvalState /\ EvalRef(LoopOn(s))
    BY <1>0, LoopOnType DEF EvalRef
  <2> QED
    <3>1. eval' = [eval EXCEPT ![e] = LoopOn(s)]
      BY <1>4 DEF Refresh
    <3>2. Len(proposals) <= Len(proposals') /\ faults' \in 0..MaxFaults
      BY <1>4, <2>4 DEF Refresh, TypeOK
    <3> QED
      BY <1>4, <2>4, <2>5, <3>1, <3>2, EvalMoves DEF Refresh
<1>5. CASE ReadLive(e)
  <2>1. LoopOn(s) \in EvalState /\ EvalRef(LoopOn(s))
    BY <1>0, LoopOnType DEF EvalRef
  <2>2. [s EXCEPT !.pc = "insert"] \in EvalState /\ EvalRef([s EXCEPT !.pc = "insert"])
    BY <1>0, <1>5 DEF EvalRef, EvalState, ReadLive, HasResult
  <2>3. \E t \in EvalState : EvalRef(t) /\ eval' = [eval EXCEPT ![e] = t]
    BY <1>5, <2>1, <2>2 DEF ReadLive
  <2> QED
    BY <1>5, <2>3, EvalReads DEF ReadLive
<1>6. CASE Insert(e)
  <2>1. NewProposal(s) \in Proposal
    BY <1>0, <1>6 DEF NewProposal, Proposal, EvalRef, EvalState, Insert, HasResult, Wordings, Statuses
  <2>2. proposals' \in Seq(Proposal) /\ Len(proposals') = Len(proposals) + 1
    BY <1>6, <2>1, AppendProperties DEF Insert, TypeOK
  <2>3. LoopOn(s) \in EvalState /\ EvalRef(LoopOn(s))
    BY <1>0, LoopOnType DEF EvalRef
  <2> QED
    <3>1. eval' = [eval EXCEPT ![e] = LoopOn(s)]
      BY <1>6 DEF Insert
    <3>2. Len(proposals) <= Len(proposals') /\ faults' \in 0..MaxFaults
      BY <1>6, <2>2, LenProperties DEF Insert, TypeOK
    <3> QED
      BY <1>6, <2>2, <2>3, <3>1, <3>2, EvalMoves DEF Insert
<1> QED
  BY <1>1, <1>2, <1>3, <1>4, <1>5, <1>6 DEF EvalStep

LEMMA PassFailsType ==
  ASSUME TypeInv, NEW e \in Evaluators, PassFails(e)
  PROVE  TypeInv'
<1>1. EvalRef(EvalIdle)
  BY IdleTypes DEF EvalRef
<1>2. faults' \in 0..MaxFaults
  BY Constants DEF PassFails, TypeInv, TypeOK
<1>3. proposals' \in Seq(Proposal) /\ Len(proposals) <= Len(proposals')
  BY DEF PassFails, TypeInv, TypeOK
<1> QED
  BY <1>1, <1>2, <1>3, IdleTypes, EvalMoves DEF PassFails

\* A publish writes well-formed rows of both tables.
LEMMA PublishedType ==
  ASSUME TypeOK, NEW s \in ReqState, s.row \in DOMAIN proposals
  PROVE  /\ NewAlert(s) \in Alert
         /\ \A id \in Nat : Decided(proposals[s.row], s, id) \in Proposal
<1>1. proposals[s.row] \in Proposal /\ s.row \in Nat \ {0}
  BY RowType
<1>2. s.at + (IF s.ttl = 0 THEN DefaultTtl(s.severity) ELSE s.ttl) \in Int
  BY Constants DEF ReqState, DefaultTtl
<1>3. NewAlert(s) \in Alert
  BY <1>1, <1>2 DEF NewAlert, Alert, ReqState, Proposal
<1>4. ASSUME NEW id \in Nat
      PROVE  Decided(proposals[s.row], s, id) \in Proposal
  <2> DEFINE row == proposals[s.row]
             status == IF s.status # "approved" THEN "approved" ELSE row.status
             message == IF s.message = "operator" THEN s.message ELSE row.message
  <2>1. status \in Statuses /\ message \in Wordings
    BY <1>1 DEF Proposal, Statuses, Wordings
  <2>2. Decided(row, s, id) = [row EXCEPT !.status = status, !.message = message, !.alert = id]
    BY DEF Decided
  <2> HIDE DEF status, message
  <2> QED
    BY <1>1, <1>4, <2>1, <2>2 DEF Proposal
<1> QED
  BY <1>3, <1>4

\* A step of a request that leaves the tables of rows alone.
LEMMA RequestReads ==
  ASSUME TypeInv, NEW h \in Handlers, NEW s \in ReqState, ReqRef(s),
         req' = [req EXCEPT ![h] = s],
         notified' \subseteq Nat,
         calls' \in 0..MaxCalls, faults' \in 0..MaxFaults,
         UNCHANGED <<proposals, alerts, level, clock, eval>>
  PROVE  TypeInv'
<1>1. /\ proposals' \in Seq(Proposal) /\ Len(proposals) <= Len(proposals')
      /\ alerts' \in Seq(Alert) /\ Len(alerts) <= Len(alerts')
      /\ ReqRef(s)'
  BY DEF TypeInv, TypeOK, ReqRef
<1> QED
  BY <1>1, RequestMoves

LEMMA NewRequestType ==
  ASSUME TypeInv, NEW h \in Handlers, NewRequest(h)
  PROVE  TypeInv'
<1> USE DEF TypeInv
<1>0. /\ TypeOK /\ notified \subseteq Nat /\ faults \in 0..MaxFaults
      /\ req[h] \in ReqState
  BY DEF TypeOK
<1>1. calls < MaxCalls /\ calls' = calls + 1 => calls' \in 0..MaxCalls
  BY Constants DEF TypeOK
<1>2. CASE ApproveRead(h)
  <2>1. PICK p \in DOMAIN proposals, ttl \in Ttls, edit \in BOOLEAN :
          req' = [req EXCEPT ![h] =
            Loaded(p, IF edit THEN "operator" ELSE proposals[p].message, ttl)]
    BY <1>2 DEF ApproveRead
  <2> DEFINE message == IF edit THEN "operator" ELSE proposals[p].message
  <2>2. message \in Wordings /\ ttl \in Int
    BY RowType, Constants DEF Proposal, Wordings
  <2> HIDE DEF message
  <2>3. Loaded(p, message, ttl) \in ReqState /\ ReqRef(Loaded(p, message, ttl))
    BY <2>2, LoadedType DEF ReqRef
  <2> QED
    BY <1>0, <1>1, <1>2, <2>1, <2>3, RequestReads DEF ApproveRead, message
<1>3. CASE ManualInsert(h)
  <2>1. PICK r \in Regions, severity \in ManualSeverities, ttl \in Ttls \cup {1} :
          /\ proposals' = Append(proposals,
               [region |-> r, engine |-> "manual", score |-> TopScore,
                severity |-> severity, title |-> "operator",
                message |-> "operator", status |-> "proposed", alert |-> 0])
          /\ req' = [req EXCEPT ![h] =
               [ReqIdle EXCEPT !.pc = "reload", !.row = Len(proposals) + 1, !.ttl = ttl]]
    BY <1>3 DEF ManualInsert
  <2>2. [region |-> r, engine |-> "manual", score |-> TopScore,
         severity |-> severity, title |-> "operator",
         message |-> "operator", status |-> "proposed", alert |-> 0] \in Proposal
    BY Constants DEF Proposal, Wordings, Statuses
  <2>3. /\ proposals' \in Seq(Proposal) /\ Len(proposals) \in Nat
        /\ Len(proposals') = Len(proposals) + 1
    BY <2>1, <2>2, AppendProperties, LenProperties DEF TypeOK
  <2>4. PICK n \in Nat : n = Len(proposals) + 1
    BY <2>3
  <2>5. PICK s \in ReqState :
          req' = [req EXCEPT ![h] = s] /\ s.pc = "reload" /\ s.row = n
    <3>1. ttl \in Int
      BY Constants
    <3> QED
      BY <2>1, <2>4, <3>1, ReloadType
  <2>6. ReqRef(s)'
    BY <2>3, <2>4, <2>5, LenProperties DEF ReqRef
  <2>7. /\ alerts' \in Seq(Alert) /\ Len(alerts) <= Len(alerts')
        /\ Len(proposals) <= Len(proposals')
    BY <1>3, <2>3 DEF ManualInsert, TypeOK
  <2> QED
    BY <1>0, <1>1, <1>3, <2>3, <2>5, <2>6, <2>7, RequestMoves DEF ManualInsert
<1>4. CASE DismissRead(h)
  <2>1. PICK p \in DOMAIN proposals :
          req' = [req EXCEPT ![h] =
            [ReqIdle EXCEPT !.pc = "dismiss", !.row = p, !.status = proposals[p].status]]
    BY <1>4 DEF DismissRead
  <2> DEFINE s == [ReqIdle EXCEPT !.pc = "dismiss", !.row = p, !.status = proposals[p].status]
  <2>2. p \in Nat /\ proposals[p].status \in Statuses
    BY RowType DEF Proposal
  <2>3. s \in ReqState /\ s.pc = "dismiss" /\ s.row = p
    BY <2>2, IdleTypes DEF ReqState
  <2>4. ReqRef(s)
    BY <2>3 DEF ReqRef
  <2> HIDE DEF s
  <2> QED
    BY <1>0, <1>1, <1>4, <2>1, <2>3, <2>4, RequestReads DEF DismissRead, s
<1>5. CASE Retract(h)
  <2>1. PICK a \in DOMAIN alerts : alerts' = [alerts EXCEPT ![a].retracted = TRUE]
    BY <1>5 DEF Retract
  <2>2. [alerts[a] EXCEPT !.retracted = TRUE] \in Alert /\ a \in 1..Len(alerts)
    BY AlertType, MarkedType
  <2>3. alerts' \in Seq(Alert) /\ Len(alerts') = Len(alerts)
    BY <2>1, <2>2, ExceptSeq DEF TypeOK
  <2>4. req' = [req EXCEPT ![h] = req[h]]
    BY <1>5 DEF Retract, TypeOK
  <2>5. /\ proposals' \in Seq(Proposal) /\ Len(proposals) <= Len(proposals')
        /\ Len(alerts) <= Len(alerts')
    BY <1>5, <2>3, LenProperties DEF Retract, TypeOK
  <2>6. ReqRef(req[h])'
    BY <1>5, <2>3, LenProperties DEF Retract, Refs, ReqRef, TypeOK
  <2> QED
    BY <1>0, <1>1, <1>5, <2>3, <2>4, <2>5, <2>6, RequestMoves DEF Retract
<1> QED
  BY <1>2, <1>3, <1>4, <1>5 DEF NewRequest

\* The state of a request whose alert is committed.
LEMMA PushType ==
  ASSUME NEW n \in Nat
  PROVE  LET s == [ReqIdle EXCEPT !.pc = "push", !.alert = n]
         IN  s \in ReqState /\ s.pc = "push" /\ s.alert = n
BY IdleTypes DEF ReqState

LEMMA RequestStepType ==
  ASSUME TypeInv, NEW h \in Handlers, RequestStep(h)
  PROVE  TypeInv'
<1> USE DEF TypeInv
<1>0. /\ TypeOK /\ notified \subseteq Nat /\ faults \in 0..MaxFaults
      /\ calls \in 0..MaxCalls /\ req[h] \in ReqState /\ ReqRef(req[h])
  BY DEF TypeOK, Refs
<1>1. ReqRef(ReqIdle) /\ ReqRef(ReqIdle)'
  BY IdleTypes DEF ReqRef, ReqIdle
<1>2. CASE ManualReload(h)
  <2> DEFINE p == req[h].row
  <2>1. p \in DOMAIN proposals /\ proposals[p].message \in Wordings /\ req[h].ttl \in Int
    BY <1>0, <1>2, RowType DEF ManualReload, ReqRef, ReqState, Proposal
  <2>2. PICK s \in ReqState : ReqRef(s) /\ req' = [req EXCEPT ![h] = s]
    <3> DEFINE t == Loaded(p, proposals[p].message, req[h].ttl)
    <3>1. t \in ReqState /\ ReqRef(t)
      BY <2>1, LoadedType DEF ReqRef
    <3>2. req' = [req EXCEPT ![h] = t]
      BY <1>2 DEF ManualReload
    <3> QED
      BY <3>1, <3>2
  <2> QED
    BY <1>0, <1>2, <2>2, RequestReads DEF ManualReload
<1>3. CASE PublishCommit(h)
  <2> DEFINE p == req[h].row
  <2>1. p \in DOMAIN proposals /\ Len(alerts) \in Nat
    BY <1>0, <1>3, LenProperties DEF PublishCommit, ReqRef, TypeOK
  <2>2. PICK id \in Nat : id = Len(alerts) + 1
    BY <2>1
  <2>3. /\ alerts' = Append(alerts, NewAlert(req[h]))
        /\ proposals' = [proposals EXCEPT ![p] = Decided(proposals[p], req[h], id)]
        /\ req' = [req EXCEPT ![h] = [ReqIdle EXCEPT !.pc = "push", !.alert = id]]
    BY <1>3, <2>2 DEF PublishCommit
  <2>4. NewAlert(req[h]) \in Alert /\ Decided(proposals[p], req[h], id) \in Proposal
    BY <1>0, <2>1, PublishedType
  <2>5. proposals' \in Seq(Proposal) /\ Len(proposals') = Len(proposals)
    BY <2>1, <2>3, <2>4, RowWritten
  <2>6. alerts' \in Seq(Alert) /\ Len(alerts') = id
    BY <2>2, <2>3, <2>4, AppendProperties DEF TypeOK
  <2>7. PICK s \in ReqState : /\ req' = [req EXCEPT ![h] = s]
                              /\ s.pc = "push" /\ s.alert = id
    BY <2>3, PushType
  <2>8. ReqRef(s)'
    BY <2>1, <2>2, <2>6, <2>7, LenProperties DEF ReqRef
  <2>9. Len(proposals) <= Len(proposals') /\ Len(alerts) <= Len(alerts')
    BY <2>1, <2>2, <2>5, <2>6, LenProperties DEF TypeOK
  <2> QED
    BY <1>0, <1>3, <2>5, <2>6, <2>7, <2>8, <2>9, RequestMoves DEF PublishCommit
<1>4. CASE Push(h)
  <2>1. PICK s \in ReqState : ReqRef(s) /\ req' = [req EXCEPT ![h] = s]
    <3> DEFINE t == [req[h] EXCEPT !.pc = "stamp"]
    <3>1. t \in ReqState /\ ReqRef(t)
      BY <1>0, <1>4 DEF Push, ReqRef, ReqState
    <3>2. req' = [req EXCEPT ![h] = t]
      BY <1>4 DEF Push
    <3> QED
      BY <3>1, <3>2
  <2>2. notified' \subseteq Nat
    BY <1>0, <1>4 DEF Push, ReqState
  <2> QED
    BY <1>0, <1>4, <2>1, <2>2, RequestReads DEF Push
<1>5. CASE Stamp(h)
  <2> DEFINE a == req[h].alert
  <2>1. a \in DOMAIN alerts
    BY <1>0, <1>5 DEF Stamp, ReqRef
  <2>2. alerts' = [alerts EXCEPT ![a] = [alerts[a] EXCEPT !.pushed = TRUE]]
    BY <1>5 DEF Stamp
  <2>3. alerts' \in Seq(Alert) /\ Len(alerts') = Len(alerts)
    BY <2>1, <2>2, AlertType, MarkedType, AlertWritten
  <2>4. /\ proposals' \in Seq(Proposal) /\ Len(proposals) <= Len(proposals')
        /\ Len(alerts) <= Len(alerts')
    BY <1>5, <2>3, LenProperties DEF Stamp, TypeOK
  <2>5. req' = [req EXCEPT ![h] = ReqIdle]
    BY <1>5 DEF Stamp
  <2> QED
    BY <1>0, <1>1, <1>5, <2>3, <2>4, <2>5, IdleTypes, RequestMoves DEF Stamp
<1>6. CASE DismissCommit(h)
  <2> DEFINE p == req[h].row
             status == IF req[h].status # "dismissed" THEN "dismissed" ELSE proposals[p].status
  <2>1. p \in DOMAIN proposals
    BY <1>0, <1>6 DEF DismissCommit, ReqRef
  <2>2. proposals' = [proposals EXCEPT ![p] = [proposals[p] EXCEPT !.status = status]]
    BY <1>6 DEF DismissCommit
  <2>3. proposals[p] \in Proposal /\ status \in Statuses
    BY <2>1, RowType DEF Proposal, Statuses
  <2>4. [proposals[p] EXCEPT !.status = status] \in Proposal
    <3> HIDE DEF status, p
    <3> QED
      BY <2>3 DEF Proposal
  <2>5. proposals' \in Seq(Proposal) /\ Len(proposals') = Len(proposals)
    BY <2>1, <2>2, <2>4, RowWritten
  <2>6. /\ alerts' \in Seq(Alert) /\ Len(alerts) <= Len(alerts')
        /\ Len(proposals) <= Len(proposals')
    BY <1>6, <2>5, LenProperties DEF DismissCommit, TypeOK
  <2>7. req' = [req EXCEPT ![h] = ReqIdle]
    BY <1>6 DEF DismissCommit
  <2> QED
    BY <1>0, <1>1, <1>6, <2>5, <2>6, <2>7, IdleTypes, RequestMoves DEF DismissCommit
<1> QED
  BY <1>2, <1>3, <1>4, <1>5, <1>6 DEF RequestStep

LEMMA RequestFailsType ==
  ASSUME TypeInv, NEW h \in Handlers, RequestFails(h)
  PROVE  TypeInv'
<1>1. ReqRef(ReqIdle)
  BY IdleTypes DEF ReqRef
<1>2. faults' \in 0..MaxFaults /\ calls' \in 0..MaxCalls /\ notified' \subseteq Nat
  BY Constants DEF RequestFails, TypeInv, TypeOK
<1> QED
  BY <1>1, <1>2, IdleTypes, RequestReads DEF RequestFails

\* The weather, the clock and a crash touch no table.
LEMMA SurroundingsType ==
  ASSUME TypeInv, Weather \/ Tick \/ Crash \/ UNCHANGED vars
  PROVE  TypeInv'
<1> USE DEF TypeInv
<1>1. CASE Weather
  <2>1. level' \in [Regions -> Results]
    BY <1>1, Constants DEF Weather, TypeOK
  <2> QED
    BY <1>1, <2>1 DEF Weather, TypeOK, Refs, EvalRef, ReqRef
<1>2. CASE Tick
  <2>1. clock' \in 0..MaxTime
    BY <1>2, Constants DEF Tick, TypeOK
  <2> QED
    BY <1>2, <2>1 DEF Tick, TypeOK, Refs, EvalRef, ReqRef
<1>3. CASE Crash
  <2>1. eval' \in [Evaluators -> EvalState] /\ req' \in [Handlers -> ReqState]
    BY <1>3, IdleTypes DEF Crash
  <2>2. faults' \in 0..MaxFaults
    BY <1>3, Constants DEF Crash, TypeOK
  <2>3. TypeOK'
    BY <1>3, <2>1, <2>2 DEF Crash, TypeOK
  <2>4. Refs'
    BY <1>3, IdleTypes DEF Crash, Refs, EvalRef, ReqRef
  <2> QED
    BY <2>3, <2>4
<1>4. CASE UNCHANGED vars
  BY <1>4 DEF vars, TypeOK, Refs, EvalRef, ReqRef
<1> QED
  BY <1>1, <1>2, <1>3, <1>4

\* Every step keeps the types.
LEMMA TypeInvStep == TypeInv /\ [Next]_vars => TypeInv'
<1> SUFFICES ASSUME TypeInv, [Next]_vars PROVE TypeInv'
  OBVIOUS
<1>1. CASE \E e \in Evaluators : EvalStep(e)
  BY <1>1, EvalStepType
<1>2. CASE \E e \in Evaluators : PassFails(e)
  BY <1>2, PassFailsType
<1>3. CASE \E h \in Handlers : NewRequest(h)
  BY <1>3, NewRequestType
<1>4. CASE \E h \in Handlers : RequestStep(h)
  BY <1>4, RequestStepType
<1>5. CASE \E h \in Handlers : RequestFails(h)
  BY <1>5, RequestFailsType
<1>6. CASE Weather \/ Tick \/ Crash \/ UNCHANGED vars
  BY <1>6, SurroundingsType
<1> QED
  BY <1>1, <1>2, <1>3, <1>4, <1>5, <1>6 DEF Next

\* The tables hold well-formed rows whatever the threads do, and a thread that
\* goes on with a row it found earlier (Refresh, PublishCommit, Stamp,
\* DismissCommit) finds it still there.
THEOREM TypeCorrect == Spec => [](TypeOK /\ Refs)
<1>1. Init => TypeInv
  BY TypeInvInit
<1>2. TypeInv /\ [Next]_vars => TypeInv'
  BY TypeInvStep
<1> QED
  BY <1>1, <1>2, PTL DEF Spec, TypeInv

-----------------------------------------------------------------------------
(* What a step may do to the tables.                                       *)

\* The steps that write to alert_proposals, and those that write to alerts.
LEMMA ProposalWriters ==
  ASSUME [Next]_vars
  PROVE  \/ UNCHANGED proposals
         \/ \E e \in Evaluators : Refresh(e) \/ Insert(e)
         \/ \E h \in Handlers : ManualInsert(h) \/ PublishCommit(h) \/ DismissCommit(h)
BY DEF Next, vars, EvalStep, NewRequest, RequestStep, StartPass, ScoreRegion,
       ReadPending, ReadLive, PassFails, ApproveRead, DismissRead, Retract,
       ManualReload, Push, Stamp, RequestFails, Weather, Tick, Crash

LEMMA AlertWriters ==
  ASSUME [Next]_vars
  PROVE  \/ UNCHANGED alerts
         \/ \E h \in Handlers : PublishCommit(h) \/ Stamp(h) \/ Retract(h)
BY DEF Next, vars, EvalStep, NewRequest, RequestStep, StartPass, ScoreRegion,
       ReadPending, Refresh, ReadLive, Insert, PassFails, ApproveRead,
       ManualInsert, DismissRead, ManualReload, Push, DismissCommit,
       RequestFails, Weather, Tick, Crash

\* What stays of a row whoever writes to it.
Kept(old, new) ==
  /\ new.region = old.region /\ new.engine = old.engine
  /\ old.status # "proposed" => new.status # "proposed"
  /\ old.alert # 0 => new.alert # 0

LEMMA DecidedKeeps ==
  ASSUME NEW row \in Proposal, NEW s \in ReqState, NEW id \in Nat \ {0}
  PROVE  LET new == Decided(row, s, id)
         IN  /\ Kept(row, new) /\ new.score = row.score
             /\ new.severity = row.severity /\ new.alert = id
             /\ new.title = row.title
             /\ new.message \in {row.message, "operator"}
             /\ s.status # "approved" => new.status = "approved"
             /\ s.status = "approved" => new.status = row.status
<1> DEFINE status == IF s.status # "approved" THEN "approved" ELSE row.status
           message == IF s.message = "operator" THEN s.message ELSE row.message
<1>1. Decided(row, s, id) = [row EXCEPT !.status = status, !.message = message, !.alert = id]
  BY DEF Decided
<1>2. /\ message \in {row.message, "operator"}
      /\ s.status # "approved" => status = "approved"
      /\ s.status = "approved" => status = row.status
  OBVIOUS
<1> HIDE DEF status, message
<1> QED
  BY <1>1, <1>2 DEF Proposal, Kept

\* The row a dismissal writes.
DismissedRow(row, s) ==
  [row EXCEPT !.status = IF s.status # "dismissed" THEN "dismissed" ELSE @]

LEMMA DismissalKeeps ==
  ASSUME NEW row \in Proposal, NEW s \in ReqState
  PROVE  LET new == DismissedRow(row, s)
         IN  /\ Kept(row, new) /\ new.score = row.score
             /\ new.severity = row.severity /\ new.message = row.message
             /\ new.alert = row.alert /\ new.title = row.title
             /\ new.status \in {row.status, "dismissed"}
<1> DEFINE status == IF s.status # "dismissed" THEN "dismissed" ELSE row.status
<1>1. DismissedRow(row, s) = [row EXCEPT !.status = status]
  BY DEF DismissedRow
<1>2. status \in {row.status, "dismissed"}
  OBVIOUS
<1> HIDE DEF status
<1> QED
  BY <1>1, <1>2 DEF Proposal, Kept

\* What the commits do, in terms of rows.
LEMMA RefreshWrites ==
  ASSUME TypeInv, NEW e \in Evaluators, Refresh(e)
  PROVE  LET p == eval[e].row
         IN  /\ p \in DOMAIN proposals
             /\ HasResult(eval[e])
             /\ \E reworded \in BOOLEAN :
                  proposals' = [proposals EXCEPT ![p] =
                                  Refreshed(proposals[p], eval[e], reworded)]
BY DEF TypeInv, Refs, EvalRef, Refresh

LEMMA DismissWrites ==
  ASSUME TypeInv, NEW h \in Handlers, DismissCommit(h)
  PROVE  LET p == req[h].row
         IN  /\ p \in DOMAIN proposals
             /\ proposals' = [proposals EXCEPT ![p] = DismissedRow(proposals[p], req[h])]
BY DEF TypeInv, Refs, ReqRef, DismissCommit, DismissedRow

LEMMA PublishWrites ==
  ASSUME TypeInv, NEW h \in Handlers, PublishCommit(h)
  PROVE  LET p == req[h].row
             id == Len(alerts) + 1
         IN  /\ p \in DOMAIN proposals /\ id \in Nat \ {0}
             /\ proposals' = [proposals EXCEPT ![p] = Decided(proposals[p], req[h], id)]
             /\ alerts' = Append(alerts, NewAlert(req[h]))
<1>1. Len(alerts) \in Nat
  BY LenProperties DEF TypeInv, TypeOK
<1> QED
  BY <1>1 DEF TypeInv, Refs, ReqRef, PublishCommit

\* Each way in which a row can change.
RefreshOf(p) ==
  \E e \in Evaluators, reworded \in BOOLEAN :
    /\ Refresh(e) /\ p = eval[e].row
    /\ HasResult(eval[e])
    /\ proposals'[p] = Refreshed(proposals[p], eval[e], reworded)

DecisionOf(p) ==
  \E h \in Handlers :
    /\ PublishCommit(h) /\ p = req[h].row
    /\ proposals'[p] = Decided(proposals[p], req[h], Len(alerts) + 1)

DismissalOf(p) ==
  \E h \in Handlers :
    /\ DismissCommit(h) /\ p = req[h].row
    /\ proposals'[p] = DismissedRow(proposals[p], req[h])

LEMMA RowChanges ==
  ASSUME TypeInv, [Next]_vars, NEW p \in DOMAIN proposals
  PROVE  /\ p \in DOMAIN proposals'
         /\ \/ proposals'[p] = proposals[p]
            \/ RefreshOf(p) \/ DecisionOf(p) \/ DismissalOf(p)
<1>0. TypeOK /\ proposals \in Seq(Proposal)
  BY DEF TypeInv, TypeOK
<1>1. CASE UNCHANGED proposals
  BY <1>1
<1>2. ASSUME NEW e \in Evaluators, Refresh(e)
      PROVE  p \in DOMAIN proposals' /\ (proposals'[p] = proposals[p] \/ RefreshOf(p))
  BY <1>2, RefreshWrites DEF RefreshOf
<1>3. ASSUME NEW e \in Evaluators, Insert(e)
      PROVE  p \in DOMAIN proposals' /\ proposals'[p] = proposals[p]
  BY <1>0, <1>3, RowType DEF Insert
<1>4. ASSUME NEW h \in Handlers, ManualInsert(h)
      PROVE  p \in DOMAIN proposals' /\ proposals'[p] = proposals[p]
  BY <1>0, <1>4, RowType DEF ManualInsert
<1>5. ASSUME NEW h \in Handlers, PublishCommit(h)
      PROVE  p \in DOMAIN proposals' /\ (proposals'[p] = proposals[p] \/ DecisionOf(p))
  BY <1>5, PublishWrites DEF DecisionOf
<1>6. ASSUME NEW h \in Handlers, DismissCommit(h)
      PROVE  p \in DOMAIN proposals' /\ (proposals'[p] = proposals[p] \/ DismissalOf(p))
  BY <1>6, DismissWrites DEF DismissalOf
<1> QED
  BY <1>1, <1>2, <1>3, <1>4, <1>5, <1>6, ProposalWriters

\* No step undoes a decision or takes an alert's name off a row.
LEMMA RowsKept ==
  ASSUME TypeInv, [Next]_vars, NEW p \in DOMAIN proposals
  PROVE  p \in DOMAIN proposals' /\ Kept(proposals[p], proposals'[p])
<1>0. TypeOK /\ proposals[p] \in Proposal
  BY RowType DEF TypeInv
<1>1. CASE proposals'[p] = proposals[p]
  BY <1>1, RowChanges DEF Kept
<1>2. CASE RefreshOf(p)
  <2>1. PICK e \in Evaluators, reworded \in BOOLEAN :
          /\ HasResult(eval[e])
          /\ proposals'[p] = Refreshed(proposals[p], eval[e], reworded)
    BY <1>2 DEF RefreshOf
  <2>2. eval[e] \in EvalState
    BY <1>0 DEF TypeOK
  <2> QED
    BY <1>0, <2>1, <2>2, RefreshedType, RowChanges DEF Kept
<1>3. CASE DecisionOf(p)
  <2>1. PICK h \in Handlers :
          proposals'[p] = Decided(proposals[p], req[h], Len(alerts) + 1)
    BY <1>3 DEF DecisionOf
  <2>2. req[h] \in ReqState /\ Len(alerts) + 1 \in Nat \ {0}
    BY <1>0, LenProperties DEF TypeOK
  <2> QED
    BY <1>0, <2>1, <2>2, DecidedKeeps, RowChanges
<1>4. CASE DismissalOf(p)
  <2>1. PICK h \in Handlers : proposals'[p] = DismissedRow(proposals[p], req[h])
    BY <1>4 DEF DismissalOf
  <2>2. req[h] \in ReqState
    BY <1>0 DEF TypeOK
  <2> QED
    BY <1>0, <2>1, <2>2, DismissalKeeps, RowChanges
<1> QED
  BY <1>1, <1>2, <1>3, <1>4, RowChanges

\* A new row waits for a decision; it is an operator's own, or the one that a
\* thread about to insert had in mind.
LEMMA NewRows ==
  ASSUME TypeInv, [Next]_vars, NEW p \in DOMAIN proposals' \ DOMAIN proposals
  PROVE  /\ p = Len(proposals) + 1
         /\ proposals'[p].status = "proposed" /\ proposals'[p].alert = 0
         /\ \/ /\ proposals'[p].engine = "manual" /\ proposals'[p].score = TopScore
               /\ proposals'[p].title = "operator" /\ proposals'[p].message = "operator"
            \/ \E e \in Evaluators : /\ eval[e].pc = "insert"
                                     /\ proposals'[p] = NewProposal(eval[e])
<1>0. TypeOK /\ proposals \in Seq(Proposal)
  BY DEF TypeInv, TypeOK
<1>1. CASE UNCHANGED proposals
  BY <1>1
<1>2. ASSUME NEW e \in Evaluators, Refresh(e)
      PROVE  FALSE
  BY <1>2, RefreshWrites
<1>3. ASSUME NEW e \in Evaluators, Insert(e)
      PROVE  p = Len(proposals) + 1 /\ proposals'[p] = NewProposal(eval[e])
             /\ eval[e].pc = "insert"
  BY <1>0, <1>3, LenProperties DEF Insert
<1>4. ASSUME NEW h \in Handlers, ManualInsert(h)
      PROVE  /\ p = Len(proposals) + 1
             /\ proposals'[p].status = "proposed" /\ proposals'[p].alert = 0
             /\ proposals'[p].engine = "manual" /\ proposals'[p].score = TopScore
             /\ proposals'[p].title = "operator" /\ proposals'[p].message = "operator"
  BY <1>0, <1>4, LenProperties DEF ManualInsert
<1>5. ASSUME NEW h \in Handlers, PublishCommit(h)
      PROVE  FALSE
  BY <1>5, PublishWrites
<1>6. ASSUME NEW h \in Handlers, DismissCommit(h)
      PROVE  FALSE
  BY <1>6, DismissWrites
<1> QED
  BY <1>1, <1>2, <1>3, <1>4, <1>5, <1>6, ProposalWriters DEF NewProposal

LEMMA Marks ==
  ASSUME NEW old \in Alert, NEW new,
         \/ new = old
         \/ new = [old EXCEPT !.retracted = TRUE]
         \/ new = [old EXCEPT !.pushed = TRUE]
  PROVE  /\ new = [old EXCEPT !.retracted = new.retracted, !.pushed = new.pushed]
         /\ old.retracted => new.retracted
<1>1. CASE new = old
  BY <1>1 DEF Alert
<1>2. CASE new = [old EXCEPT !.retracted = TRUE]
  BY <1>2 DEF Alert
<1>3. CASE new = [old EXCEPT !.pushed = TRUE]
  BY <1>3 DEF Alert
<1> QED
  BY <1>1, <1>2, <1>3

\* An alert that exists keeps what it said; it can only be marked retracted or
\* pushed, and neither mark is ever taken off.
LEMMA AlertsKept ==
  ASSUME TypeInv, [Next]_vars, NEW a \in DOMAIN alerts
  PROVE  /\ a \in DOMAIN alerts'
         /\ alerts'[a] = [alerts[a] EXCEPT !.retracted = alerts'[a].retracted,
                                           !.pushed = alerts'[a].pushed]
         /\ alerts[a].retracted => alerts'[a].retracted
<1>0. TypeOK /\ alerts \in Seq(Alert) /\ alerts[a] \in Alert
  BY AlertType DEF TypeInv, TypeOK
<1> DEFINE Goal == /\ a \in DOMAIN alerts'
                   /\ \/ alerts'[a] = alerts[a]
                      \/ alerts'[a] = [alerts[a] EXCEPT !.retracted = TRUE]
                      \/ alerts'[a] = [alerts[a] EXCEPT !.pushed = TRUE]
<1>1. ASSUME UNCHANGED alerts
      PROVE  Goal
  BY <1>1
<1>2. ASSUME NEW h \in Handlers, PublishCommit(h)
      PROVE  Goal
  <2>1. a \in DOMAIN alerts' /\ alerts'[a] = alerts[a]
    BY <1>0, <1>2, AlertType DEF PublishCommit
  <2> QED
    BY <2>1
<1>3. ASSUME NEW h \in Handlers, Stamp(h)
      PROVE  Goal
  <2>1. PICK b : alerts' = [alerts EXCEPT ![b] = [alerts[b] EXCEPT !.pushed = TRUE]]
    BY <1>3 DEF Stamp
  <2>2. CASE a = b
    BY <1>0, <2>1, <2>2
  <2>3. CASE a # b
    BY <1>0, <2>1, <2>3
  <2> QED
    BY <2>2, <2>3
<1>4. ASSUME NEW h \in Handlers, Retract(h)
      PROVE  Goal
  BY <1>0, <1>4 DEF Retract
<1>5. Goal
  BY <1>1, <1>2, <1>3, <1>4, AlertWriters
<1>6. PICK old \in Alert : old = alerts[a]
  BY <1>0
<1>7. PICK new : new = alerts'[a]
  OBVIOUS
<1>8. \/ new = old
      \/ new = [old EXCEPT !.retracted = TRUE]
      \/ new = [old EXCEPT !.pushed = TRUE]
  BY <1>5, <1>6, <1>7
<1>9. /\ new = [old EXCEPT !.retracted = new.retracted, !.pushed = new.pushed]
      /\ old.retracted => new.retracted
  BY <1>8, Marks
<1> HIDE DEF Goal
<1> QED
  BY <1>5, <1>6, <1>7, <1>9 DEF Goal

LEMMA AlertFieldsKept ==
  ASSUME TypeInv, [Next]_vars, NEW a \in DOMAIN alerts
  PROVE  /\ a \in DOMAIN alerts'
         /\ alerts'[a].region = alerts[a].region
         /\ alerts'[a].severity = alerts[a].severity
         /\ alerts'[a].title = alerts[a].title
         /\ alerts'[a].message = alerts[a].message
         /\ alerts'[a].proposal = alerts[a].proposal
         /\ alerts'[a].issued = alerts[a].issued
         /\ alerts'[a].expires = alerts[a].expires
<1>1. PICK old \in Alert : old = alerts[a]
  BY AlertType DEF TypeInv
<1>2. PICK x, y : x = alerts'[a].retracted /\ y = alerts'[a].pushed
  OBVIOUS
<1>3. alerts'[a] = [old EXCEPT !.retracted = x, !.pushed = y]
  BY <1>1, <1>2, AlertsKept
<1>4. LET new == [old EXCEPT !.retracted = x, !.pushed = y]
      IN  /\ new.region = old.region /\ new.severity = old.severity
          /\ new.title = old.title /\ new.message = old.message
          /\ new.proposal = old.proposal /\ new.issued = old.issued
          /\ new.expires = old.expires
  BY DEF Alert
<1> QED
  BY <1>1, <1>3, <1>4, AlertsKept

\* A new alert is the one that a request at its commit had in mind.
LEMMA NewAlerts ==
  ASSUME TypeInv, [Next]_vars, NEW a \in DOMAIN alerts' \ DOMAIN alerts
  PROVE  /\ a = Len(alerts) + 1
         /\ \E h \in Handlers : PublishCommit(h) /\ alerts'[a] = NewAlert(req[h])
<1>0. TypeOK /\ alerts \in Seq(Alert)
  BY DEF TypeInv, TypeOK
<1>1. CASE UNCHANGED alerts
  BY <1>1
<1>2. ASSUME NEW h \in Handlers, PublishCommit(h)
      PROVE  a = Len(alerts) + 1 /\ alerts'[a] = NewAlert(req[h])
  BY <1>0, <1>2, LenProperties DEF PublishCommit
<1>3. ASSUME NEW h \in Handlers, Stamp(h)
      PROVE  FALSE
  BY <1>3 DEF Stamp
<1>4. ASSUME NEW h \in Handlers, Retract(h)
      PROVE  FALSE
  BY <1>4 DEF Retract
<1> QED
  BY <1>1, <1>2, <1>3, <1>4, AlertWriters

-----------------------------------------------------------------------------
(* An alert that has ended stays ended.                                    *)

LEMMA ClockTicks ==
  ASSUME [Next]_vars
  PROVE  UNCHANGED clock \/ Tick
BY DEF Next, vars, EvalStep, NewRequest, RequestStep, StartPass, ScoreRegion,
       ReadPending, Refresh, ReadLive, Insert, PassFails, ApproveRead,
       ManualInsert, DismissRead, Retract, ManualReload, PublishCommit, Push,
       Stamp, DismissCommit, RequestFails, Weather, Crash

LEMMA EndedStays ==
  ASSUME TypeInv, [Next]_vars, NEW a \in DOMAIN alerts
  PROVE  ~LiveAt(a, clock) => ~LiveAt(a, clock)'
<1>1. TypeOK /\ alerts[a] \in Alert
  BY AlertType DEF TypeInv
<1>2. clock \in Int /\ clock' \in Int /\ clock <= clock'
  BY <1>1, Constants, ClockTicks DEF TypeOK, Tick
<1>3. alerts'[a].expires = alerts[a].expires /\ alerts[a].expires \in Int
  BY <1>1, AlertFieldsKept DEF Alert
<1>4. alerts[a].retracted => alerts'[a].retracted
  BY AlertsKept
<1> QED
  BY <1>2, <1>3, <1>4 DEF LiveAt

\* Whatever commits come late, an issued alert keeps its text, its severity
\* and its end, and once retracted or past its end it never comes back.
THEOREM AlertsOnlyEndAlways == Spec => AlertsOnlyEnd
<1>1. TypeInv /\ [Next]_vars => EndingStep
  BY AlertsKept, EndedStays DEF EndingStep
<1>2. Spec => []TypeInv
  BY TypeCorrect, PTL DEF TypeInv
<1> QED
  BY <1>1, <1>2, PTL DEF Spec, AlertsOnlyEnd

-----------------------------------------------------------------------------
(* The audit trail.  A publish does not write the status if the copy it     *)
(* loaded says "approved" already, so the row must not say "proposed" then; *)
(* that holds because no step takes a decision back.                        *)

AlertsHaveDecisions ==
  \A a \in DOMAIN alerts :
    /\ alerts[a].proposal \in DOMAIN proposals
    /\ proposals[alerts[a].proposal].region = alerts[a].region
    /\ proposals[alerts[a].proposal].status # "proposed"
    /\ proposals[alerts[a].proposal].alert # 0

DecisionsHaveAlerts ==
  \A p \in DOMAIN proposals :
    /\ proposals[p].status = "approved" => proposals[p].alert # 0
    /\ proposals[p].alert # 0 =>
         /\ proposals[p].alert \in DOMAIN alerts
         /\ alerts[proposals[p].alert].proposal = p

CopiesStay ==
  \A h \in Handlers :
    req[h].pc = "publish" /\ req[h].status = "approved" =>
      proposals[req[h].row].status # "proposed"

AuditInv == AlertsHaveDecisions /\ DecisionsHaveAlerts /\ CopiesStay

\* What PublishCommit makes of the row and of the new alert.
LEMMA PublishLinks ==
  ASSUME TypeInv, CopiesStay, [Next]_vars, NEW h \in Handlers, PublishCommit(h)
  PROVE  LET p == req[h].row
             id == Len(alerts) + 1
         IN  /\ p \in DOMAIN proposals /\ p \in DOMAIN proposals'
             /\ id \in DOMAIN alerts'
             /\ alerts'[id] = NewAlert(req[h])
             /\ alerts'[id].proposal = p
             /\ proposals'[p].region = alerts'[id].region
             /\ proposals'[p].status # "proposed"
             /\ proposals'[p].alert = id
<1> DEFINE p == req[h].row
           id == Len(alerts) + 1
<1>0. TypeOK /\ req[h] \in ReqState /\ req[h].pc = "publish"
  BY DEF TypeInv, TypeOK, PublishCommit
<1>1. /\ p \in DOMAIN proposals /\ id \in Nat \ {0}
      /\ proposals' = [proposals EXCEPT ![p] = Decided(proposals[p], req[h], id)]
      /\ alerts' = Append(alerts, NewAlert(req[h]))
  BY PublishWrites
<1>2. proposals[p] \in Proposal
  BY <1>0, <1>1, RowType
<1>3. /\ Kept(proposals[p], Decided(proposals[p], req[h], id))
      /\ Decided(proposals[p], req[h], id).alert = id
      /\ req[h].status # "approved" =>
           Decided(proposals[p], req[h], id).status = "approved"
  BY <1>0, <1>1, <1>2, DecidedKeeps
<1>4. proposals'[p] = Decided(proposals[p], req[h], id) /\ p \in DOMAIN proposals'
  BY <1>1
<1>5. proposals'[p].status # "proposed"
  BY <1>0, <1>3, <1>4 DEF Kept, CopiesStay
<1>6. id \in DOMAIN alerts' /\ alerts'[id] = NewAlert(req[h])
  BY <1>0, <1>1, LenProperties DEF TypeOK
<1>7. NewAlert(req[h]).proposal = p /\ NewAlert(req[h]).region = proposals[p].region
  BY DEF NewAlert
<1> QED
  BY <1>1, <1>3, <1>4, <1>5, <1>6, <1>7 DEF Kept

\* The request takes its copy of row p.
Loads(h, p, message, ttl) == req' = [req EXCEPT ![h] = Loaded(p, message, ttl)]

\* A request is about to publish since this step only if it has just loaded
\* the row.
LEMMA Copies ==
  ASSUME TypeInv, [Next]_vars, NEW h \in Handlers, req'[h].pc = "publish"
  PROVE  \/ req'[h] = req[h]
         \/ /\ UNCHANGED proposals
            /\ \E p \in DOMAIN proposals :
                 /\ req'[h].row = p
                 /\ req'[h].status = proposals[p].status
                 /\ req'[h].severity = proposals[p].severity
                 /\ req'[h].title = proposals[p].title
                 /\ req'[h].message \in {proposals[p].message, "operator"}
<1>0. TypeOK /\ req \in [Handlers -> ReqState]
  BY DEF TypeInv, TypeOK
<1>1. CASE UNCHANGED req
  BY <1>1
<1>2. CASE Crash
  BY <1>2, IdleTypes DEF Crash
<1>3. ASSUME NEW g \in Handlers, NEW s \in ReqState, req' = [req EXCEPT ![g] = s],
             s.pc # "publish"
      PROVE  req'[h] = req[h]
  BY <1>0, <1>3
<1>4. ASSUME NEW g \in Handlers,
             \/ ManualInsert(g) \/ DismissRead(g) \/ PublishCommit(g) \/ Push(g)
             \/ Stamp(g) \/ DismissCommit(g) \/ RequestFails(g)
      PROVE  req'[h] = req[h]
  <2>1. CASE h = g
    BY <1>0, <1>4, <2>1, IdleTypes
    DEF ManualInsert, DismissRead, PublishCommit, Push, Stamp, DismissCommit,
        RequestFails, ReqState
  <2>2. CASE h # g
    BY <1>0, <1>4, <2>2
    DEF ManualInsert, DismissRead, PublishCommit, Push, Stamp, DismissCommit,
        RequestFails
  <2> QED
    BY <2>1, <2>2
<1>5. ASSUME NEW g \in Handlers, NEW p \in DOMAIN proposals, NEW message, NEW ttl,
             Loads(g, p, message, ttl), UNCHANGED proposals
      PROVE  \/ req'[h] = req[h]
             \/ /\ req'[h].row = p
                /\ req'[h].status = proposals[p].status
                /\ req'[h].severity = proposals[p].severity
                /\ req'[h].title = proposals[p].title
                /\ req'[h].message = message
  BY <1>0, <1>5 DEF Loads, Loaded
<1>6. ASSUME NEW g \in Handlers, ApproveRead(g) \/ ManualReload(g)
      PROVE  /\ UNCHANGED proposals
             /\ \E p \in DOMAIN proposals : \E message, ttl :
                  /\ message \in {proposals[p].message, "operator"}
                  /\ Loads(g, p, message, ttl)
  <2>1. CASE ApproveRead(g)
    <3>1. PICK p \in DOMAIN proposals, ttl \in Ttls, edit \in BOOLEAN :
            req' = [req EXCEPT ![g] =
              Loaded(p, IF edit THEN "operator" ELSE proposals[p].message, ttl)]
      BY <2>1 DEF ApproveRead
    <3>2. PICK message \in {proposals[p].message, "operator"} :
            message = IF edit THEN "operator" ELSE proposals[p].message
      OBVIOUS
    <3>3. Loads(g, p, message, ttl)
      BY <3>1, <3>2 DEF Loads
    <3>4. UNCHANGED proposals
      BY <2>1 DEF ApproveRead
    <3> QED
      BY <3>2, <3>3, <3>4
  <2>2. CASE ManualReload(g)
    <3>1. req[g].row \in DOMAIN proposals
      BY <2>2 DEF ManualReload, TypeInv, Refs, ReqRef
    <3>2. /\ UNCHANGED proposals
          /\ Loads(g, req[g].row, proposals[req[g].row].message, req[g].ttl)
      BY <2>2 DEF ManualReload, Loads
    <3> QED
      BY <3>1, <3>2
  <2> QED
    BY <1>6, <2>1, <2>2
<1>7. \/ UNCHANGED req \/ Crash
      \/ \E g \in Handlers :
           \/ ManualInsert(g) \/ DismissRead(g) \/ PublishCommit(g) \/ Push(g)
           \/ Stamp(g) \/ DismissCommit(g) \/ RequestFails(g)
           \/ ApproveRead(g) \/ ManualReload(g)
  BY DEF Next, vars, EvalStep, NewRequest, RequestStep, StartPass, ScoreRegion,
         ReadPending, Refresh, ReadLive, Insert, PassFails, Retract, Weather, Tick
<1> QED
  BY <1>1, <1>2, <1>4, <1>5, <1>6, <1>7

LEMMA AuditInvInit == Init => AuditInv
BY IdleTypes DEF Init, AuditInv, AlertsHaveDecisions, DecisionsHaveAlerts, CopiesStay

LEMMA AuditInvStep == TypeInv /\ AuditInv /\ [Next]_vars => AuditInv'
<1> SUFFICES ASSUME TypeInv, AuditInv, [Next]_vars PROVE AuditInv'
  OBVIOUS
<1> USE DEF AuditInv
<1>0. TypeOK
  BY DEF TypeInv
<1>1. AlertsHaveDecisions'
  <2> SUFFICES ASSUME NEW a \in DOMAIN alerts'
               PROVE  /\ alerts'[a].proposal \in DOMAIN proposals'
                      /\ proposals'[alerts'[a].proposal].region = alerts'[a].region
                      /\ proposals'[alerts'[a].proposal].status # "proposed"
                      /\ proposals'[alerts'[a].proposal].alert # 0
    BY DEF AlertsHaveDecisions
  <2>1. CASE a \in DOMAIN alerts
    <3>1. alerts'[a].proposal = alerts[a].proposal /\ alerts'[a].region = alerts[a].region
      BY <2>1, AlertFieldsKept
    <3> QED
      BY <2>1, <3>1, RowsKept DEF AlertsHaveDecisions, Kept
  <2>2. CASE a \notin DOMAIN alerts
    <3>1. PICK h \in Handlers : PublishCommit(h) /\ a = Len(alerts) + 1
      BY <2>2, NewAlerts
    <3>2. a \in Nat \ {0}
      BY <1>0, <3>1, LenProperties DEF TypeOK
    <3> QED
      BY <3>1, <3>2, PublishLinks
  <2> QED
    BY <2>1, <2>2
<1>2. DecisionsHaveAlerts'
  <2> SUFFICES ASSUME NEW p \in DOMAIN proposals'
               PROVE  /\ proposals'[p].status = "approved" => proposals'[p].alert # 0
                      /\ proposals'[p].alert # 0 =>
                           /\ proposals'[p].alert \in DOMAIN alerts'
                           /\ alerts'[proposals'[p].alert].proposal = p
    BY DEF DecisionsHaveAlerts
  <2>1. CASE p \notin DOMAIN proposals
    BY <2>1, NewRows
  <2>2. ASSUME p \in DOMAIN proposals, proposals'[p].alert = proposals[p].alert,
               proposals'[p].status \in {proposals[p].status, "dismissed"}
        PROVE  /\ proposals'[p].status = "approved" => proposals'[p].alert # 0
               /\ proposals'[p].alert # 0 =>
                    /\ proposals'[p].alert \in DOMAIN alerts'
                    /\ alerts'[proposals'[p].alert].proposal = p
    <3>1. \A a \in DOMAIN alerts :
            a \in DOMAIN alerts' /\ alerts'[a].proposal = alerts[a].proposal
      BY AlertFieldsKept
    <3> QED
      BY <2>2, <3>1 DEF DecisionsHaveAlerts
  <2>3. CASE p \in DOMAIN proposals /\ DecisionOf(p)
    <3>1. PICK h \in Handlers : PublishCommit(h) /\ p = req[h].row
      BY <2>3 DEF DecisionOf
    <3>2. Len(alerts) + 1 \in Nat \ {0}
      BY <1>0, LenProperties DEF TypeOK
    <3> QED
      BY <3>1, <3>2, PublishLinks
  <2>4. CASE p \in DOMAIN proposals /\ RefreshOf(p)
    <3>1. PICK e \in Evaluators, reworded \in BOOLEAN :
            /\ HasResult(eval[e])
            /\ proposals'[p] = Refreshed(proposals[p], eval[e], reworded)
      BY <2>4 DEF RefreshOf
    <3>2. eval[e] \in EvalState /\ proposals[p] \in Proposal
      BY <1>0, <2>4, RowType DEF TypeOK
    <3> QED
      BY <2>2, <2>4, <3>1, <3>2, RefreshedType
  <2>5. CASE p \in DOMAIN proposals /\ DismissalOf(p)
    <3>1. PICK h \in Handlers : proposals'[p] = DismissedRow(proposals[p], req[h])
      BY <2>5 DEF DismissalOf
    <3>2. req[h] \in ReqState /\ proposals[p] \in Proposal
      BY <1>0, <2>5, RowType DEF TypeOK
    <3> QED
      BY <2>2, <2>5, <3>1, <3>2, DismissalKeeps
  <2>6. CASE p \in DOMAIN proposals /\ proposals'[p] = proposals[p]
    BY <2>2, <2>6
  <2> QED
    BY <2>1, <2>3, <2>4, <2>5, <2>6, RowChanges
<1>3. CopiesStay'
  <2> SUFFICES ASSUME NEW h \in Handlers, req'[h].pc = "publish",
                      req'[h].status = "approved"
               PROVE  proposals'[req'[h].row].status # "proposed"
    BY DEF CopiesStay
  <2>1. CASE req'[h] = req[h]
    <3>1. req[h].row \in DOMAIN proposals
      BY <2>1 DEF TypeInv, Refs, ReqRef
    <3> QED
      BY <2>1, <3>1, RowsKept DEF CopiesStay, Kept
  <2>2. CASE req'[h] # req[h]
    BY <2>2, Copies
  <2> QED
    BY <2>1, <2>2
<1> QED
  BY <1>1, <1>2, <1>3

\* Every alert can be traced to the decision it came from and every approval
\* to its alert, through any number of handlers publishing, approving twice
\* and dismissing at once.
THEOREM AuditTrailKept == Spec => []AuditTrail
<1>1. Spec => []TypeInv
  BY TypeCorrect, PTL DEF TypeInv
<1>2. AuditInv => AuditTrail
  BY DEF AuditInv, AlertsHaveDecisions, DecisionsHaveAlerts, AuditTrail
<1> QED
  BY <1>1, <1>2, AuditInvInit, AuditInvStep, PTL DEF Spec

\* Nobody is notified of an alert that is not committed with its decision.
THEOREM PushFollowsCommit == Spec => PushAfterCommit
<1>1. TypeInv /\ AuditInv /\ [Next]_vars => NotifyingStep \/ UNCHANGED notified
  <2> SUFFICES ASSUME TypeInv, AuditInv, [Next]_vars PROVE NotifyingStep \/ UNCHANGED notified
    OBVIOUS
  <2>1. UNCHANGED notified \/ \E h \in Handlers : Push(h)
    BY DEF Next, vars, EvalStep, NewRequest, RequestStep, StartPass, ScoreRegion,
           ReadPending, Refresh, ReadLive, Insert, PassFails, ApproveRead,
           ManualInsert, DismissRead, Retract, ManualReload, PublishCommit,
           Stamp, DismissCommit, RequestFails, Weather, Tick, Crash
  <2>2. ASSUME NEW h \in Handlers, Push(h)
        PROVE  NotifyingStep
    <3>1. req[h].alert \in DOMAIN alerts
      BY <2>2 DEF Push, TypeInv, Refs, ReqRef
    <3> QED
      BY <2>2, <3>1 DEF Push, NotifyingStep, AuditInv, AlertsHaveDecisions
  <2> QED
    BY <2>1, <2>2
<1>2. Spec => []TypeInv
  BY TypeCorrect, PTL DEF TypeInv
<1> QED
  BY <1>1, <1>2, AuditInvInit, AuditInvStep, PTL DEF Spec, PushAfterCommit

-----------------------------------------------------------------------------
(* AlertContract: every step of AlertLifecycle is one of the contract's,   *)
(* or leaves what the contract talks of alone.                             *)

LEMMA SaysKept ==
  ASSUME TypeInv, [Next]_vars, NEW a \in DOMAIN alerts
  PROVE  a \in DOMAIN alerts' /\ Says(a)' = Says(a)
BY AlertFieldsKept DEF Says

LEMMA OverGrows ==
  ASSUME TypeInv, [Next]_vars
  PROVE  Over \subseteq Over'
BY SaysKept, EndedStays DEF Over

\* Unless an alert is published, what the alerts say stays as it is.
LEMMA IssuedKept ==
  ASSUME TypeInv, [Next]_vars, \A h \in Handlers : ~PublishCommit(h)
  PROVE  UNCHANGED Issued
<1>1. DOMAIN alerts' = DOMAIN alerts
  BY SaysKept, NewAlerts
<1>2. \A a \in DOMAIN alerts : Says(a)' = Says(a)
  BY SaysKept
<1> QED
  BY <1>1, <1>2 DEF Issued

\* Who changes what the contract talks of, besides the alerts' rows.
LEMMA NotifiedWriters ==
  ASSUME [Next]_vars
  PROVE  UNCHANGED notified \/ \E h \in Handlers : Push(h)
BY DEF Next, vars, EvalStep, NewRequest, RequestStep, StartPass, ScoreRegion,
       ReadPending, Refresh, ReadLive, Insert, PassFails, ApproveRead,
       ManualInsert, DismissRead, Retract, ManualReload, PublishCommit,
       Stamp, DismissCommit, RequestFails, Weather, Tick, Crash

\* A row that no publish and no dismissal wrote has the status it had.
LEMMA StatusKept ==
  ASSUME TypeInv, [Next]_vars, NEW p \in DOMAIN proposals,
         ~DecisionOf(p), ~DismissalOf(p)
  PROVE  proposals'[p].status = proposals[p].status
<1>0. TypeOK /\ proposals[p] \in Proposal
  BY RowType DEF TypeInv
<1>1. CASE RefreshOf(p)
  <2>1. PICK e \in Evaluators, reworded \in BOOLEAN :
          /\ HasResult(eval[e])
          /\ proposals'[p] = Refreshed(proposals[p], eval[e], reworded)
    BY <1>1 DEF RefreshOf
  <2>2. eval[e] \in EvalState
    BY <1>0 DEF TypeOK
  <2> QED
    BY <1>0, <2>1, <2>2, RefreshedType
<1> QED
  BY <1>1, RowChanges

\* A decision is one of a row that a publish or a dismissal wrote.
LEMMA DecisionsGrow ==
  ASSUME TypeInv, [Next]_vars
  PROVE  /\ Decisions \subseteq Decisions'
         /\ \A p \in Decisions' \ Decisions : DecisionOf(p) \/ DismissalOf(p)
<1>1. Decisions \subseteq Decisions'
  BY RowsKept DEF Decisions, Kept
<1>2. ASSUME NEW p \in Decisions' \ Decisions
      PROVE  DecisionOf(p) \/ DismissalOf(p)
  <2>1. p \in DOMAIN proposals'
    BY <1>2 DEF Decisions
  <2>2. p \in DOMAIN proposals
    BY <1>2, <2>1, NewRows DEF Decisions
  <2> QED
    BY <1>2, <2>2, StatusKept DEF Decisions
<1> QED
  BY <1>1, <1>2

-----------------------------------------------------------------------------
(* The step of the contract that each step is.                             *)

\* The steps that leave the alerts' rows and the clock alone.
LEMMA OverKept ==
  ASSUME UNCHANGED <<alerts, clock>>
  PROVE  UNCHANGED Over
BY DEF Over, LiveAt

LEMMA NoneDecided ==
  ASSUME TypeInv, [Next]_vars,
         \A h \in Handlers : ~PublishCommit(h) /\ ~DismissCommit(h)
  PROVE  UNCHANGED Decisions
BY DecisionsGrow DEF DecisionOf, DismissalOf

LEMMA PublishIsIssue ==
  ASSUME TypeInv, AuditInv, [Next]_vars, NEW h \in Handlers, PublishCommit(h)
  PROVE  Contract!Issue
<1> DEFINE p == req[h].row
           id == Len(alerts) + 1
<1>0. TypeOK /\ alerts \in Seq(Alert) /\ CopiesStay
  BY DEF TypeInv, TypeOK, AuditInv
<1>1. /\ p \in DOMAIN proposals' /\ id \in DOMAIN alerts'
      /\ alerts'[id].proposal = p /\ proposals'[p].status # "proposed"
  BY <1>0, PublishLinks
<1>2. alerts' = Append(alerts, NewAlert(req[h])) /\ UNCHANGED <<clock, notified>>
  BY DEF PublishCommit
<1>3. Len(alerts) \in Nat /\ DOMAIN alerts = 1..Len(alerts) /\ DOMAIN alerts' = 1..id
  BY <1>0, <1>2, LenProperties
<1>4. Len(Issued) = Len(alerts) /\ Len(Issued') = id
  BY <1>3 DEF Issued
<1>5. \A a \in DOMAIN Issued : Issued'[a] = Issued[a]
  BY SaysKept DEF Issued
<1>6. Over' \in {Over, Over \cup {id}}
  <2>1. \A a \in DOMAIN alerts : alerts'[a] = alerts[a]
    BY <1>0, <1>2, <1>3
  <2>2. \A a \in DOMAIN alerts : LiveAt(a, clock)' = LiveAt(a, clock)
    BY <1>2, <2>1 DEF LiveAt
  <2> QED
    BY <1>3, <2>2 DEF Over
<1>7. Decisions' = Decisions \cup {p}
  <2>1. p \in Decisions'
    BY <1>1 DEF Decisions
  <2>2. ASSUME NEW q \in Decisions' \ Decisions
        PROVE  q = p
    <3>0. alerts' # alerts
      BY <1>3
    <3>1. \A g \in Handlers : ~DismissCommit(g)
      BY <3>0 DEF DismissCommit
    <3>2. DecisionOf(q)
      BY <3>1, <2>2, DecisionsGrow DEF DismissalOf
    <3>3. PICK g \in Handlers : PublishCommit(g) /\ q = req[g].row
      BY <3>2 DEF DecisionOf
    <3>4. alerts'[id].proposal = q
      BY <1>0, <3>3, PublishLinks
    <3> QED
      BY <1>1, <3>4
  <2> QED
    BY <2>1, <2>2, DecisionsGrow
<1>8. Issued'[id].proposal = p
  BY <1>1 DEF Issued, Says
<1> HIDE DEF p, id
<1> QED
  BY <1>2, <1>3, <1>4, <1>5, <1>6, <1>7, <1>8 DEF Contract!Issue, id

LEMMA PushIsTell ==
  ASSUME TypeInv, [Next]_vars, NEW h \in Handlers, Push(h)
  PROVE  Contract!Tell \/ UNCHANGED <<Issued, Over, notified, Decisions>>
<1>1. UNCHANGED <<Issued, Over, Decisions>>
  BY DEF Push, Issued, Says, Over, LiveAt, Decisions
<1>2. req[h].alert \in DOMAIN Issued
  BY DEF Push, TypeInv, Refs, ReqRef, Issued
<1> QED
  BY <1>1, <1>2 DEF Push, Contract!Tell

LEMMA DismissIsDecide ==
  ASSUME TypeInv, [Next]_vars, NEW h \in Handlers, DismissCommit(h)
  PROVE  Contract!Decide \/ UNCHANGED <<Issued, Over, notified, Decisions>>
<1>1. UNCHANGED <<alerts, clock, notified>>
  BY DEF DismissCommit
<1>2. UNCHANGED <<Issued, Over>>
  BY <1>1 DEF Issued, Says, Over, LiveAt
<1>3. \A p \in Decisions' \ Decisions : p = req[h].row
  <2>1. ASSUME NEW p \in DOMAIN proposals, p # req[h].row
        PROVE  proposals'[p] = proposals[p]
    BY <2>1 DEF DismissCommit
  <2> QED
    BY <2>1, DismissWrites DEF Decisions
<1>4. Decisions' = Decisions \/ (req[h].row \in Decisions' /\ Decisions' = Decisions \cup {req[h].row})
  BY <1>3, DecisionsGrow
<1> QED
  BY <1>1, <1>2, <1>4 DEF Contract!Decide

\* The threads' states, stale copies and faults never show.
LEMMA StepsOfContract ==
  ASSUME TypeInv, AuditInv, [Next]_vars
  PROVE  Contract!Next \/ UNCHANGED <<Issued, Over, notified, Decisions>>
<1>1. CASE \E h \in Handlers : PublishCommit(h)
  BY <1>1, PublishIsIssue DEF Contract!Next
<1>2. CASE \E h \in Handlers : Push(h)
  BY <1>2, PushIsTell DEF Contract!Next
<1>3. CASE \E h \in Handlers : DismissCommit(h)
  BY <1>3, DismissIsDecide DEF Contract!Next
<1>4. CASE \A h \in Handlers : ~PublishCommit(h) /\ ~Push(h) /\ ~DismissCommit(h)
  <2>1. UNCHANGED <<Issued, notified, Decisions>>
    BY <1>4, IssuedKept, NotifiedWriters, NoneDecided
  <2>2. Over \subseteq Over' /\ Over' \subseteq DOMAIN Issued
    BY <2>1, OverGrows DEF Over, Issued
  <2> QED
    BY <2>1, <2>2 DEF Contract!Next, Contract!End
<1> QED
  BY <1>1, <1>2, <1>3, <1>4

\* For every number of threads, regions, requests and faults the alert service
\* keeps its contract: alert and decision in one commit, the push after it, and
\* no alert reworded or revived, whatever copies its threads hold.
THEOREM ContractKept == Spec => ImplementsContract
<1>1. Init => Contract!Init
  BY DEF Init, Contract!Init, Issued, Over, Decisions
<1>2. TypeInv /\ AuditInv /\ [Next]_vars => [Contract!Next]_(Contract!contract)
  BY StepsOfContract DEF Contract!contract
<1>3. Spec => []TypeInv
  BY TypeCorrect, PTL DEF TypeInv
<1> QED
  BY <1>1, <1>2, <1>3, AuditInvInit, AuditInvStep, PTL
  DEF Spec, ImplementsContract, Contract!Spec
-----------------------------------------------------------------------------
(* What holds as long as one thread at a time evaluates: the scheduler     *)
(* runs job_evaluate with max_instances=1, and nobody posts to             *)
(* /admin/evaluate meanwhile.  maybe_propose then still knows, at its      *)
(* commit, what it read of the region's proposals and of the row it        *)
(* refreshes, though operators go on publishing and dismissing.            *)

OneEvaluator == \A e, f \in Evaluators : e = f

Awaits(row, r) ==
  row.region = r /\ row.engine = "rules" /\ row.status = "proposed"

\* What a scoring thread still knows.
Knows(s) ==
  /\ s.pc \in {"live", "insert"} =>
       \A p \in DOMAIN proposals : ~Awaits(proposals[p], s.region)
  /\ s.pc = "refresh" => /\ proposals[s.row].severity = s.seen
                         /\ proposals[s.row].score < s.score

ManualIsTop ==
  \A p \in DOMAIN proposals :
    proposals[p].engine = "manual" => proposals[p].score = TopScore

PassInv ==
  /\ OnePendingPerRegion
  /\ SeverityFollowsScore
  /\ ManualIsTop
  /\ \A e \in Evaluators : Knows(eval[e])

-----------------------------------------------------------------------------

LEMMA SeverityMonotone ==
  ASSUME NEW low \in Int, NEW high \in Int, low <= high
  PROVE  Rank(SeverityFor(low)) <= Rank(SeverityFor(high))
BY Constants DEF SeverityFor, Rank

\* A higher score is never milder, though both may have been rounded.
LEMMA BandsMonotone ==
  ASSUME NEW low \in Int, NEW high \in Int, low < high,
         NEW mild \in Bands(low), NEW severe \in Bands(high)
  PROVE  Rank(mild) <= Rank(severe)
<1> DEFINE r(n) == Rank(SeverityFor(n))
<1>1. /\ r(low - 1) <= r(low) /\ r(low) <= r(high - 1)
      /\ r(high - 1) <= r(high)
  BY SeverityMonotone
<1>2. /\ r(low - 1) \in 0..3 /\ r(low) \in 0..3
      /\ r(high - 1) \in 0..3 /\ r(high) \in 0..3
  BY DEF Rank
<1>3. /\ Rank(mild) \in {r(low - 1), r(low)}
      /\ Rank(severe) \in {r(high - 1), r(high)}
  BY DEF Bands
<1> HIDE DEF r
<1> QED
  BY <1>1, <1>2, <1>3

LEMMA RankType ==
  ASSUME NEW severity
  PROVE  Rank(severity) \in 0..3
BY DEF Rank

\* The refresh sets the severity that came with the score it writes, provided
\* that the copy it compares with is the row's.
LEMMA RefreshedSeverity ==
  ASSUME NEW row \in Proposal, NEW s \in EvalState, NEW reworded \in BOOLEAN,
         HasResult(s), row.severity = s.seen,
         row.message \in {row.severity, "operator"} \/ row.engine = "manual"
  PROVE  LET new == Refreshed(row, s, reworded)
         IN  /\ new.severity = s.severity
             /\ row.engine = "rules" => new.message \in {new.severity, "operator"}
<1> DEFINE severity == IF s.severity # s.seen THEN s.severity ELSE row.severity
           message == IF s.severity # s.seen \/ reworded THEN s.severity ELSE row.message
<1>1. Refreshed(row, s, reworded) =
        [row EXCEPT !.score = s.score, !.severity = severity, !.message = message]
  BY DEF Refreshed
<1>2. /\ severity = s.severity
      /\ row.engine = "rules" => message \in {s.severity, "operator"}
  OBVIOUS
<1>3. LET r == [row EXCEPT !.score = s.score, !.severity = severity, !.message = message]
      IN  r.severity = severity /\ r.message = message
  <2> HIDE DEF severity, message
  <2> QED
    BY DEF Proposal
<1> HIDE DEF severity, message
<1> QED
  BY <1>1, <1>2, <1>3

\* How a scoring thread's state may change.
LEMMA EvalChanges ==
  ASSUME TypeInv, [Next]_vars, NEW e \in Evaluators
  PROVE  \/ eval'[e] = eval[e]
         \/ eval'[e].pc \in {"idle", "scan", "pending"}
         \/ ReadPending(e) \/ ReadLive(e)
<1>0. TypeOK /\ eval \in [Evaluators -> EvalState]
  BY DEF TypeInv, TypeOK
<1>1. CASE UNCHANGED eval
  BY <1>1
<1>2. CASE Crash
  BY <1>2, IdleTypes DEF Crash
<1>3. ASSUME NEW f \in Evaluators, EvalStep(f) \/ PassFails(f), f # e
      PROVE  eval'[e] = eval[e]
  BY <1>0, <1>3
  DEF EvalStep, PassFails, StartPass, ScoreRegion, ReadPending, Refresh, ReadLive, Insert
<1>4. CASE StartPass(e) \/ ScoreRegion(e) \/ Refresh(e) \/ Insert(e) \/ PassFails(e)
  <2>1. CASE StartPass(e)
    BY <1>0, <2>1, ScanType DEF StartPass
  <2>2. CASE ScoreRegion(e)
    <3>1. PICK r \in eval[e].todo :
            LET rest == [eval[e] EXCEPT !.todo = @ \ {r}]
            IN  eval' = [eval EXCEPT ![e] =
                  IF level[r].severity = "none" THEN LoopOn(rest)
                  ELSE [rest EXCEPT !.pc = "pending", !.region = r,
                                    !.score = level[r].score,
                                    !.severity = level[r].severity, !.at = clock]]
      BY <2>2 DEF ScoreRegion
    <3> DEFINE rest == [eval[e] EXCEPT !.todo = @ \ {r}]
    <3>2. rest \in EvalState
      BY <1>0 DEF EvalState
    <3>3. [rest EXCEPT !.pc = "pending", !.region = r,
                       !.score = level[r].score,
                       !.severity = level[r].severity, !.at = clock].pc = "pending"
      BY <3>2 DEF EvalState
    <3>4. LoopOn(rest).pc \in {"idle", "scan"}
      BY <3>2, LoopOnType
    <3> HIDE DEF rest
    <3> QED
      BY <1>0, <3>1, <3>3, <3>4 DEF rest
  <2>3. CASE Refresh(e) \/ Insert(e)
    BY <1>0, <2>3, LoopOnType DEF Refresh, Insert
  <2>4. CASE PassFails(e)
    BY <1>0, <2>4, IdleTypes DEF PassFails
  <2> QED
    BY <1>4, <2>1, <2>2, <2>3, <2>4
<1>5. \/ UNCHANGED eval \/ Crash
      \/ \E f \in Evaluators : EvalStep(f) \/ PassFails(f)
  BY DEF Next, vars, NewRequest, RequestStep, ApproveRead, ManualInsert,
         DismissRead, Retract, ManualReload, PublishCommit, Push, Stamp,
         DismissCommit, RequestFails, Weather, Tick
<1> QED
  BY <1>1, <1>2, <1>3, <1>4, <1>5 DEF EvalStep

\* A thread that commits a refresh or a proposal goes on.
LEMMA Committed ==
  ASSUME TypeInv, NEW e \in Evaluators, Refresh(e) \/ Insert(e)
  PROVE  eval'[e] # eval[e] /\ eval'[e].pc \in {"idle", "scan"}
<1>0. eval \in [Evaluators -> EvalState]
  BY DEF TypeInv, TypeOK
<1>1. eval' = [eval EXCEPT ![e] = LoopOn(eval[e])] /\ eval[e].pc \in {"refresh", "insert"}
  BY DEF Refresh, Insert
<1> QED
  BY <1>0, <1>1, LoopOnType

\* What a step makes of a row, given what the threads know.
Escalated(old, new) ==
  /\ new.score \in Int /\ old.score <= new.score
  /\ Rank(old.severity) <= Rank(new.severity)
  /\ new.engine = "manual" => new.score = TopScore
  /\ new.engine = "rules" => /\ new.severity \in Bands(new.score)
                             /\ new.message \in {new.severity, "operator"}

LEMMA RowsEscalate ==
  ASSUME TypeInv, PassInv, [Next]_vars, NEW p \in DOMAIN proposals
  PROVE  /\ Escalated(proposals[p], proposals'[p])
         /\ \/ \E e \in Evaluators : Refresh(e)
            \/ /\ proposals'[p].score = proposals[p].score
               /\ proposals'[p].severity = proposals[p].severity
<1>0. TypeOK /\ proposals[p] \in Proposal /\ proposals[p].score \in 0..TopScore
  BY RowType DEF TypeInv, Proposal
<1>1. Escalated(proposals[p], proposals[p])
  BY <1>0, RankType, Constants DEF Escalated, PassInv, ManualIsTop, SeverityFollowsScore
<1>2. ASSUME proposals'[p].engine = proposals[p].engine,
             proposals'[p].score = proposals[p].score,
             proposals'[p].severity = proposals[p].severity,
             proposals'[p].message \in {proposals[p].message, "operator"}
      PROVE  Escalated(proposals[p], proposals'[p])
  BY <1>1, <1>2 DEF Escalated
<1>3. CASE proposals'[p] = proposals[p]
  BY <1>1, <1>3
<1>4. CASE DecisionOf(p)
  <2>1. PICK h \in Handlers :
          proposals'[p] = Decided(proposals[p], req[h], Len(alerts) + 1)
    BY <1>4 DEF DecisionOf
  <2>2. req[h] \in ReqState /\ Len(alerts) + 1 \in Nat \ {0}
    BY <1>0, LenProperties DEF TypeOK
  <2> QED
    BY <1>0, <1>2, <2>1, <2>2, DecidedKeeps DEF Kept
<1>5. CASE DismissalOf(p)
  <2>1. PICK h \in Handlers : proposals'[p] = DismissedRow(proposals[p], req[h])
    BY <1>5 DEF DismissalOf
  <2>2. req[h] \in ReqState
    BY <1>0 DEF TypeOK
  <2> QED
    BY <1>0, <1>2, <2>1, <2>2, DismissalKeeps DEF Kept
<1>6. CASE RefreshOf(p)
  <2>1. PICK e \in Evaluators, reworded \in BOOLEAN :
          /\ Refresh(e) /\ p = eval[e].row
          /\ HasResult(eval[e])
          /\ proposals'[p] = Refreshed(proposals[p], eval[e], reworded)
    BY <1>6 DEF RefreshOf
  <2> DEFINE s == eval[e]
  <2>2. s \in EvalState /\ s.score \in 0..TopScore
    BY <1>0 DEF TypeOK, EvalState
  <2>3. proposals[p].severity = s.seen /\ proposals[p].score < s.score
    BY <2>1 DEF PassInv, Knows, Refresh
  <2>4. proposals[p].engine # "manual"
    BY <1>0, <2>2, <2>3, Constants DEF PassInv, ManualIsTop
  <2>5. /\ proposals[p].engine = "rules"
        /\ proposals[p].severity \in Bands(proposals[p].score)
        /\ proposals[p].message \in {proposals[p].severity, "operator"}
    BY <1>0, <2>4 DEF Proposal, PassInv, SeverityFollowsScore
  <2>6. /\ proposals'[p].engine = "rules" /\ proposals'[p].score = s.score
        /\ proposals'[p].severity = s.severity /\ s.severity \in Bands(s.score)
        /\ proposals'[p].message \in {proposals'[p].severity, "operator"}
    <3>1. PICK row \in Proposal, t \in EvalState : row = proposals[p] /\ t = s
      BY <1>0, <2>2
    <3> DEFINE new == Refreshed(row, t, reworded)
    <3>2. HasResult(t) /\ row.severity = t.seen
          /\ row.message \in {row.severity, "operator"} /\ row.engine = "rules"
      BY <2>1, <2>3, <2>5, <3>1
    <3>3. new.engine = "rules" /\ new.score = t.score
      BY <3>2, RefreshedType
    <3>4. new.severity = t.severity /\ t.severity \in Bands(t.score) /\ new.message \in {new.severity, "operator"}
      BY <3>2, RefreshedSeverity DEF HasResult
    <3>5. proposals'[p] = new
      BY <2>1, <3>1
    <3> HIDE DEF new
    <3> QED
      BY <3>1, <3>3, <3>4, <3>5
  <2>7. Rank(proposals[p].severity) <= Rank(proposals'[p].severity)
    BY <1>0, <2>2, <2>3, <2>5, <2>6, BandsMonotone
  <2> QED
    BY <1>0, <2>1, <2>2, <2>3, <2>6, <2>7 DEF Escalated
<1> QED
  BY <1>3, <1>4, <1>5, <1>6, RowChanges

\* A row is added by a scoring thread or for an alert issued unasked.
LEMMA InsertedRows ==
  ASSUME TypeInv, [Next]_vars, NEW p \in DOMAIN proposals', p \notin DOMAIN proposals
  PROVE  /\ p = Len(proposals) + 1
         /\ \/ /\ proposals'[p].engine = "manual"
               /\ \E h \in Handlers : ManualInsert(h)
            \/ \E e \in Evaluators : /\ eval[e].pc = "insert" /\ Insert(e)
                                     /\ proposals'[p] = NewProposal(eval[e])
<1>0. TypeOK
  BY DEF TypeInv
<1>1. p = Len(proposals) + 1
  BY NewRows
<1>2. CASE \E e \in Evaluators : Insert(e)
  <2>1. PICK e \in Evaluators : Insert(e)
    BY <1>2
  <2>2. proposals' = Append(proposals, NewProposal(eval[e])) /\ eval[e].pc = "insert"
    BY <2>1 DEF Insert
  <2>3. proposals'[p] = NewProposal(eval[e])
    BY <1>0, <1>1, <2>2, LenProperties DEF TypeOK
  <2> QED
    BY <1>1, <2>1, <2>2, <2>3
<1>3. CASE \E h \in Handlers : ManualInsert(h)
  <2>1. PICK row : proposals' = Append(proposals, row) /\ row.engine = "manual"
    BY <1>3 DEF ManualInsert
  <2>2. proposals'[p] = row
    BY <1>0, <1>1, <2>1, LenProperties DEF TypeOK
  <2> QED
    BY <1>1, <1>3, <2>1, <2>2
<1>4. CASE \E e \in Evaluators : Refresh(e)
  BY <1>4, RefreshWrites
<1>5. CASE \E h \in Handlers : PublishCommit(h) \/ DismissCommit(h)
  BY <1>5, PublishWrites, DismissWrites
<1> QED
  BY <1>2, <1>3, <1>4, <1>5, ProposalWriters

\* A row that awaits a decision did so before, or has just been inserted for a
\* thread that knew of no other.
LEMMA AwaitingRows ==
  ASSUME TypeInv, [Next]_vars, NEW p \in DOMAIN proposals', NEW r,
         Awaits(proposals'[p], r)
  PROVE  \/ p \in DOMAIN proposals /\ Awaits(proposals[p], r)
         \/ /\ p = Len(proposals) + 1
            /\ \E e \in Evaluators :
                 eval[e].pc = "insert" /\ eval[e].region = r /\ Insert(e)
<1>0. TypeOK
  BY DEF TypeInv
<1>1. CASE p \in DOMAIN proposals
  <2>1. proposals[p].status \in Statuses /\ proposals[p].engine \in {"rules", "manual"}
    BY <1>0, <1>1, RowType DEF Proposal
  <2> QED
    BY <1>1, <2>1, RowsKept DEF Awaits, Kept
<1>2. CASE p \notin DOMAIN proposals
  BY <1>2, InsertedRows DEF NewProposal, Awaits
<1> QED
  BY <1>1, <1>2

LEMMA PassInvInit == Init => PassInv
BY IdleTypes
DEF Init, PassInv, OnePendingPerRegion, SeverityFollowsScore, ManualIsTop, Knows

\* What a thread reads it knows, and what it knows stays true: no other thread
\* inserts or refreshes, and handlers start no row of the engine's.
LEMMA KnowsStep ==
  ASSUME OneEvaluator, TypeInv, PassInv, [Next]_vars, NEW e \in Evaluators
  PROVE  Knows(eval[e])'
<1>0. TypeOK /\ eval[e] \in EvalState /\ eval \in [Evaluators -> EvalState]
  BY DEF TypeInv, TypeOK
<1>1. CASE eval'[e] = eval[e]
  <2>1. ~ \E f \in Evaluators : Refresh(f) \/ Insert(f)
    BY <1>1, Committed DEF OneEvaluator
  <2>2. ASSUME eval'[e].pc \in {"live", "insert"}, NEW p \in DOMAIN proposals'
        PROVE  ~Awaits(proposals'[p], eval'[e].region)
    BY <1>1, <2>1, <2>2, AwaitingRows DEF PassInv, Knows
  <2>3. ASSUME eval'[e].pc = "refresh"
        PROVE  /\ proposals'[eval'[e].row].severity = eval'[e].seen
               /\ proposals'[eval'[e].row].score < eval'[e].score
    <3>1. eval[e].row \in DOMAIN proposals
      BY <1>1, <2>3 DEF TypeInv, Refs, EvalRef
    <3>2. /\ proposals'[eval[e].row].severity = proposals[eval[e].row].severity
          /\ proposals'[eval[e].row].score = proposals[eval[e].row].score
      BY <2>1, <3>1, RowsEscalate
    <3>3. /\ proposals[eval[e].row].severity = eval[e].seen
          /\ proposals[eval[e].row].score < eval[e].score
      BY <1>1, <2>3 DEF PassInv, Knows
    <3> QED
      BY <1>1, <3>2, <3>3
  <2> QED
    BY <2>2, <2>3 DEF Knows
<1>2. CASE eval'[e].pc \in {"idle", "scan", "pending"}
  BY <1>2 DEF Knows
<1>3. CASE ReadPending(e)
  <2> DEFINE s == eval[e]
  <2>1. CASE eval' = [eval EXCEPT ![e] = LoopOn(s)]
    BY <1>0, <2>1, LoopOnType DEF Knows
  <2>2. ASSUME NEW p \in PendingIn(s.region), s.score > proposals[p].score,
               eval' = [eval EXCEPT ![e] = [s EXCEPT !.pc = "refresh", !.row = p,
                                                     !.seen = proposals[p].severity]]
        PROVE  Knows(eval[e])'
    <3>1. /\ eval'[e].pc = "refresh" /\ eval'[e].row = p
          /\ eval'[e].seen = proposals[p].severity /\ eval'[e].score = s.score
      BY <1>0, <2>2 DEF EvalState
    <3>2. proposals[p].score \in Int /\ s.score \in Int
      BY <1>0, RowType DEF PendingIn, Proposal, EvalState
    <3> QED
      BY <1>3, <2>2, <3>1, <3>2 DEF Knows, ReadPending
  <2>3. ASSUME PendingIn(s.region) = {}, eval' = [eval EXCEPT ![e].pc = "live"]
        PROVE  Knows(eval[e])'
    <3>1. eval'[e].pc = "live" /\ eval'[e].region = s.region /\ UNCHANGED proposals
      BY <1>0, <1>3, <2>3 DEF EvalState, ReadPending
    <3> QED
      BY <2>3, <3>1 DEF Knows, Awaits, PendingIn
  <2> QED
    BY <1>3, <2>1, <2>2, <2>3 DEF ReadPending
<1>4. CASE ReadLive(e)
  <2> DEFINE s == eval[e]
  <2>1. CASE eval' = [eval EXCEPT ![e] = LoopOn(s)]
    BY <1>0, <2>1, LoopOnType DEF Knows
  <2>2. CASE eval' = [eval EXCEPT ![e] = [s EXCEPT !.pc = "insert"]]
    <3>1. eval'[e].pc = "insert" /\ eval'[e].region = s.region /\ UNCHANGED proposals
      BY <1>0, <1>4, <2>2 DEF EvalState, ReadLive
    <3> QED
      BY <1>4, <3>1 DEF Knows, PassInv, ReadLive
  <2> QED
    BY <1>4, <2>1, <2>2 DEF ReadLive
<1> QED
  BY <1>1, <1>2, <1>3, <1>4, EvalChanges

LEMMA PassInvStep ==
  ASSUME OneEvaluator
  PROVE  TypeInv /\ PassInv /\ [Next]_vars => PassInv'
<1> SUFFICES ASSUME TypeInv, PassInv, [Next]_vars PROVE PassInv'
  OBVIOUS
<1>0. TypeOK
  BY DEF TypeInv
<1>1. OnePendingPerRegion'
  <2> SUFFICES ASSUME NEW p \in DOMAIN proposals', NEW q \in DOMAIN proposals', NEW r,
                      Awaits(proposals'[p], r), Awaits(proposals'[q], r)
               PROVE  p = q
    BY DEF OnePendingPerRegion, Awaits
  <2>1. ASSUME NEW e \in Evaluators, eval[e].pc = "insert", eval[e].region = r,
               NEW n \in DOMAIN proposals, Awaits(proposals[n], r)
        PROVE  FALSE
    BY <2>1 DEF PassInv, Knows
  <2>2. CASE p \in DOMAIN proposals /\ Awaits(proposals[p], r)
    <3>1. q \in DOMAIN proposals /\ Awaits(proposals[q], r)
      BY <2>1, <2>2, AwaitingRows
    <3> QED
      BY <2>2, <3>1 DEF PassInv, OnePendingPerRegion, Awaits
  <2>3. CASE /\ p = Len(proposals) + 1
             /\ \E e \in Evaluators : eval[e].pc = "insert" /\ eval[e].region = r
    <3>1. q = Len(proposals) + 1
      BY <2>1, <2>3, AwaitingRows
    <3> QED
      BY <2>3, <3>1
  <2> QED
    BY <2>2, <2>3, AwaitingRows
<1>2. ASSUME NEW p \in DOMAIN proposals', p \notin DOMAIN proposals
      PROVE  /\ proposals'[p].engine = "manual" => proposals'[p].score = TopScore
             /\ proposals'[p].engine = "rules" =>
                  /\ proposals'[p].severity \in Bands(proposals'[p].score)
                  /\ proposals'[p].message = proposals'[p].severity
  BY <1>2, NewRows DEF NewProposal, TypeInv, Refs, EvalRef, HasResult
<1>3. ManualIsTop'
  BY <1>2, RowsEscalate DEF ManualIsTop, Escalated
<1>4. SeverityFollowsScore'
  BY <1>2, RowsEscalate DEF SeverityFollowsScore, Escalated
<1>5. \A e \in Evaluators : Knows(eval[e])'
  BY KnowsStep
<1> QED
  BY <1>1, <1>3, <1>4, <1>5 DEF PassInv

-----------------------------------------------------------------------------

LEMMA PassInvariant ==
  ASSUME OneEvaluator
  PROVE  Spec => []PassInv
<1>1. Spec => []TypeInv
  BY TypeCorrect, PTL DEF TypeInv
<1>2. TypeInv /\ PassInv /\ [Next]_vars => PassInv'
  BY PassInvStep
<1> QED
  BY <1>1, <1>2, PassInvInit, PTL DEF Spec

\* A region never has two proposals of the engine's waiting, as long as one
\* thread evaluates: maybe_propose's two reads and its insert need no lock then.
THEOREM OnePendingIfOneEvaluator ==
  ASSUME OneEvaluator
  PROVE  Spec => []OnePendingPerRegion
BY PassInvariant, PTL DEF PassInv

\* What the operator is shown belongs together: severity, score and advice of
\* an engine's row, through any number of refreshes and edits.
THEOREM SeverityIsTheScores ==
  ASSUME OneEvaluator
  PROVE  Spec => []SeverityFollowsScore
BY PassInvariant, PTL DEF PassInv

\* A waiting proposal only gets worse, and no decision is taken back.
THEOREM ProposalsEscalate ==
  ASSUME OneEvaluator
  PROVE  Spec => ProposalsOnlyEscalate
<1>1. TypeInv /\ PassInv /\ [Next]_vars => EscalationStep
  BY RowsEscalate, RowsKept DEF EscalationStep, Escalated, Kept
<1>2. Spec => []TypeInv
  BY TypeCorrect, PTL DEF TypeInv
<1> QED
  BY <1>1, <1>2, PassInvariant, PTL DEF Spec, ProposalsOnlyEscalate

\* The copy a handler is about to publish is no more severe than the row.
CopiesBelow ==
  \A h \in Handlers :
    req[h].pc = "publish" =>
      Rank(req[h].severity) <= Rank(proposals[req[h].row].severity)

AlertsBelow ==
  \A a \in DOMAIN alerts :
    Rank(alerts[a].severity) <= Rank(proposals[alerts[a].proposal].severity)

LEMMA AlertsBelowStep ==
  TypeInv /\ PassInv /\ AuditInv /\ CopiesBelow /\ AlertsBelow /\ [Next]_vars
    => CopiesBelow' /\ AlertsBelow'
<1> SUFFICES ASSUME TypeInv, PassInv, AuditInv, CopiesBelow, AlertsBelow,
                    [Next]_vars
             PROVE  CopiesBelow' /\ AlertsBelow'
  OBVIOUS
<1>1. ASSUME NEW p \in DOMAIN proposals
      PROVE  Rank(proposals[p].severity) <= Rank(proposals'[p].severity)
  BY <1>1, RowsEscalate DEF Escalated
<1>2. CopiesBelow'
  <2> SUFFICES ASSUME NEW h \in Handlers, req'[h].pc = "publish"
               PROVE  Rank(req'[h].severity) <= Rank(proposals'[req'[h].row].severity)
    BY DEF CopiesBelow
  <2>1. CASE req'[h] = req[h]
    <3>1. req[h].row \in DOMAIN proposals
      BY <2>1 DEF TypeInv, Refs, ReqRef
    <3> QED
      BY <1>1, <2>1, <3>1, RankType DEF CopiesBelow
  <2>2. CASE req'[h] # req[h]
    BY <2>2, Copies, RankType
  <2> QED
    BY <2>1, <2>2
<1>3. AlertsBelow'
  <2> SUFFICES ASSUME NEW a \in DOMAIN alerts'
               PROVE  Rank(alerts'[a].severity) <= Rank(proposals'[alerts'[a].proposal].severity)
    BY DEF AlertsBelow
  <2>1. CASE a \in DOMAIN alerts
    <3>1. /\ alerts[a].proposal \in DOMAIN proposals
          /\ Rank(alerts[a].severity) <= Rank(proposals[alerts[a].proposal].severity)
      BY <2>1 DEF AuditInv, AlertsHaveDecisions, AlertsBelow
    <3>2. alerts'[a].severity = alerts[a].severity /\ alerts'[a].proposal = alerts[a].proposal
      BY <2>1, AlertFieldsKept
    <3> QED
      BY <1>1, <3>1, <3>2, RankType
  <2>2. CASE a \notin DOMAIN alerts
    <3>1. PICK h \in Handlers : PublishCommit(h) /\ alerts'[a] = NewAlert(req[h])
      BY <2>2, NewAlerts
    <3>2. alerts'[a].severity = req[h].severity /\ alerts'[a].proposal = req[h].row
      BY <3>1 DEF NewAlert
    <3>3. /\ req[h].row \in DOMAIN proposals
          /\ Rank(req[h].severity) <= Rank(proposals[req[h].row].severity)
      BY <3>1 DEF PublishCommit, TypeInv, Refs, ReqRef, CopiesBelow
    <3> QED
      BY <1>1, <3>2, <3>3, RankType
  <2> QED
    BY <2>1, <2>2
<1> QED
  BY <1>2, <1>3

\* No step gives a row another title, and a row issued unasked keeps the
\* operator's message: its score is the top one, so no pass refreshes it.
LEMMA WordingKept ==
  ASSUME TypeInv, PassInv, [Next]_vars, NEW p \in DOMAIN proposals
  PROVE  /\ proposals'[p].title = proposals[p].title
         /\ proposals[p].engine = "manual" =>
              proposals'[p].message \in {proposals[p].message, "operator"}
<1>0. TypeOK /\ proposals[p] \in Proposal
  BY RowType DEF TypeInv
<1>1. CASE proposals'[p] = proposals[p]
  BY <1>1
<1>2. CASE RefreshOf(p)
  <2>1. PICK e \in Evaluators, reworded \in BOOLEAN :
          /\ Refresh(e) /\ p = eval[e].row
          /\ HasResult(eval[e])
          /\ proposals'[p] = Refreshed(proposals[p], eval[e], reworded)
    BY <1>2 DEF RefreshOf
  <2>2. eval[e] \in EvalState /\ eval[e].score \in 0..TopScore
    BY <1>0 DEF TypeOK, EvalState
  <2>3. proposals[p].score < eval[e].score
    BY <2>1 DEF PassInv, Knows, Refresh
  <2>4. proposals[p].engine # "manual"
    BY <2>2, <2>3, Constants DEF PassInv, ManualIsTop
  <2> QED
    BY <1>0, <2>1, <2>2, <2>4, RefreshedType
<1>3. CASE DecisionOf(p)
  <2>1. PICK h \in Handlers :
          proposals'[p] = Decided(proposals[p], req[h], Len(alerts) + 1)
    BY <1>3 DEF DecisionOf
  <2>2. req[h] \in ReqState /\ Len(alerts) + 1 \in Nat \ {0}
    BY <1>0, LenProperties DEF TypeOK
  <2> QED
    BY <1>0, <2>1, <2>2, DecidedKeeps
<1>4. CASE DismissalOf(p)
  <2>1. PICK h \in Handlers : proposals'[p] = DismissedRow(proposals[p], req[h])
    BY <1>4 DEF DismissalOf
  <2>2. req[h] \in ReqState
    BY <1>0 DEF TypeOK
  <2> QED
    BY <1>0, <2>1, <2>2, DismissalKeeps
<1> QED
  BY <1>1, <1>2, <1>3, <1>4, RowChanges

\* The wording of a row, or of a handler's copy of one, fits its severity.
Fits(x) ==
  /\ x.message \in {x.severity, "operator"}
  /\ Rank(x.title) <= Rank(x.severity)

\* Titles do not outrank their rows, and what operators issue unasked is in
\* their words; that an engine's row has the advice for its severity is
\* SeverityFollowsScore.
RowsWorded ==
  \A p \in DOMAIN proposals :
    /\ Rank(proposals[p].title) <= Rank(proposals[p].severity)
    /\ proposals[p].engine = "manual" => proposals[p].message = "operator"

CopiesFit == \A h \in Handlers : req[h].pc = "publish" => Fits(req[h])
AlertsFit == \A a \in DOMAIN alerts : Fits(alerts[a])

LEMMA RowsFit ==
  ASSUME TypeInv, PassInv, RowsWorded, NEW p \in DOMAIN proposals
  PROVE  Fits(proposals[p])
<1>1. proposals[p].engine \in {"rules", "manual"}
  BY RowType DEF TypeInv, Proposal
<1> QED
  BY <1>1 DEF Fits, RowsWorded, PassInv, SeverityFollowsScore

\* A row's severity only rises while its title stays; a handler's copy takes
\* all its words from the row at one moment, and the alert takes them from it.
LEMMA WordingStep ==
  TypeInv /\ PassInv /\ RowsWorded /\ CopiesFit /\ AlertsFit /\ [Next]_vars
    => RowsWorded' /\ CopiesFit' /\ AlertsFit'
<1> SUFFICES ASSUME TypeInv, PassInv, RowsWorded, CopiesFit, AlertsFit, [Next]_vars
             PROVE  RowsWorded' /\ CopiesFit' /\ AlertsFit'
  OBVIOUS
<1>1. RowsWorded'
  <2> SUFFICES ASSUME NEW p \in DOMAIN proposals'
               PROVE  /\ Rank(proposals'[p].title) <= Rank(proposals'[p].severity)
                      /\ proposals'[p].engine = "manual" =>
                           proposals'[p].message = "operator"
    BY DEF RowsWorded
  <2>1. CASE p \in DOMAIN proposals
    <3>1. /\ Rank(proposals[p].title) <= Rank(proposals[p].severity)
          /\ proposals[p].engine = "manual" => proposals[p].message = "operator"
      BY <2>1 DEF RowsWorded
    <3>2. Rank(proposals[p].severity) <= Rank(proposals'[p].severity)
      BY <2>1, RowsEscalate DEF Escalated
    <3>3. proposals'[p].engine = proposals[p].engine
      BY <2>1, RowsKept DEF Kept
    <3> QED
      BY <2>1, <3>1, <3>2, <3>3, WordingKept, RankType
  <2>2. CASE p \notin DOMAIN proposals
    <3>1. CASE /\ proposals'[p].engine = "manual"
               /\ proposals'[p].title = "operator" /\ proposals'[p].message = "operator"
      <4>1. Rank("operator") = 0
        BY DEF Rank
      <4> QED
        BY <3>1, <4>1, RankType
    <3>2. CASE \E e \in Evaluators : proposals'[p] = NewProposal(eval[e])
      BY <3>2, RankType DEF NewProposal
    <3> QED
      BY <2>2, <3>1, <3>2, NewRows
  <2> QED
    BY <2>1, <2>2
<1>2. CopiesFit'
  <2> SUFFICES ASSUME NEW h \in Handlers, req'[h].pc = "publish"
               PROVE  Fits(req'[h])
    BY DEF CopiesFit
  <2>1. CASE req'[h] = req[h]
    BY <2>1 DEF CopiesFit
  <2>2. CASE req'[h] # req[h]
    <3>1. PICK p \in DOMAIN proposals :
            /\ req'[h].severity = proposals[p].severity
            /\ req'[h].title = proposals[p].title
            /\ req'[h].message \in {proposals[p].message, "operator"}
      BY <2>2, Copies
    <3> QED
      BY <3>1, RowsFit DEF Fits
  <2> QED
    BY <2>1, <2>2
<1>3. AlertsFit'
  <2> SUFFICES ASSUME NEW a \in DOMAIN alerts' PROVE Fits(alerts'[a])
    BY DEF AlertsFit, Fits
  <2>1. CASE a \in DOMAIN alerts
    BY <2>1, AlertFieldsKept DEF AlertsFit, Fits
  <2>2. CASE a \notin DOMAIN alerts
    <3>1. PICK h \in Handlers : PublishCommit(h) /\ alerts'[a] = NewAlert(req[h])
      BY <2>2, NewAlerts
    <3>2. /\ alerts'[a].severity = req[h].severity /\ alerts'[a].title = req[h].title
          /\ alerts'[a].message = req[h].message
      BY <3>1 DEF NewAlert
    <3>3. Fits(req[h])
      BY <3>1 DEF PublishCommit, CopiesFit
    <3> QED
      BY <3>2, <3>3 DEF Fits
  <2> QED
    BY <2>1, <2>2
<1> QED
  BY <1>1, <1>2, <1>3

\* A publish from a stale copy understates the danger at worst; the advice of an
\* alert is that of its severity and its title never exaggerates it, though the
\* refresh leaves the title behind.
THEOREM AlertsNeverExaggerate ==
  ASSUME OneEvaluator
  PROVE  Spec => []AlertNeverExaggerates
<1>1. Spec => []TypeInv
  BY TypeCorrect, PTL DEF TypeInv
<1>2. Spec => []AuditInv
  BY <1>1, AuditInvInit, AuditInvStep, PTL DEF Spec
<1>3. Spec => [](CopiesBelow /\ AlertsBelow)
  <2>1. Init => CopiesBelow /\ AlertsBelow
    BY IdleTypes DEF Init, CopiesBelow, AlertsBelow
  <2> QED
    BY <1>1, <1>2, <2>1, PassInvariant, AlertsBelowStep, PTL DEF Spec
<1>4. Spec => [](RowsWorded /\ CopiesFit /\ AlertsFit)
  <2>1. Init => RowsWorded /\ CopiesFit /\ AlertsFit
    BY IdleTypes DEF Init, RowsWorded, CopiesFit, AlertsFit
  <2> QED
    BY <1>1, <2>1, PassInvariant, WordingStep, PTL DEF Spec
<1>5. AlertsBelow /\ AlertsFit => AlertNeverExaggerates
  BY DEF AlertsBelow, AlertsFit, Fits, AlertNeverExaggerates
<1> QED
  BY <1>3, <1>4, <1>5, PTL
-----------------------------------------------------------------------------
(* One request at a time: nobody else decides the proposal that a request  *)
(* is about to publish.                                                    *)

OneHandler == \A g, h \in Handlers : g = h

WaitsForPublish ==
  \A h \in Handlers :
    req[h].pc \in {"reload", "publish"} => proposals[req[h].row].status = "proposed"

\* How a request gets to publish, or stays there.
LEMMA RequestChanges ==
  ASSUME OneHandler, TypeInv, [Next]_vars, NEW h \in Handlers,
         req'[h].pc \in {"reload", "publish"}
  PROVE  \/ req'[h] = req[h] /\ ~ \E g \in Handlers : PublishCommit(g) \/ DismissCommit(g)
         \/ /\ UNCHANGED proposals
            /\ \/ proposals[req'[h].row].status = "proposed"
               \/ req[h].pc = "reload" /\ req'[h].row = req[h].row
         \/ ManualInsert(h) /\ req'[h].row = Len(proposals) + 1
<1>0. req \in [Handlers -> ReqState] /\ Len(proposals) + 1 \in Nat
  BY LenProperties DEF TypeInv, TypeOK
<1>1. CASE ~ \E g \in Handlers : NewRequest(g) \/ RequestStep(g) \/ RequestFails(g)
  <2>1. UNCHANGED req \/ Crash
    BY <1>1 DEF Next, vars, EvalStep, StartPass, ScoreRegion, ReadPending, Refresh, ReadLive,
                Insert, PassFails, Weather, Tick
  <2>2. ~Crash
    BY IdleTypes DEF Crash
  <2> QED
    BY <1>1, <2>1, <2>2 DEF RequestStep
<1>2. CASE \E g \in Handlers : NewRequest(g) \/ RequestStep(g) \/ RequestFails(g)
  <2>1. NewRequest(h) \/ RequestStep(h) \/ RequestFails(h)
    BY <1>2 DEF OneHandler
  <2>2. CASE ApproveRead(h)
    <3>1. PICK p \in DOMAIN proposals, ttl \in Ttls, edit \in BOOLEAN :
            /\ proposals[p].status = "proposed"
            /\ req' = [req EXCEPT ![h] =
                 Loaded(p, IF edit THEN "operator" ELSE proposals[p].message, ttl)]
      BY <2>2 DEF ApproveRead
    <3>2. req'[h].row = p
      BY <1>0, <3>1 DEF Loaded
    <3> QED
      BY <2>2, <3>1, <3>2 DEF ApproveRead
  <2>3. CASE ManualInsert(h)
    <3>1. PICK ttl \in Ttls \cup {1} :
            req' = [req EXCEPT ![h] =
              [ReqIdle EXCEPT !.pc = "reload", !.row = Len(proposals) + 1, !.ttl = ttl]]
      BY <2>3 DEF ManualInsert
    <3>2. ttl \in Int
      BY Constants
    <3>3. req'[h].row = Len(proposals) + 1
      BY <1>0, <3>1, <3>2, ReloadType
    <3> QED
      BY <2>3, <3>3
  <2>4. CASE ManualReload(h)
    BY <1>0, <2>4 DEF ManualReload, Loaded
  <2>5. CASE Retract(h)
    <3>1. req[h].pc = "idle" /\ req' = req
      BY <2>5 DEF Retract
    <3> QED
      BY <3>1
  <2>6. CASE DismissRead(h) \/ PublishCommit(h) \/ Push(h) \/ Stamp(h) \/ DismissCommit(h)
             \/ RequestFails(h)
    <3>1. req'[h].pc \notin {"reload", "publish"}
      BY <1>0, <2>6, IdleTypes
      DEF DismissRead, PublishCommit, Push, Stamp, DismissCommit, RequestFails, ReqState
    <3> QED
      BY <3>1
  <2> QED
    BY <2>1, <2>2, <2>3, <2>4, <2>5, <2>6 DEF NewRequest, RequestStep
<1> QED
  BY <1>1, <1>2

LEMMA WaitsStep ==
  ASSUME OneHandler, TypeInv, WaitsForPublish, [Next]_vars
  PROVE  WaitsForPublish'
<1> SUFFICES ASSUME NEW h \in Handlers, req'[h].pc \in {"reload", "publish"}
             PROVE  proposals'[req'[h].row].status = "proposed"
  BY DEF WaitsForPublish
<1>0. TypeOK
  BY DEF TypeInv
<1>1. CASE req'[h] = req[h] /\ ~ \E g \in Handlers : PublishCommit(g) \/ DismissCommit(g)
  <2> DEFINE p == req[h].row
  <2>1. p \in DOMAIN proposals /\ proposals[p].status = "proposed"
    BY <1>1 DEF TypeInv, Refs, ReqRef, WaitsForPublish
  <2>2. CASE RefreshOf(p)
    <3>1. PICK e \in Evaluators, reworded \in BOOLEAN :
            /\ HasResult(eval[e])
            /\ proposals'[p] = Refreshed(proposals[p], eval[e], reworded)
      BY <2>2 DEF RefreshOf
    <3>2. eval[e] \in EvalState /\ proposals[p] \in Proposal
      BY <1>0, <2>1, RowType DEF TypeOK
    <3> QED
      BY <1>1, <2>1, <3>1, <3>2, RefreshedType
  <2>3. ~DecisionOf(p) /\ ~DismissalOf(p)
    BY <1>1 DEF DecisionOf, DismissalOf
  <2> QED
    BY <1>1, <2>1, <2>2, <2>3, RowChanges
<1>2. CASE /\ UNCHANGED proposals
           /\ \/ proposals[req'[h].row].status = "proposed"
              \/ req[h].pc = "reload" /\ req'[h].row = req[h].row
  BY <1>2 DEF WaitsForPublish
<1>3. CASE ManualInsert(h) /\ req'[h].row = Len(proposals) + 1
  BY <1>0, <1>3, LenProperties DEF ManualInsert, TypeOK
<1> QED
  BY <1>1, <1>2, <1>3, RequestChanges

LEMMA OneAlertStep ==
  ASSUME TypeInv, AuditInv, WaitsForPublish, OneAlertPerProposal, [Next]_vars
  PROVE  OneAlertPerProposal'
<1>1. ASSUME NEW a \in DOMAIN alerts', NEW b \in DOMAIN alerts, a \notin DOMAIN alerts
      PROVE  alerts'[a].proposal # alerts'[b].proposal
  <2>1. PICK h \in Handlers : PublishCommit(h) /\ alerts'[a] = NewAlert(req[h])
    BY <1>1, NewAlerts
  <2>2. proposals[alerts'[a].proposal].status = "proposed"
    BY <2>1 DEF NewAlert, PublishCommit, WaitsForPublish
  <2>3. proposals[alerts'[b].proposal].status # "proposed"
    BY <1>1, AlertFieldsKept DEF AuditInv, AlertsHaveDecisions
  <2> QED
    BY <2>2, <2>3
<1>2. ASSUME NEW a \in DOMAIN alerts' \ DOMAIN alerts, NEW b \in DOMAIN alerts' \ DOMAIN alerts
      PROVE  a = b
  BY <1>2, NewAlerts
<1>3. ASSUME NEW a \in DOMAIN alerts, NEW b \in DOMAIN alerts,
             alerts'[a].proposal = alerts'[b].proposal
      PROVE  a = b
  BY <1>3, AlertFieldsKept DEF OneAlertPerProposal
<1> QED
  BY <1>1, <1>2, <1>3 DEF OneAlertPerProposal

LEMMA HandlerInvariant ==
  ASSUME OneHandler
  PROVE  Spec => [](TypeInv /\ AuditInv /\ WaitsForPublish)
<1>1. Spec => []TypeInv
  BY TypeCorrect, PTL DEF TypeInv
<1>2. Spec => []AuditInv
  BY <1>1, AuditInvInit, AuditInvStep, PTL DEF Spec
<1>3. Init => WaitsForPublish
  BY IdleTypes DEF Init, WaitsForPublish
<1>4. TypeInv /\ WaitsForPublish /\ [Next]_vars => WaitsForPublish'
  BY WaitsStep
<1> QED
  BY <1>1, <1>2, <1>3, <1>4, PTL DEF Spec

\* As long as the operators' requests come one at a time, a proposal is published
\* once, whatever fails between two of a request's steps: approve refuses a
\* decided proposal, and the decision is in the same commit as the alert.
THEOREM PublishedOnce ==
  ASSUME OneHandler
  PROVE  Spec => []OneAlertPerProposal
<1>1. Init => OneAlertPerProposal
  BY DEF Init, OneAlertPerProposal
<1>2. TypeInv /\ AuditInv /\ WaitsForPublish /\ OneAlertPerProposal /\ [Next]_vars
        => OneAlertPerProposal'
  BY OneAlertStep
<1> QED
  BY <1>1, <1>2, HandlerInvariant, PTL DEF Spec
-----------------------------------------------------------------------------
(* One evaluator, one request at a time, no alert issued unasked, and every *)
(* warning as severe as every other: a region has one proposal that asks    *)
(* for a warning or keeps one up.  A thread that is about to insert knows   *)
(* of none, though the alert it looked for may have ended since, and a      *)
(* request that is about to publish adds none.                              *)

Warnings == {x.severity : x \in Results} \ {"none"}

OneWarning == \A v, w \in Warnings : v = w

Scored(s) == s.pc \in {"pending", "refresh", "live", "insert"}

Alike ==
  /\ \A e \in Evaluators : Scored(eval[e]) => eval[e].severity \in Warnings
  /\ \A p \in DOMAIN proposals : proposals[p].severity \in Warnings
  /\ \A h \in Handlers : req[h].pc = "publish" => req[h].severity \in Warnings
  /\ \A a \in DOMAIN alerts : alerts[a].severity \in Warnings

\* What a scoring thread knows of the region it has in hand.
KnowsStanding(s) ==
  /\ Scored(s) => s.at <= clock
  /\ s.pc = "live" => PendingIn(s.region) = {}
  /\ s.pc = "insert" => Standing(s.region) = {}

StandInv ==
  /\ Alike
  /\ \A e \in Evaluators : KnowsStanding(eval[e])
  /\ \A r \in Regions : \A p, q \in Standing(r) : p = q

\* How a scoring thread gets, or keeps, a region in hand.
LEMMA ScoredChanges ==
  ASSUME TypeInv, [Next]_vars, NEW e \in Evaluators, Scored(eval[e])'
  PROVE  \/ eval'[e] = eval[e] /\ ~Refresh(e) /\ ~Insert(e)
         \/ /\ eval'[e].pc = "pending" /\ eval'[e].at = clock /\ UNCHANGED clock
            /\ \E r \in Regions : /\ level[r].severity # "none"
                                  /\ eval'[e].severity = level[r].severity
         \/ /\ Scored(eval[e]) /\ UNCHANGED <<proposals, alerts, clock>>
            /\ eval'[e].severity = eval[e].severity
            /\ eval'[e].region = eval[e].region /\ eval'[e].at = eval[e].at
            /\ \/ eval'[e].pc = "refresh"
               \/ eval'[e].pc = "live" /\ PendingIn(eval[e].region) = {}
               \/ /\ eval'[e].pc = "insert" /\ eval[e].pc = "live"
                  /\ \A a \in LiveIn(eval[e].region, eval[e].at) :
                       \E b \in LiveIn(eval[e].region, eval[e].at) :
                         ~(Rank(eval[e].severity) <= Rank(alerts[b].severity))
<1>0. eval[e] \in EvalState /\ eval \in [Evaluators -> EvalState]
  BY DEF TypeInv, TypeOK
<1>1. CASE eval'[e] = eval[e]
  BY <1>1, Committed
<1>2. CASE ScoreRegion(e)
  <2>1. PICK r \in eval[e].todo :
          LET rest == [eval[e] EXCEPT !.todo = @ \ {r}]
          IN  eval' = [eval EXCEPT ![e] =
                IF level[r].severity = "none" THEN LoopOn(rest)
                ELSE [rest EXCEPT !.pc = "pending", !.region = r,
                                  !.score = level[r].score,
                                  !.severity = level[r].severity, !.at = clock]]
    BY <1>2 DEF ScoreRegion
  <2> DEFINE rest == [eval[e] EXCEPT !.todo = @ \ {r}]
             scored == [rest EXCEPT !.pc = "pending", !.region = r,
                                    !.score = level[r].score,
                                    !.severity = level[r].severity, !.at = clock]
  <2>2. r \in Regions /\ rest \in EvalState
    BY <1>0 DEF EvalState
  <2>3. LoopOn(rest).pc \in {"idle", "scan"}
    BY <2>2, LoopOnType
  <2>4. scored.pc = "pending" /\ scored.severity = level[r].severity /\ scored.at = clock
    BY <2>2 DEF EvalState
  <2>5. eval'[e] = IF level[r].severity = "none" THEN LoopOn(rest) ELSE scored
    BY <1>0, <2>1
  <2> HIDE DEF rest, scored
  <2>6. level[r].severity # "none" /\ eval'[e] = scored
    BY <2>3, <2>5 DEF Scored
  <2> QED
    BY <1>2, <2>2, <2>4, <2>6 DEF ScoreRegion
<1>3. CASE ReadPending(e)
  <2> DEFINE s == eval[e]
  <2>1. CASE eval' = [eval EXCEPT ![e] = LoopOn(s)]
    BY <1>0, <2>1, LoopOnType DEF Scored
  <2>2. ASSUME NEW p \in PendingIn(s.region),
               eval' = [eval EXCEPT ![e] = [s EXCEPT !.pc = "refresh", !.row = p,
                                                     !.seen = proposals[p].severity]]
        PROVE  /\ eval'[e].pc = "refresh" /\ eval'[e].severity = s.severity
               /\ eval'[e].region = s.region /\ eval'[e].at = s.at
    BY <1>0, <2>2 DEF EvalState
  <2>3. ASSUME PendingIn(s.region) = {}, eval' = [eval EXCEPT ![e].pc = "live"]
        PROVE  /\ eval'[e].pc = "live" /\ eval'[e].severity = s.severity
               /\ eval'[e].region = s.region /\ eval'[e].at = s.at
    BY <1>0, <2>3 DEF EvalState
  <2> QED
    BY <1>3, <2>1, <2>2, <2>3 DEF ReadPending, Scored
<1>4. CASE ReadLive(e)
  <2> DEFINE s == eval[e]
  <2>1. CASE eval' = [eval EXCEPT ![e] = LoopOn(s)]
    BY <1>0, <2>1, LoopOnType DEF Scored
  <2>2. ASSUME eval' = [eval EXCEPT ![e] = [s EXCEPT !.pc = "insert"]]
        PROVE  /\ eval'[e].pc = "insert" /\ eval'[e].severity = s.severity
               /\ eval'[e].region = s.region /\ eval'[e].at = s.at
    BY <1>0, <2>2 DEF EvalState
  <2>3. \/ eval' = [eval EXCEPT ![e] = LoopOn(s)]
        \/ /\ eval' = [eval EXCEPT ![e] = [s EXCEPT !.pc = "insert"]]
           /\ \A a \in LiveIn(s.region, s.at) :
                \E b \in LiveIn(s.region, s.at) : ~(Rank(s.severity) <= Rank(alerts[b].severity))
    BY <1>4 DEF ReadLive
  <2> QED
    BY <1>4, <2>1, <2>2, <2>3 DEF ReadLive, Scored
<1>5. CASE eval'[e].pc \in {"idle", "scan", "pending"}
  <2>1. eval'[e].pc = "pending"
    BY <1>5 DEF Scored
  <2>2. ~Crash /\ ~StartPass(e) /\ ~Refresh(e) /\ ~Insert(e) /\ ~PassFails(e)
    <3>1. ~Crash /\ ~PassFails(e)
      BY <1>0, <2>1, IdleTypes DEF Crash, PassFails
    <3>2. ~StartPass(e)
      BY <1>0, <2>1, ScanType DEF StartPass
    <3> QED
      BY <2>1, <3>1, <3>2, Committed
  <2>3. \/ UNCHANGED eval
        \/ ScoreRegion(e) \/ ReadPending(e) \/ ReadLive(e)
        \/ \E f \in Evaluators \ {e} : EvalStep(f) \/ PassFails(f)
    BY <2>2 DEF Next, vars, EvalStep, NewRequest, RequestStep, ApproveRead, ManualInsert,
                DismissRead, Retract, ManualReload, PublishCommit, Push, Stamp, DismissCommit,
                RequestFails, Weather, Tick
  <2>4. ASSUME NEW f \in Evaluators \ {e}, EvalStep(f) \/ PassFails(f)
        PROVE  eval'[e] = eval[e]
    BY <1>0, <2>4
    DEF EvalStep, PassFails, StartPass, ScoreRegion, ReadPending, Refresh, ReadLive, Insert
  <2> QED
    BY <1>1, <1>2, <1>3, <1>4, <2>3, <2>4
<1> QED
  BY <1>1, <1>3, <1>4, <1>5, EvalChanges

\* A proposal comes to stand for a warning only when it is inserted.
LEMMA StandingGrows ==
  ASSUME TypeInv, AuditInv, WaitsForPublish, ManualSeverities = {}, [Next]_vars,
         NEW r, NEW p \in Standing(r)'
  PROVE  \/ p \in Standing(r)
         \/ /\ p = Len(proposals) + 1
            /\ \E e \in Evaluators :
                 eval[e].pc = "insert" /\ eval[e].region = r /\ Insert(e)
<1>0. TypeOK /\ p \in DOMAIN proposals' /\ proposals'[p].region = r
  BY DEF TypeInv, Standing
<1>1. CASE p \in DOMAIN proposals
  <2>1. proposals[p].region = r /\ (proposals'[p].status = "proposed" => proposals[p].status = "proposed")
    BY <1>0, <1>1, RowsKept DEF Kept
  <2>2. CASE proposals'[p].status = "proposed"
    BY <1>1, <2>1, <2>2 DEF Standing
  <2>3. CASE \E a \in DOMAIN alerts' : alerts'[a].proposal = p /\ LiveAt(a, clock)'
    <3>1. PICK a \in DOMAIN alerts' : alerts'[a].proposal = p /\ LiveAt(a, clock)'
      BY <2>3
    <3>2. CASE a \in DOMAIN alerts
      <4>1. alerts[a].proposal = p /\ LiveAt(a, clock)
        BY <3>1, <3>2, AlertFieldsKept, EndedStays
      <4> QED
        BY <1>1, <2>1, <3>2, <4>1 DEF Standing
    <3>3. CASE a \notin DOMAIN alerts
      <4>1. PICK h \in Handlers : PublishCommit(h) /\ alerts'[a] = NewAlert(req[h])
        BY <3>1, <3>3, NewAlerts
      <4>2. proposals[p].status = "proposed"
        BY <3>1, <4>1 DEF NewAlert, PublishCommit, WaitsForPublish
      <4> QED
        BY <1>1, <2>1, <4>2 DEF Standing
    <3> QED
      BY <3>2, <3>3
  <2> QED
    BY <2>2, <2>3 DEF Standing
<1>2. CASE p \notin DOMAIN proposals
  <2>1. ~ \E h \in Handlers : ManualInsert(h)
    BY DEF ManualInsert
  <2> QED
    BY <1>0, <1>2, <2>1, InsertedRows DEF NewProposal
<1> QED
  BY <1>1, <1>2

\* A refresh writes the thread's severity or leaves the row's.
LEMMA RefreshedFrom ==
  ASSUME NEW row \in Proposal, NEW s \in EvalState, NEW reworded \in BOOLEAN
  PROVE  Refreshed(row, s, reworded).severity \in {s.severity, row.severity}
<1> DEFINE severity == IF s.severity # s.seen THEN s.severity ELSE row.severity
           message == IF s.severity # s.seen \/ reworded THEN s.severity ELSE row.message
<1>1. Refreshed(row, s, reworded) =
        [row EXCEPT !.score = s.score, !.severity = severity, !.message = message]
  BY DEF Refreshed
<1>2. severity \in {s.severity, row.severity}
  OBVIOUS
<1> HIDE DEF severity, message
<1> QED
  BY <1>1, <1>2 DEF Proposal

\* A thread scores regions, and rows and alerts are copied from one another: none
\* of these is a severity that no result has.
LEMMA AlikeStep ==
  ASSUME TypeInv, ManualSeverities = {}, Alike, [Next]_vars
  PROVE  Alike'
<1>0. TypeOK
  BY DEF TypeInv
<1>w. UNCHANGED Warnings
  BY DEF Warnings, Results, Bands, SeverityFor
<1>1. ASSUME NEW e \in Evaluators, Scored(eval[e])'
      PROVE  eval'[e].severity \in Warnings
  <2>1. ASSUME NEW r \in Regions, level[r].severity # "none"
        PROVE  level[r].severity \in Warnings
    BY <1>0, <2>1 DEF TypeOK, Warnings
  <2> QED
    BY <1>1, <2>1, ScoredChanges DEF Alike, Scored
<1>2. ASSUME NEW p \in DOMAIN proposals'
      PROVE  proposals'[p].severity \in Warnings
  <2>1. CASE p \notin DOMAIN proposals
    <3>1. ~ \E h \in Handlers : ManualInsert(h)
      BY DEF ManualInsert
    <3>2. PICK e \in Evaluators : eval[e].pc = "insert" /\ proposals'[p] = NewProposal(eval[e])
      BY <1>2, <2>1, <3>1, InsertedRows
    <3> QED
      BY <3>2 DEF NewProposal, Alike, Scored
  <2>2. CASE p \in DOMAIN proposals
    <3>0. proposals[p] \in Proposal /\ proposals[p].severity \in Warnings
      BY <1>0, <2>2, RowType DEF Alike
    <3>1. CASE RefreshOf(p)
      <4>1. PICK e \in Evaluators, reworded \in BOOLEAN :
              Refresh(e) /\ proposals'[p] = Refreshed(proposals[p], eval[e], reworded)
        BY <3>1 DEF RefreshOf
      <4>2. eval[e] \in EvalState /\ eval[e].severity \in Warnings
        BY <1>0, <4>1 DEF TypeOK, Alike, Scored, Refresh
      <4> QED
        BY <3>0, <4>1, <4>2, RefreshedFrom
    <3>2. CASE DecisionOf(p)
      <4>1. PICK h \in Handlers : proposals'[p] = Decided(proposals[p], req[h], Len(alerts) + 1)
        BY <3>2 DEF DecisionOf
      <4>2. req[h] \in ReqState /\ Len(alerts) + 1 \in Nat \ {0}
        BY <1>0, LenProperties DEF TypeOK
      <4> QED
        BY <3>0, <4>1, <4>2, DecidedKeeps
    <3>3. CASE DismissalOf(p)
      <4>1. PICK h \in Handlers : proposals'[p] = DismissedRow(proposals[p], req[h])
        BY <3>3 DEF DismissalOf
      <4>2. req[h] \in ReqState
        BY <1>0 DEF TypeOK
      <4> QED
        BY <3>0, <4>1, <4>2, DismissalKeeps
    <3> QED
      BY <2>2, <3>0, <3>1, <3>2, <3>3, RowChanges
  <2> QED
    BY <2>1, <2>2
<1>3. ASSUME NEW h \in Handlers, req'[h].pc = "publish"
      PROVE  req'[h].severity \in Warnings
  BY <1>3, Copies DEF Alike
<1>4. ASSUME NEW a \in DOMAIN alerts'
      PROVE  alerts'[a].severity \in Warnings
  <2>1. CASE a \in DOMAIN alerts
    BY <2>1, AlertFieldsKept DEF Alike
  <2>2. CASE a \notin DOMAIN alerts
    <3>1. PICK h \in Handlers : PublishCommit(h) /\ alerts'[a] = NewAlert(req[h])
      BY <1>4, <2>2, NewAlerts
    <3> QED
      BY <3>1 DEF NewAlert, PublishCommit, Alike
  <2> QED
    BY <2>1, <2>2
<1> QED
  BY <1>w, <1>1, <1>2, <1>3, <1>4 DEF Alike

\* What a scoring thread reads of its region it knows, and no request unlearns it.
LEMMA KnowsStandingStep ==
  ASSUME OneEvaluator, OneWarning, ManualSeverities = {}, TypeInv, AuditInv,
         WaitsForPublish, StandInv, [Next]_vars, NEW e \in Evaluators
  PROVE  KnowsStanding(eval[e])'
<1> DEFINE r == eval[e].region
<1>0. /\ clock \in Int /\ eval[e].at \in Int
      /\ \A a \in DOMAIN alerts : alerts[a].expires \in Int
      /\ KnowsStanding(eval[e])
  BY AlertType DEF TypeInv, TypeOK, EvalState, Alert, StandInv
<1>1. CASE ~Scored(eval[e])'
  BY <1>1 DEF KnowsStanding, Scored
<1>2. CASE eval'[e] = eval[e] /\ ~Refresh(e) /\ ~Insert(e)
  <2>1. ~ \E f \in Evaluators : Insert(f)
    BY <1>2 DEF OneEvaluator
  <2>2. ASSUME Scored(eval[e])' PROVE eval'[e].at <= clock'
    <3>1. clock' = clock \/ clock' = clock + 1
      BY ClockTicks DEF Tick
    <3>2. eval[e].at <= clock
      BY <1>0, <1>2, <2>2 DEF KnowsStanding, Scored
    <3> QED
      BY <1>0, <1>2, <3>1, <3>2
  <2>3. PendingIn(r)' \subseteq PendingIn(eval[e].region)
    <3> SUFFICES ASSUME NEW p \in PendingIn(r)' PROVE p \in PendingIn(eval[e].region)
      OBVIOUS
    <3>1. /\ p \in DOMAIN proposals' /\ proposals'[p].status = "proposed"
          /\ proposals'[p].region = eval[e].region
      BY <1>2 DEF PendingIn
    <3>2. p \in DOMAIN proposals
      BY <2>1, <3>1, InsertedRows DEF ManualInsert
    <3> QED
      BY <3>1, <3>2, RowsKept DEF PendingIn, Kept
  <2>4. Standing(r)' \subseteq Standing(eval[e].region)
    <3>1. PICK x : x = eval[e].region
      OBVIOUS
    <3>2. Standing(r)' = Standing(x)'
      BY <1>2, <3>1 DEF Standing
    <3>3. Standing(x)' \subseteq Standing(x)
      BY <2>1, StandingGrows
    <3> QED
      BY <3>1, <3>2, <3>3
  <2> QED
    BY <1>0, <1>2, <2>2, <2>3, <2>4 DEF KnowsStanding
<1>3. CASE /\ eval'[e].pc = "pending" /\ eval'[e].at = clock /\ UNCHANGED clock
  BY <1>0, <1>3 DEF KnowsStanding
<1>4. CASE /\ Scored(eval[e]) /\ UNCHANGED <<proposals, alerts, clock>>
           /\ eval'[e].severity = eval[e].severity
           /\ eval'[e].region = eval[e].region /\ eval'[e].at = eval[e].at
           /\ \/ eval'[e].pc = "refresh"
              \/ eval'[e].pc = "live" /\ PendingIn(eval[e].region) = {}
              \/ /\ eval'[e].pc = "insert" /\ eval[e].pc = "live"
                 /\ \A a \in LiveIn(eval[e].region, eval[e].at) :
                      \E b \in LiveIn(eval[e].region, eval[e].at) :
                        ~(Rank(eval[e].severity) <= Rank(alerts[b].severity))
  <2>1. eval'[e].at <= clock'
    BY <1>0, <1>4 DEF KnowsStanding
  <2>2. ASSUME eval'[e].pc = "live" PROVE PendingIn(r)' = {}
    BY <1>4, <2>2 DEF PendingIn
  <2>3. ASSUME eval'[e].pc = "insert" PROVE Standing(r)' = {}
    <3>1. Standing(r)' = Standing(r)
      BY <1>4 DEF Standing, LiveAt
    <3>2. PendingIn(r) = {} /\ eval[e].at <= clock
      BY <1>0, <1>4, <2>3 DEF KnowsStanding
    <3>3. ASSUME NEW b \in LiveIn(r, eval[e].at)
          PROVE  Rank(eval[e].severity) <= Rank(alerts[b].severity)
      <4>1. eval[e].severity = alerts[b].severity
        BY <1>4, <3>3 DEF StandInv, Alike, OneWarning, LiveIn
      <4> QED
        BY <4>1, RankType
    <3>4. LiveIn(r, eval[e].at) = {}
      BY <1>4, <2>3, <3>3
    <3>5. ASSUME NEW p \in Standing(r) PROVE FALSE
      <4>1. p \in DOMAIN proposals /\ proposals[p].region = r
        BY <3>5 DEF Standing
      <4>2. PICK a \in DOMAIN alerts : alerts[a].proposal = p /\ LiveAt(a, clock)
        BY <3>2, <3>5 DEF Standing, PendingIn
      <4>3. alerts[a].region = r
        BY <4>1, <4>2 DEF AuditInv, AlertsHaveDecisions
      <4>4. LiveAt(a, eval[e].at)
        BY <1>0, <3>2, <4>2 DEF LiveAt
      <4> QED
        BY <3>4, <4>3, <4>4 DEF LiveIn
    <3> QED
      BY <3>1, <3>5
  <2> QED
    BY <2>1, <2>2, <2>3, <1>4 DEF KnowsStanding
<1> QED
  BY <1>1, <1>2, <1>3, <1>4, ScoredChanges

LEMMA StandInvStep ==
  ASSUME OneEvaluator, OneWarning, ManualSeverities = {}
  PROVE  TypeInv /\ AuditInv /\ WaitsForPublish /\ StandInv /\ [Next]_vars => StandInv'
<1> SUFFICES ASSUME TypeInv, AuditInv, WaitsForPublish, StandInv, [Next]_vars
             PROVE  StandInv'
  OBVIOUS
<1>1. Alike'
  BY AlikeStep DEF StandInv
<1>2. \A e \in Evaluators : KnowsStanding(eval[e])'
  BY KnowsStandingStep
<1>3. ASSUME NEW r \in Regions, NEW p \in Standing(r)', NEW q \in Standing(r)'
      PROVE  p = q
  <2>1. CASE p \in Standing(r) /\ q \in Standing(r)
    BY <2>1 DEF StandInv
  <2>2. CASE p \notin Standing(r) /\ q \notin Standing(r)
    BY <2>2, StandingGrows
  <2>3. ASSUME NEW e \in Evaluators, eval[e].pc = "insert", eval[e].region = r
        PROVE  Standing(r) = {}
    BY <2>3 DEF StandInv, KnowsStanding
  <2> QED
    BY <2>1, <2>2, <2>3, StandingGrows
<1> QED
  BY <1>1, <1>2, <1>3 DEF StandInv

LEMMA StandInvInit == Init => StandInv
BY IdleTypes DEF Init, StandInv, Alike, KnowsStanding, Standing, Scored

\* While one thread evaluates, requests come one at a time and no alert is issued
\* unasked, a region whose warnings are all of one severity has at most one
\* proposal that asks for a warning or keeps one up: through approvals,
\* dismissals, retractions, expiry and failures a wet region does not produce
\* one per pass.
THEOREM OneProposalStands ==
  ASSUME OneEvaluator, OneHandler, OneWarning, ManualSeverities = {}
  PROVE  Spec => []OneStandingProposal
<1>1. Spec => []StandInv
  <2>1. TypeInv /\ AuditInv /\ WaitsForPublish /\ StandInv /\ [Next]_vars => StandInv'
    BY StandInvStep
  <2> QED
    BY <2>1, HandlerInvariant, StandInvInit, PTL DEF Spec
<1>2. StandInv => OneStandingProposal
  <2> SUFFICES ASSUME StandInv, NEW r \in Regions PROVE Cardinality(Standing(r)) <= 1
    BY DEF OneStandingProposal
  <2>1. CASE Standing(r) = {}
    BY <2>1, FS_EmptySet
  <2>2. ASSUME NEW p \in Standing(r) PROVE Cardinality(Standing(r)) <= 1
    <3>1. Standing(r) = {p}
      BY <2>2 DEF StandInv
    <3> QED
      BY <3>1, FS_Singleton
  <2> QED
    BY <2>1, <2>2
<1> QED
  BY <1>1, <1>2, PTL
=============================================================================
