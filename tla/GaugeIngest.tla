---------------------------- MODULE GaugeIngest ----------------------------
(***************************************************************************)
(* The river gauges (ingest/irrigation.py): the scheduler's readings job   *)
(* and the operators' requests copy an upstream feed, newest first and     *)
(* page by page, into gauge_readings, row by row, with the unit of each    *)
(* gauge taken from gauge_stations.  The upstream services, which only     *)
(* append, are modelled from what the code asks of them.                   *)
(*                                                                         *)
(* A level is the number published and the unit it was converted from; two *)
(* readings differ in their time of publication, which counts up.          *)
(***************************************************************************)
EXTENDS Integers, Sequences

CONSTANTS
  Gauges,
  Feet,        \* the gauges that publish in feet
  Job,         \* the scheduler's thread: max_instances is 1
  Admins,      \* threads that serve POST /admin/ingest/...
  PageSize,    \* resultRecordCount
  Pages,       \* how many pages a request may ask for; the job asks for one
  MaxFeed,     \* bound: readings published
  MaxFaults,   \* bound: failed requests and restarts
  None

Threads == {Job} \cup Admins
Units == {"m", "ft"}
UnitOf(g) == IF g \in Feet THEN "ft" ELSE "m"

ASSUME IngestAssumption ==
  /\ Feet \subseteq Gauges
  /\ None \notin Units
  /\ PageSize \in Nat \ {0}
  /\ Pages \subseteq Nat \ {0}
  /\ MaxFeed \in Nat /\ MaxFaults \in Nat

VARIABLES
  listed,     \* upstream: the gauges in hydrostations, which need not be all
  feed,       \* upstream: gauges_2_view, newest first
  stations,   \* gauge_stations: source_unit
  readings,   \* gauge_readings
  thread,     \* what each thread holds
  faults      \* faults so far

vars == <<listed, feed, stations, readings, thread, faults>>

\* A published reading has a gauge, a time `at`, and a level that may be no
\* `number`, which makes float() raise.  A stored one is in metres only if its
\* `unit`, the one it was converted from, is the gauge's.
NoStations == [g \in Gauges |-> None]

Idle == [op |-> "idle", pages |-> 0, rows |-> <<>>, next |-> 1,
         units |-> NoStations, plan |-> {}, found |-> {}]

Init ==
  /\ listed \in SUBSET Gauges
  /\ feed = <<>>
  /\ stations = NoStations
  /\ readings = {}
  /\ thread = [t \in Threads |-> Idle]
  /\ faults = 0

Becomes(t, held) == thread' = [thread EXCEPT ![t] = held]

-----------------------------------------------------------------------------
(* Upstream.                                                               *)

Publish(g, number) ==
  /\ Len(feed) < MaxFeed
  /\ feed' = <<[gauge |-> g, at |-> Len(feed) + 1, number |-> number]>> \o feed
  /\ UNCHANGED <<listed, stations, readings, thread, faults>>

-----------------------------------------------------------------------------
(* fetch_readings.                                                         *)

\* max_pages is 1 for the job and in the request's body for the others.
StartReadings(t, n) ==
  /\ thread[t].op = "idle"
  /\ Becomes(t, [Idle EXCEPT !.op = "paging", !.pages = n])
  /\ UNCHANGED <<listed, feed, stations, readings, faults>>

\* The rows at an offset of the feed as it is when the page is asked for.
Batch(offset) ==
  SubSeq(feed, offset + 1, IF offset + PageSize < Len(feed) THEN offset + PageSize ELSE Len(feed))

\* `next` counts the pages here, and the rows once they are stored.
FetchPage(t) ==
  /\ thread[t].op = "paging"
  /\ LET page == thread[t].next
         batch == Batch((page - 1) * PageSize)
         got == [thread[t] EXCEPT !.rows = @ \o batch]
     IN Becomes(t, IF Len(batch) < PageSize \/ page = thread[t].pages
                   THEN [got EXCEPT !.op = "mapping", !.next = 1]
                   ELSE [got EXCEPT !.next = page + 1])
  /\ UNCHANGED <<listed, feed, stations, readings, faults>>

LoadStations(t) ==
  /\ thread[t].op = "mapping"
  /\ Becomes(t, [thread[t] EXCEPT !.op = "storing", !.units = stations])
  /\ UNCHANGED <<listed, feed, stations, readings, faults>>

\* Slip: the level is stored as it was published.
ConvertedNever(row, units) == [gauge |-> row.gauge, at |-> row.at, unit |-> "m"]

\* unit_factor: a gauge the table lacks counts as one in metres.
Converted(row, units) ==
  [gauge |-> row.gauge, at |-> row.at, unit |-> IF units[row.gauge] = "ft" THEN "ft" ELSE "m"]

\* uq_reading_natural_key
Stored(row) == \E r \in readings : r.gauge = row.gauge /\ r.at = row.at

Row(t) == thread[t].rows[thread[t].next]
HasRow(t) == thread[t].op = "storing" /\ thread[t].next <= Len(thread[t].rows)
NextRow(t) == Becomes(t, [thread[t] EXCEPT !.next = @ + 1])

\* Slip: one transaction for the whole run, which a duplicate undoes.
DuplicateUndoesRun(t) ==
  /\ Stored(Row(t)) /\ NextRow(t)
  /\ readings' = {r \in readings :
                    \A i \in 1..(thread[t].next - 1) : thread[t].rows[i].at # r.at}

\* Slip: a duplicate is taken for the end of what is new.
DuplicateEndsRun(t) == Stored(Row(t)) /\ Becomes(t, Idle) /\ UNCHANGED readings

\* Every row is a commit of its own; a duplicate is rolled back and passed.
DuplicatePassed(t) == Stored(Row(t)) /\ NextRow(t) /\ UNCHANGED readings

StoreRow(t) ==
  /\ HasRow(t) /\ Row(t).number
  /\ \/ DuplicatePassed(t)
     \/ /\ ~Stored(Row(t))
        /\ readings' = readings \cup {Converted(Row(t), thread[t].units)}
        /\ NextRow(t)
  /\ UNCHANGED <<listed, feed, stations, faults>>

\* float() raises outside of any try: _session_job or the error handler ends it.
BadRow(t) ==
  /\ HasRow(t) /\ ~Row(t).number
  /\ Becomes(t, Idle)
  /\ UNCHANGED <<listed, feed, stations, readings, faults>>

EndReadings(t) ==
  /\ thread[t].op = "storing" /\ ~HasRow(t)
  /\ Becomes(t, Idle)
  /\ UNCHANGED <<listed, feed, stations, readings, faults>>

-----------------------------------------------------------------------------
(* refresh_stations: requests only, for the scheduler adds its job paused. *)

FetchList(t) ==
  /\ t # Job
  /\ thread[t].op = "idle"
  /\ Becomes(t, [Idle EXCEPT !.op = "selecting", !.plan = listed])
  /\ UNCHANGED <<listed, feed, stations, readings, faults>>

SelectStations(t) ==
  /\ thread[t].op = "selecting"
  /\ Becomes(t, [thread[t] EXCEPT
       !.op = "upserting", !.found = {g \in thread[t].plan : stations[g] # None}])
  /\ UNCHANGED <<listed, feed, stations, readings, faults>>

\* One commit for all rows: an insert that meets one inserted since undoes it.
CommitStations(t) ==
  /\ thread[t].op = "upserting"
  /\ IF \E g \in thread[t].plan \ thread[t].found : stations[g] # None
     THEN UNCHANGED stations
     ELSE stations' = [g \in Gauges |->
                         IF g \in thread[t].plan THEN UnitOf(g) ELSE stations[g]]
  /\ Becomes(t, Idle)
  /\ UNCHANGED <<listed, feed, readings, faults>>

-----------------------------------------------------------------------------
(* Faults.                                                                 *)

\* A timeout, a bad status or ArcGIS's error body: nothing of the run is kept.
FetchFails(t) ==
  /\ thread[t].op = "paging"
  /\ faults < MaxFaults
  /\ faults' = faults + 1
  /\ Becomes(t, Idle)
  /\ UNCHANGED <<listed, feed, stations, readings>>

Restart ==
  /\ faults < MaxFaults
  /\ faults' = faults + 1
  /\ thread' = [t \in Threads |-> Idle]
  /\ UNCHANGED <<listed, feed, stations, readings>>

-----------------------------------------------------------------------------
(* check_threshold_agreement, which /data-quality shows: of its comparison *)
(* of the two layers, the gauges that the table lacks.                     *)

Compared == 1000

\* The gauges of the newest rows.
Named == {feed[i].gauge : i \in {j \in DOMAIN feed : j <= Compared}}
NotInHydrostations == {g \in Named : stations[g] = None}

-----------------------------------------------------------------------------
RunReadings(t) ==
  FetchPage(t) \/ LoadStations(t) \/ StoreRow(t) \/ BadRow(t) \/ EndReadings(t)

Refresh(t) ==
  FetchList(t) \/ SelectStations(t) \/ CommitStations(t)

Next ==
  \/ \E g \in Gauges, number \in BOOLEAN : Publish(g, number)
  \/ StartReadings(Job, 1)
  \/ \E t \in Admins, n \in Pages : StartReadings(t, n)
  \/ \E t \in Threads : RunReadings(t) \/ Refresh(t) \/ FetchFails(t)
  \/ Restart

Spec == Init /\ [][Next]_vars

\* The scheduler starts the job again and again and its thread runs on; nobody
\* has to press a button.
Fairness == WF_vars(StartReadings(Job, 1) \/ RunReadings(Job))
FairSpec == Spec /\ Fairness

-----------------------------------------------------------------------------
(* Properties.                                                             *)

\* Two threads that store the same page at once keep one row per reading, and
\* what a run has passed is in the table, whoever put it there.
PassedRowsStored ==
  /\ \A r, s \in readings : r.gauge = s.gauge /\ r.at = s.at => r = s
  /\ \A t \in Threads : thread[t].op = "storing" =>
       \A i \in 1..(thread[t].next - 1) : Stored(thread[t].rows[i])

WrongUnit(g) == {r \in readings : r.gauge = g /\ r.unit # UnitOf(g)}

\* Once the operators see a gauge compared, and not listed as absent from
\* hydrostations, and no thread is storing with an older copy of the table, no
\* more of its readings are left unconverted, however long ago their pages were
\* fetched, and whatever other threads do.
WrongUnitsEnd ==
  [][\A g \in Gauges :
       (g \in Named \ NotInHydrostations /\
        \A t \in Threads : thread[t].op = "storing" => thread[t].units[g] # None)
       => WrongUnit(g)' \subseteq WrongUnit(g)]_vars

\* Out of a run's reach: a full page of newer rows, or a newer row that raises.
OutOfReach(at) ==
  \E i \in DOMAIN feed :
    /\ feed[i].at = at
    /\ i > PageSize \/ \E j \in 1..i : ~feed[j].number

\* A run stores the newest rows first and may be cut short by a fault, but the
\* next one passes what is stored and goes on: every reading published gets
\* stored, unless a page of newer ones or one that cannot be read comes before.
EveryReadingArrives ==
  \A at \in 1..MaxFeed :
    at <= Len(feed) ~> ((\E r \in readings : r.at = at) \/ OutOfReach(at))
=============================================================================
