------------------------------ MODULE Dataset ------------------------------
(***************************************************************************)
(* Collecting the gauge archive (scripts/dataset_sources.py and the        *)
(* extraction of scripts/build_dataset.py).  A run asks for the list of    *)
(* stations, then for the readings.  The upstream view shows a             *)
(* rolling window of the newest readings, page by page; every answer is    *)
(* kept on disk under a key that does not name the day; and a run merges   *)
(* what it read into the archive, from which the panel of StationHours is  *)
(* built.  A run may fail at a page or be killed at any point.             *)
(***************************************************************************)
EXTENDS StationHours, Sequences

CONSTANTS
  PageSize, MaxPages, ViewSize,  \* rows of a page, pages of a run, rows of the view
  MaxRows,      \* bound: readings published
  MaxRuns,      \* bound: runs begun
  MaxClears     \* bound: times the cached answers are removed by hand

ASSUME DatasetAssumption ==
  /\ {PageSize, MaxPages, ViewSize, MaxRows, MaxRuns, MaxClears} \subseteq Nat
  /\ PageSize > 0 /\ MaxPages > 0

VARIABLES
  published,  \* every reading upstream, oldest first
  cache,      \* the raw responses on disk, by request
  archive,    \* gauge_readings_archive.json: its rows, and whether it can be read
  run,        \* the run under way
  runs, clears

vars == <<published, cache, archive, run, runs, clears>>

\* Request 0 is for the list of stations, the others are for a page each.
Requests == 0..MaxPages
Absent == [kind |-> "absent", rows |-> <<>>]
Cut == [kind |-> "cut", rows |-> <<>>]

\* gauges_2_view: the newest rows, newest first.
View ==
  LET n == Len(published)
  IN  [i \in 1..(IF n < ViewSize THEN n ELSE ViewSize) |-> published[n + 1 - i]]

RowsOf(sequence) == {sequence[i] : i \in DOMAIN sequence}
RowsAt(station, rows) == {r \in rows : r.station = station}

\* `shown` is what the view held when the run began.
Idle == [op |-> "idle", offline |-> FALSE, request |-> 0, rows |-> {}, shown |-> {}]

DataInit ==
  /\ published = <<>>
  /\ cache = [q \in Requests |-> Absent]
  /\ archive = [rows |-> {}, readable |-> TRUE]
  /\ run = Idle
  /\ runs = 0 /\ clears = 0

Publish(station, measure, gap) ==
  /\ Len(published) < MaxRows
  /\ published' =
       LET last == IF published = <<>> THEN 0 ELSE published[Len(published)].at
       IN  Append(published, [station |-> station, at |-> last + gap,
                              level |-> measure.level, rain |-> measure.rain])
  /\ UNCHANGED <<cache, archive, run, runs, clears>>

-----------------------------------------------------------------------------
(* Sources.stations, and Sources.readings page by page.                    *)

StartRun(offline) ==
  /\ run.op = "idle" /\ runs < MaxRuns
  /\ runs' = runs + 1
  /\ run' = [Idle EXCEPT !.op = "fetch", !.offline = offline, !.shown = RowsOf(View)]
  /\ UNCHANGED <<published, cache, archive, clears>>

\* A run without any station ends.
GotList(rows) == run' = IF rows = <<>> THEN Idle ELSE [run EXCEPT !.request = 1]

\* The rows of a page; the last page is short, or the last that may be read.
GotPage(rows) ==
  run' = [run EXCEPT !.rows = @ \cup RowsOf(rows),
                     !.request = @ + 1,
                     !.op = IF Len(rows) < PageSize \/ run.request = MaxPages
                            THEN "merge" ELSE "fetch"]

Got(rows) == IF run.request = 0 THEN GotList(rows) ELSE GotPage(rows)

\* A response on disk is the answer, with or without --offline.
FromDisk ==
  /\ run.op = "fetch" /\ cache[run.request].kind = "whole"
  /\ Got(cache[run.request].rows)
  /\ UNCHANGED <<published, cache, archive, runs, clears>>

\* The list may come empty; one of the stations stands for all of it.
Lists == {<<>>, <<CHOOSE s \in Stations : TRUE>>}

Page(n) ==
  SubSeq(View, (n - 1) * PageSize + 1, IF n * PageSize < Len(View) THEN n * PageSize ELSE Len(View))

\* Whatever comes without an error is kept.
FromUpstream ==
  /\ run.op = "fetch" /\ cache[run.request].kind = "absent" /\ ~run.offline
  /\ \E rows \in IF run.request = 0 THEN Lists ELSE {Page(run.request)} :
       /\ cache' = [cache EXCEPT ![run.request] = [kind |-> "whole", rows |-> rows]]
       /\ Got(rows)
  /\ UNCHANGED <<published, archive, runs, clears>>

\* No cached response in an offline run, one that cannot be read, or three
\* failed attempts: the run ends here and stores nothing of what it read.
RunFails ==
  /\ run.op = "fetch" /\ cache[run.request].kind # "whole"
  /\ run' = Idle
  /\ UNCHANGED <<published, cache, archive, runs, clears>>

-----------------------------------------------------------------------------
(* _merge_reading_archive.                                                 *)

\* An archive that cannot be read is left out: "starting fresh".
Merged(fresh) == (IF archive.readable THEN archive.rows ELSE {}) \cup fresh

\* With no rows at all nothing is written.
Merge ==
  /\ run.op = "merge"
  /\ run' = IF Merged(run.rows) = {} THEN Idle
            ELSE [run EXCEPT !.op = "write", !.rows = Merged(run.rows)]
  /\ UNCHANGED <<published, cache, archive, runs, clears>>

Write ==
  /\ run.op = "write"
  /\ archive' = [rows |-> run.rows, readable |-> TRUE]
  /\ run' = Idle
  /\ UNCHANGED <<published, cache, runs, clears>>

-----------------------------------------------------------------------------

\* The process is killed.  The archive is written over in place, and so is cut
\* short when that was under way, as is a response on its way to the disk.
Crash ==
  /\ run.op # "idle"
  /\ run' = Idle
  /\ archive' = IF run.op = "write" THEN [rows |-> {}, readable |-> FALSE] ELSE archive
  /\ \/ UNCHANGED cache
     \/ /\ run.op = "fetch" /\ ~run.offline /\ cache[run.request].kind = "absent"
        /\ cache' = [cache EXCEPT ![run.request] = Cut]
  /\ UNCHANGED <<published, runs, clears>>

\* Somebody removes the cached responses and keeps the archive.
ClearCache ==
  /\ run.op = "idle" /\ clears < MaxClears
  /\ cache # [q \in Requests |-> Absent]
  /\ cache' = [q \in Requests |-> Absent]
  /\ clears' = clears + 1
  /\ UNCHANGED <<published, archive, run, runs>>

DataDone ==
  /\ run.op = "idle" /\ runs = MaxRuns /\ Len(published) = MaxRows
  /\ UNCHANGED vars

DataNext ==
  \/ \E s \in Stations, m \in Measures, g \in Gaps : Publish(s, m, g)
  \/ \E offline \in BOOLEAN : StartRun(offline)
  \/ FromDisk \/ FromUpstream \/ RunFails
  \/ Merge \/ Write
  \/ Crash \/ ClearCache
  \/ DataDone

DataSpec == DataInit /\ [][DataNext]_vars

-----------------------------------------------------------------------------
(* Properties.                                                             *)

\* A label whose window ends before the hour of the newest reading is final:
\* the runs after it do not change it, unless the archive was cut short.
Settled(rows, h, horizon) ==
  rows # {} /\ h + horizon < HourOf(Max({r.at : r \in rows}))
SettledLabelsStay ==
  [][Write => \A s \in Stations :
       LET old == RowsAt(s, archive.rows)
           new == RowsAt(s, archive'.rows)
       IN  \A h \in Hours(old), horizon \in Horizons :
             Settled(old, h, horizon) =>
               FutureMax(Levels(new), h, horizon) = FutureMax(Levels(old), h, horizon)]_archive

\* A run that got through has put into the archive what the view showed when
\* it began and shows still, where its pages reach so far (build_dataset.py:
\* "every run permanently keeps what the feed was showing that day").
RunKeepsFeed ==
  [][(Write /\ ~run.offline /\ MaxPages * PageSize >= ViewSize) =>
       run.shown \cap RowsOf(View) \subseteq archive'.rows]_archive
=============================================================================
