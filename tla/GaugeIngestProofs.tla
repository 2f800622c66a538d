------------------------- MODULE GaugeIngestProofs --------------------------
(***************************************************************************)
(* For any set of gauges, threads, pages and faults: runs that overlap     *)
(* keep one row per reading and lose none they have passed, and a level    *)
(* can be stored unconverted only under a copy of the table of stations    *)
(* that lacks its gauge.                                                   *)
(*                                                                         *)
(* The invariant says what a thread that stores still knows: the rows it   *)
(* has passed are in the table, and a unit in its copy of gauge_stations   *)
(* is the gauge's, however old the copy is.                                *)
(***************************************************************************)
EXTENDS GaugeIngest, SequenceTheorems, TLAPS

Reading == [gauge : Gauges, at : Nat, number : BOOLEAN]
Level == [gauge : Gauges, at : Nat, unit : Units]
StationTable == [Gauges -> Units \cup {None}]
Ops == {"idle", "paging", "mapping", "storing", "selecting", "upserting"}
Held == [op : Ops, pages : Nat, rows : Seq(Reading), next : Nat \ {0},
         units : StationTable, plan : SUBSET Gauges, found : SUBSET Gauges]

GaugeTypeOK ==
  /\ listed \subseteq Gauges
  /\ feed \in Seq(Reading)
  /\ stations \in StationTable
  /\ readings \subseteq Level
  /\ thread \in [Threads -> Held]
  /\ faults \in Nat

\* uq_reading_natural_key.
OneRowEach == \A r, s \in readings : r.gauge = s.gauge /\ r.at = s.at => r = s

\* What the thread has passed is in the table, and it starts with the first row.
Passed(t) ==
  /\ thread[t].op = "mapping" => thread[t].next = 1
  /\ thread[t].op = "storing" =>
       \A i \in 1..(thread[t].next - 1) : Stored(thread[t].rows[i])

\* A table of stations that names a unit names the gauge's.
UnitsTrue(table) == \A g \in Gauges : table[g] # None => table[g] = UnitOf(g)

GaugeInv ==
  /\ GaugeTypeOK
  /\ OneRowEach
  /\ \A t \in Threads : Passed(t)
  /\ UnitsTrue(stations)
  /\ \A t \in Threads : UnitsTrue(thread[t].units)

-----------------------------------------------------------------------------
(* What a thread holds.                                                    *)

LEMMA StartHeld ==
  /\ NoStations \in StationTable /\ UnitsTrue(NoStations)
  /\ Idle \in Held /\ Idle.op = "idle" /\ Idle.units = NoStations /\ Idle.next = 1
<1>1. NoStations \in StationTable /\ UnitsTrue(NoStations)
  BY DEF NoStations, StationTable, UnitsTrue
<1>2. <<>> \in Seq(Reading)
  BY EmptySeq
<1> QED BY <1>1, <1>2 DEF Idle, Held, Ops

LEMMA Units2 == \A g \in Gauges : UnitOf(g) \in Units
BY DEF UnitOf, Units

\* A step of one thread.
LEMMA OneThread ==
  ASSUME thread \in [Threads -> Held], NEW t \in Threads, NEW held \in Held, Becomes(t, held)
  PROVE  /\ thread' \in [Threads -> Held]
         /\ thread'[t] = held
         /\ \A u \in Threads \ {t} : thread'[u] = thread[u]
BY DEF Becomes

\* The rows of a page are rows of the feed.
LEMMA BatchIn ==
  ASSUME feed \in Seq(Reading), NEW page \in Nat \ {0}
  PROVE  Batch((page - 1) * PageSize) \in Seq(Reading)
<1> DEFINE offset == (page - 1) * PageSize
           last == IF offset + PageSize < Len(feed) THEN offset + PageSize ELSE Len(feed)
<1>1. offset \in Nat /\ PageSize \in Nat
  BY IngestAssumption
<1>2. Len(feed) \in Nat /\ last \in Int /\ last <= Len(feed)
  BY <1>1, LenProperties
<1> HIDE DEF offset
<1>3. \A i \in (offset + 1)..last : feed[i] \in Reading
  BY <1>1, <1>2, ElementOfSeq
<1>4. SubSeq(feed, offset + 1, last) \in Seq(Reading)
  <2> HIDE DEF last
  <2> QED BY <1>1, <1>2, <1>3, SubSeqProperties
<1> QED BY <1>4 DEF Batch, offset

\* The row in hand.
LEMMA RowIn ==
  ASSUME GaugeTypeOK, NEW t \in Threads, HasRow(t)
  PROVE  Row(t) \in Reading
<1>1. thread[t].rows \in Seq(Reading) /\ thread[t].next \in 1..Len(thread[t].rows)
  BY LenProperties DEF GaugeTypeOK, Held, HasRow
<1> QED BY <1>1, ElementOfSeq DEF Row

-----------------------------------------------------------------------------
(* One kind of step after the other.                                       *)

\* Steps that leave the table of readings and of stations as they are, and give
\* at most one thread something new to hold.
LEMMA HoldStep ==
  ASSUME GaugeInv, NEW t \in Threads, NEW held \in Held, Becomes(t, held),
         UNCHANGED <<listed, feed, stations, readings>>, faults' \in Nat,
         UnitsTrue(held.units),
         held.op = "mapping" => held.next = 1,
         held.op = "storing" => \A i \in 1..(held.next - 1) : Stored(held.rows[i])
  PROVE  GaugeInv'
<1>1. /\ thread' \in [Threads -> Held]
      /\ thread'[t] = held
      /\ \A u \in Threads \ {t} : thread'[u] = thread[u]
  BY OneThread DEF GaugeInv, GaugeTypeOK
<1>2. GaugeTypeOK'
  BY <1>1 DEF GaugeInv, GaugeTypeOK
<1>3. OneRowEach'
  BY DEF GaugeInv, OneRowEach
<1>4. ASSUME NEW u \in Threads
  PROVE  Passed(u)' /\ UnitsTrue(thread'[u].units)
  BY <1>1 DEF GaugeInv, Passed, Stored
<1>5. UnitsTrue(stations)'
  BY DEF GaugeInv, UnitsTrue
<1> QED BY <1>2, <1>3, <1>4, <1>5 DEF GaugeInv, UnitsTrue

\* A page is fetched, the table is read, the run begins or ends.
LEMMA RunStep ==
  ASSUME GaugeInv, NEW t \in Threads,
         \/ \E n \in Nat : StartReadings(t, n)
         \/ FetchPage(t) \/ LoadStations(t) \/ BadRow(t) \/ EndReadings(t) \/ FetchFails(t)
  PROVE  GaugeInv'
<1> DEFINE s == thread[t]
<1>1. s \in Held /\ faults \in Nat /\ UnitsTrue(s.units)
  BY DEF GaugeInv, GaugeTypeOK
<1>2. CASE \E n \in Nat : StartReadings(t, n)
  <2>1. PICK n \in Nat : StartReadings(t, n)
    BY <1>2
  <2>2. [Idle EXCEPT !.op = "paging", !.pages = n] \in Held
    BY StartHeld DEF Held, Ops
  <2>3. /\ [Idle EXCEPT !.op = "paging", !.pages = n].units = NoStations
        /\ [Idle EXCEPT !.op = "paging", !.pages = n].op = "paging"
    BY DEF Idle
  <2> QED BY <2>1, <2>2, <2>3, <1>1, StartHeld, HoldStep DEF StartReadings
<1>3. CASE FetchPage(t)
  <2> DEFINE batch == Batch((s.next - 1) * PageSize)
             rows == s.rows \o batch
             got == [s EXCEPT !.rows = rows]
             done == [got EXCEPT !.op = "mapping", !.next = 1]
             more == [got EXCEPT !.next = s.next + 1]
  <2>1. rows \in Seq(Reading)
    <3>1. batch \in Seq(Reading)
      BY <1>1, BatchIn DEF Held, GaugeInv, GaugeTypeOK
    <3> HIDE DEF batch
    <3> QED BY <3>1, <1>1, ConcatProperties DEF Held
  <2>4. s.op = "paging" /\ (Becomes(t, done) \/ Becomes(t, more))
        /\ UNCHANGED <<listed, feed, stations, readings, faults>>
    <3> HIDE DEF done, more
    <3> QED BY <1>3 DEF FetchPage, done, more
  <2> HIDE DEF batch, rows
  <2>5. got \in Held /\ got.op = s.op /\ got.units = s.units
    BY <1>1, <2>1 DEF Held
  <2> HIDE DEF got
  <2>2. done \in Held /\ done.op = "mapping" /\ done.next = 1 /\ done.units = s.units
    <3> DEFINE mapped == [got EXCEPT !.op = "mapping"]
    <3>1. mapped \in Held /\ mapped.op = "mapping" /\ mapped.units = s.units
      BY <2>5 DEF Held, Ops
    <3>2. done = [mapped EXCEPT !.next = 1]
      BY DEF done
    <3> HIDE DEF mapped, done
    <3> QED BY <3>1, <3>2 DEF Held
  <2>3. more \in Held /\ more.op = s.op /\ more.units = s.units
    <3>1. s.next + 1 \in Nat \ {0}
      BY <1>1 DEF Held
    <3> QED BY <2>5, <3>1 DEF Held
  <2> HIDE DEF done, more
  <2>6. CASE Becomes(t, done)
    BY <2>6, <2>2, <2>4, <1>1, HoldStep
  <2>7. CASE Becomes(t, more)
    BY <2>7, <2>3, <2>4, <1>1, HoldStep
  <2> QED BY <2>4, <2>6, <2>7
<1>4. CASE LoadStations(t)
  <2> DEFINE held == [s EXCEPT !.op = "storing", !.units = stations]
  <2>1. held \in Held /\ held.op = "storing" /\ held.units = stations /\ held.next = 1
    <3>1. s.next = 1
      BY <1>4 DEF GaugeInv, Passed, LoadStations
    <3> QED BY <1>1, <3>1 DEF Held, Ops, GaugeInv, GaugeTypeOK
  <2>2. UnitsTrue(held.units) /\ \A i \in 1..(held.next - 1) : Stored(held.rows[i])
    BY <2>1 DEF GaugeInv
  <2>3. Becomes(t, held) /\ UNCHANGED <<listed, feed, stations, readings, faults>>
    BY <1>4 DEF LoadStations
  <2> HIDE DEF held
  <2> QED BY <2>1, <2>2, <2>3, <1>1, HoldStep
<1>5. CASE BadRow(t) \/ EndReadings(t) \/ FetchFails(t)
  <2>1. Becomes(t, Idle) /\ UNCHANGED <<listed, feed, stations, readings>> /\ faults' \in Nat
    BY <1>5, <1>1 DEF BadRow, EndReadings, FetchFails
  <2> QED BY <2>1, StartHeld, HoldStep
<1> QED BY <1>2, <1>3, <1>4, <1>5

\* A refresh reads the list and the table, and commits.
LEMMA RefreshStep ==
  ASSUME GaugeInv, NEW t \in Threads, Refresh(t)
  PROVE  GaugeInv'
<1> DEFINE s == thread[t]
<1>1. s \in Held /\ faults \in Nat /\ UnitsTrue(s.units) /\ listed \subseteq Gauges
  BY DEF GaugeInv, GaugeTypeOK
<1>2. CASE FetchList(t)
  <2> DEFINE held == [Idle EXCEPT !.op = "selecting", !.plan = listed]
  <2>1. held \in Held /\ held.op = "selecting" /\ held.units = NoStations
    BY <1>1, StartHeld DEF Held, Ops
  <2>2. Becomes(t, held) /\ UNCHANGED <<listed, feed, stations, readings, faults>>
    BY <1>2 DEF FetchList
  <2> HIDE DEF held
  <2> QED BY <2>1, <2>2, <1>1, StartHeld, HoldStep
<1>3. CASE SelectStations(t)
  <2> DEFINE found == {g \in s.plan : stations[g] # None}
             held == [s EXCEPT !.op = "upserting", !.found = found]
  <2>1. held \in Held /\ held.op = "upserting" /\ held.units = s.units
    <3>1. found \in SUBSET Gauges
      BY <1>1 DEF Held
    <3> HIDE DEF found
    <3> QED BY <1>1, <3>1 DEF Held, Ops
  <2>2. Becomes(t, held) /\ UNCHANGED <<listed, feed, stations, readings, faults>>
    BY <1>3 DEF SelectStations
  <2> HIDE DEF held
  <2> QED BY <2>1, <2>2, <1>1, HoldStep
<1>4. CASE CommitStations(t)
  <2>1. Becomes(t, Idle) /\ UNCHANGED <<listed, feed, readings, faults>>
    BY <1>4 DEF CommitStations
  <2>2. stations' \in StationTable /\ UnitsTrue(stations')
    BY <1>4, <1>1, Units2, IngestAssumption
       DEF CommitStations, GaugeInv, GaugeTypeOK, StationTable, UnitsTrue
  <2>3. /\ thread' \in [Threads -> Held]
        /\ thread'[t] = Idle
        /\ \A u \in Threads \ {t} : thread'[u] = thread[u]
    BY <2>1, StartHeld, OneThread DEF GaugeInv, GaugeTypeOK
  <2>4. GaugeTypeOK'
    BY <2>1, <2>2, <2>3 DEF GaugeInv, GaugeTypeOK
  <2>5. ASSUME NEW u \in Threads
        PROVE  Passed(u)' /\ UnitsTrue(thread'[u].units)
    BY <2>1, <2>3, StartHeld DEF GaugeInv, Passed, Stored
  <2>6. OneRowEach'
    BY <2>1 DEF GaugeInv, OneRowEach
  <2> QED BY <2>2, <2>4, <2>5, <2>6 DEF GaugeInv, UnitsTrue
<1> QED BY <1>2, <1>3, <1>4 DEF Refresh

-----------------------------------------------------------------------------
(* Storing.                                                                *)

\* A unit is copied as the copy of the table has it.
LEMMA ConvertedIs ==
  ASSUME NEW row \in Reading, NEW table \in StationTable
  PROVE  /\ Converted(row, table) \in Level
         /\ Converted(row, table).gauge = row.gauge
         /\ Converted(row, table).at = row.at
         /\ UnitsTrue(table) /\ table[row.gauge] # None
              => Converted(row, table).unit = UnitOf(row.gauge)
<1>1. row.gauge \in Gauges /\ row.at \in Nat
  BY DEF Reading
<1> DEFINE unit == IF table[row.gauge] = "ft" THEN "ft" ELSE "m"
<1>2. unit \in Units
  BY DEF Units
<1>3. Converted(row, table) = [gauge |-> row.gauge, at |-> row.at, unit |-> unit]
  BY DEF Converted
<1>4. UnitsTrue(table) /\ table[row.gauge] # None => unit = UnitOf(row.gauge)
  BY <1>1 DEF UnitsTrue, UnitOf
<1> HIDE DEF unit
<1> QED BY <1>1, <1>2, <1>3, <1>4 DEF Level

\* The table after a row: as it was, or with the one row it lacked.
LEMMA StoreRowIs ==
  ASSUME GaugeTypeOK, NEW t \in Threads, StoreRow(t)
  PROVE  /\ NextRow(t) /\ HasRow(t)
         /\ \E row \in Reading, table \in StationTable :
              /\ row = Row(t) /\ table = thread[t].units
              /\ Stored(row)'
              /\ \/ UNCHANGED readings
                 \/ ~Stored(row) /\ readings' = readings \cup {Converted(row, table)}
<1>1. NextRow(t) /\ HasRow(t) /\ Row(t) \in Reading
  BY RowIn DEF StoreRow, DuplicatePassed
<1>2. PICK row \in Reading : row = Row(t)
  BY <1>1
<1>3. PICK table \in StationTable : table = thread[t].units
  BY DEF GaugeTypeOK, Held
<1>4. CASE DuplicatePassed(t)
  <2>1. UNCHANGED readings /\ Stored(row)
    BY <1>2, <1>4 DEF DuplicatePassed
  <2>2. Stored(row)'
    BY <2>1 DEF Stored
  <2> QED BY <1>1, <1>2, <1>3, <2>1, <2>2
<1>5. CASE ~Stored(row) /\ readings' = readings \cup {Converted(row, table)}
  <2>1. Stored(row)'
    BY <1>5, ConvertedIs DEF Stored
  <2> QED BY <1>1, <1>2, <1>3, <1>5, <2>1
<1> QED BY <1>2, <1>3, <1>4, <1>5 DEF StoreRow

LEMMA StoreRowStep ==
  ASSUME GaugeInv, NEW t \in Threads, StoreRow(t)
  PROVE  GaugeInv'
<1>1. GaugeTypeOK /\ OneRowEach
  BY DEF GaugeInv
<1>2. PICK row \in Reading, table \in StationTable :
        /\ row = Row(t) /\ table = thread[t].units
        /\ Stored(row)'
        /\ \/ UNCHANGED readings
           \/ ~Stored(row) /\ readings' = readings \cup {Converted(row, table)}
  BY <1>1, StoreRowIs
<1>3. /\ NextRow(t) /\ UNCHANGED <<listed, feed, stations, faults>>
      /\ thread[t].op = "storing"
      /\ thread[t] \in Held /\ thread[t].next \in Nat \ {0}
  BY <1>1, StoreRowIs DEF HasRow, StoreRow, GaugeTypeOK, Held
<1>4. PICK held \in Held :
        /\ Becomes(t, held)
        /\ held.op = "storing" /\ held.units = thread[t].units
        /\ held.next = thread[t].next + 1 /\ held.rows = thread[t].rows
  <2> DEFINE s == thread[t]
             held == [s EXCEPT !.next = s.next + 1]
  <2>1. Becomes(t, held)
    BY <1>3 DEF NextRow
  <2>2. s \in Held /\ s.op = "storing" /\ s.next + 1 \in Nat \ {0}
    BY <1>3
  <2>3. /\ held \in Held /\ held.op = "storing" /\ held.units = s.units
        /\ held.next = s.next + 1 /\ held.rows = s.rows
    <3> HIDE DEF s
    <3> QED BY <2>2 DEF Held
  <2> HIDE DEF held
  <2> QED BY <2>1, <2>3
<1>5. /\ thread' \in [Threads -> Held]
      /\ thread'[t] = held
      /\ \A u \in Threads \ {t} : thread'[u] = thread[u]
  BY <1>1, <1>3, <1>4, OneThread DEF GaugeTypeOK
<1>6. GaugeTypeOK'
  BY <1>1, <1>2, <1>3, <1>5, ConvertedIs DEF GaugeTypeOK
<1>7. OneRowEach'
  BY <1>1, <1>2, ConvertedIs DEF OneRowEach, Stored
<1>8. \A r : Stored(r) => Stored(r)'
  BY <1>2 DEF Stored
<1>9. ASSUME NEW u \in Threads
      PROVE  Passed(u)' /\ UnitsTrue(thread'[u].units)
  <2>1. CASE u = t
    <3>1. ASSUME NEW i \in 1..(held.next - 1)
          PROVE  Stored(held.rows[i])'
      <4>1. PICK r : r = held.rows[i]
        OBVIOUS
      <4>2. CASE i = thread[t].next
        BY <4>1, <4>2, <1>2, <1>4 DEF Row
      <4>3. CASE i # thread[t].next
        <5>1. i \in 1..(thread[t].next - 1)
          BY <4>3, <1>3, <1>4
        <5>2. Stored(r)
          BY <4>1, <5>1, <1>3, <1>4 DEF GaugeInv, Passed
        <5> QED BY <4>1, <5>2, <1>8
      <4> QED BY <4>2, <4>3
    <3>2. UnitsTrue(held.units)
      BY <1>4 DEF GaugeInv
    <3> QED BY <2>1, <3>1, <3>2, <1>4, <1>5 DEF Passed
  <2>2. CASE u # t
    BY <2>2, <1>5, <1>8 DEF GaugeInv, Passed
  <2> QED BY <2>1, <2>2
<1> QED BY <1>3, <1>6, <1>7, <1>9 DEF GaugeInv, UnitsTrue

-----------------------------------------------------------------------------
(* The theorems.                                                           *)

LEMMA PublishStep ==
  ASSUME GaugeInv, NEW g \in Gauges, NEW number \in BOOLEAN, Publish(g, number)
  PROVE  GaugeInv'
<1> DEFINE reading == [gauge |-> g, at |-> Len(feed) + 1, number |-> number]
<1>1. feed \in Seq(Reading) /\ reading \in Reading
  BY LenProperties DEF GaugeInv, GaugeTypeOK, Reading
<1> HIDE DEF reading
<1>2. <<reading>> \in Seq(Reading)
  BY <1>1
<1>3. <<reading>> \o feed \in Seq(Reading)
  BY <1>1, <1>2, ConcatProperties
<1>4. /\ feed' \in Seq(Reading)
      /\ UNCHANGED <<listed, stations, readings, thread, faults>>
  BY <1>3 DEF Publish, reading
<1> QED BY <1>4 DEF GaugeInv, GaugeTypeOK, OneRowEach, Passed, Stored, UnitsTrue

LEMMA RestartStep ==
  ASSUME GaugeInv, Restart
  PROVE  GaugeInv'
<1>1. /\ thread' = [t \in Threads |-> Idle] /\ faults' \in Nat
      /\ UNCHANGED <<listed, feed, stations, readings>>
  BY DEF Restart, GaugeInv, GaugeTypeOK
<1>2. GaugeTypeOK'
  BY <1>1, StartHeld DEF GaugeInv, GaugeTypeOK
<1>3. ASSUME NEW t \in Threads
      PROVE  Passed(t)' /\ UnitsTrue(thread'[t].units)
  BY <1>1, StartHeld DEF Passed
<1> QED BY <1>1, <1>2, <1>3 DEF GaugeInv, OneRowEach, UnitsTrue

LEMMA GaugeInit ==
  ASSUME Init
  PROVE  GaugeInv
<1>1. GaugeTypeOK
  BY StartHeld, EmptySeq DEF Init, GaugeTypeOK
<1>2. ASSUME NEW t \in Threads
      PROVE  Passed(t) /\ UnitsTrue(thread[t].units)
  BY StartHeld DEF Init, Passed
<1> QED BY <1>1, <1>2, StartHeld DEF Init, GaugeInv, OneRowEach

\* Whoever steps, StoreRow apart, it is one of the steps above.
LEMMA GaugeSteps ==
  ASSUME Next
  PROVE  \/ \E g \in Gauges, number \in BOOLEAN : Publish(g, number)
         \/ \E t \in Threads : StoreRow(t)
         \/ \E t \in Threads :
              \/ \E n \in Nat : StartReadings(t, n)
              \/ FetchPage(t) \/ LoadStations(t) \/ BadRow(t) \/ EndReadings(t) \/ FetchFails(t)
         \/ \E t \in Threads : Refresh(t)
         \/ Restart
<1>1. Job \in Threads /\ Admins \subseteq Threads /\ Pages \subseteq Nat /\ 1 \in Nat
  BY IngestAssumption DEF Threads
<1> QED BY <1>1 DEF Next, RunReadings

LEMMA GaugeStep ==
  ASSUME GaugeInv, [Next]_vars
  PROVE  GaugeInv'
<1>1. CASE Next
  BY <1>1, GaugeSteps, PublishStep, StoreRowStep, RunStep, RefreshStep, RestartStep
<1>2. CASE UNCHANGED vars
  BY <1>2 DEF vars, GaugeInv, GaugeTypeOK, OneRowEach, Passed, Stored, UnitsTrue
<1> QED BY <1>1, <1>2

LEMMA GaugeInvariant == Spec => []GaugeInv
BY GaugeInit, GaugeStep, PTL DEF Spec

\* Two runs that store the same page at once keep one row per reading, and what a
\* run has passed is in the table, whoever put it there: every row is a commit of
\* its own, and one that is rolled back was there already (fetch_readings).
THEOREM PassedAlwaysStored == Spec => []PassedRowsStored
<1>1. GaugeInv => PassedRowsStored
  BY DEF GaugeInv, OneRowEach, Passed, PassedRowsStored
<1> QED BY <1>1, GaugeInvariant, PTL

\* No step but StoreRow writes to the table of readings.
LEMMA OnlyStoreRowWrites ==
  ASSUME [Next]_vars, \A t \in Threads : ~StoreRow(t)
  PROVE  UNCHANGED readings
<1>1. CASE Next
  BY <1>1, GaugeSteps
     DEF Publish, StartReadings, FetchPage, LoadStations, BadRow, EndReadings, FetchFails,
         Refresh, FetchList, SelectStations, CommitStations, Restart
<1> QED BY <1>1 DEF vars

LEMMA NoNewWrongUnit ==
  ASSUME GaugeInv, [Next]_vars, NEW g \in Gauges,
         \A t \in Threads : thread[t].op = "storing" => thread[t].units[g] # None
  PROVE  WrongUnit(g)' \subseteq WrongUnit(g)
<1>1. CASE \A t \in Threads : ~StoreRow(t)
  BY <1>1, OnlyStoreRowWrites DEF WrongUnit
<1>2. CASE \E t \in Threads : StoreRow(t)
  <2>1. PICK t \in Threads : StoreRow(t)
    BY <1>2
  <2>2. PICK row \in Reading, table \in StationTable :
          /\ row = Row(t) /\ table = thread[t].units
          /\ Stored(row)'
          /\ \/ UNCHANGED readings
             \/ ~Stored(row) /\ readings' = readings \cup {Converted(row, table)}
    BY <2>1, StoreRowIs DEF GaugeInv
  <2>3. UnitsTrue(table) /\ table[g] # None
    BY <2>1, <2>2 DEF GaugeInv, StoreRow, HasRow
  <2>4. Converted(row, table).gauge = g => Converted(row, table).unit = UnitOf(g)
    BY <2>2, <2>3, ConvertedIs
  <2> QED BY <2>2, <2>4 DEF WrongUnit
<1> QED BY <1>1, <1>2

\* Once a gauge is in gauge_stations, and no run is storing with an older copy of
\* the table, no more of its levels are left unconverted, whoever fetches, stores,
\* refreshes or restarts (refresh_stations, fetch_readings).
THEOREM WrongUnitsAlwaysEnd == Spec => WrongUnitsEnd
<1>1. GaugeInv /\ [Next]_vars =>
        [\A g \in Gauges :
           (g \in Named \ NotInHydrostations /\
            \A t \in Threads : thread[t].op = "storing" => thread[t].units[g] # None)
           => WrongUnit(g)' \subseteq WrongUnit(g)]_vars
  BY NoNewWrongUnit
<1> QED BY <1>1, GaugeInvariant, PTL DEF Spec, WrongUnitsEnd
=============================================================================
