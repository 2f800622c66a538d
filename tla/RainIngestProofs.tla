-------------------------- MODULE RainIngestProofs --------------------------
(***************************************************************************)
(* For any number of cells, threads, hours and faults: what is stored as   *)
(* an observation was given after its hour, and an hour that a fetch has   *)
(* gone over counts as rain that fell.                                     *)
(*                                                                         *)
(* The invariant that carries both relates a thread to the table: an       *)
(* answer is not older than the run's clock, the hours a thread has passed *)
(* are stored, and the row it met in its way may only have become an       *)
(* observation since.                                                      *)
(***************************************************************************)
EXTENDS RainIngest, TLAPS

Ops == {"idle", "asking", "storing", "conflict"}
Held == [op : Ops, start : 0..LastHour, next : 1..Len(Regions), given : 0..LastHour,
         hour : Int, existing : Row \cup {None}]

RainTypeOK ==
  /\ now \in 0..LastHour
  /\ rain \in [Cells -> [Hours -> Row \cup {None}]]
  /\ thread \in [Threads -> Held]
  /\ settled \in [Cells -> SUBSET Int]

\* The hour is stored, and as an observation.
Known(c, h) == h \in Hours /\ rain[c][h] # None /\ ~rain[c][h].is_forecast

AtWork(t) == thread[t].op \in {"storing", "conflict"}

\* No run and no answer is of a time to come, an answer is not older than the
\* clock of its run, and the hour in hand is one of the answer's.
InOrder(t) ==
  /\ thread[t].op # "idle" => thread[t].start <= now
  /\ AtWork(t) =>
       /\ thread[t].start <= thread[t].given /\ thread[t].given <= now
       /\ Hour(t) >= thread[t].given - Past
  /\ thread[t].op = "conflict" => Hour(t) <= thread[t].given + Ahead

\* What the thread has passed is known.
PassedKnown(t) ==
  AtWork(t) =>
    \A h \in (thread[t].given - Past)..(Hour(t) - 1) :
      h <= thread[t].start => Known(Cell(t), h)

\* The row the thread has met is a row still, and an observation if it was one.
ConflictStands(t) ==
  thread[t].op = "conflict" =>
    /\ thread[t].existing \in Row
    /\ ~thread[t].existing.is_forecast => Known(Cell(t), Hour(t))

Sound(t) == InOrder(t) /\ PassedKnown(t) /\ ConflictStands(t)

SettledKnown ==
  \A c \in Cells : \A h \in settled[c] : -Past <= h /\ h <= now /\ Known(c, h)

RainInv ==
  /\ RainTypeOK
  /\ \A t \in Threads : Sound(t)
  /\ SettledKnown
  /\ ObservedAreMeasured

-----------------------------------------------------------------------------
(* What a step does to the table.                                          *)

\* No step forgets an observation.
Grows == \A c \in Cells, h \in Int : Known(c, h) => Known(c, h)'

LEMMA Bounds ==
  Past \in Nat /\ Ahead \in Nat /\ LastHour \in Nat /\ Len(Regions) \in Nat \ {0}
BY RainAssumption

LEMMA CellIn ==
  ASSUME RainTypeOK, NEW t \in Threads
  PROVE  Cell(t) \in Cells
<1>1. thread[t].next \in 1..Len(Regions)
  BY DEF RainTypeOK, Held
<1> QED BY <1>1, RainAssumption DEF Cell, Cells

LEMMA HoldingHeld ==
  ASSUME NEW op \in Ops, NEW start \in 0..LastHour, NEW next \in 1..Len(Regions)
  PROVE  /\ Holding(op, start, next) \in Held
         /\ Holding(op, start, next).op = op
         /\ Holding(op, start, next).start = start
BY Bounds DEF Holding, Held

LEMMA IdleHeld ==
  /\ Idle \in Held
  /\ Idle.op = "idle"
<1>1. "idle" \in Ops /\ 0 \in 0..LastHour /\ 1 \in 1..Len(Regions)
  BY Bounds DEF Ops
<1> QED BY <1>1, HoldingHeld DEF Idle

\* The rows a thread stores.
LEMMA NewRowIs ==
  ASSUME RainTypeOK, NEW t \in Threads
  PROVE  /\ NewRow(t) \in Row
         /\ NewRow(t) # None
         /\ NewRow(t).is_forecast <=> Hour(t) > thread[t].start
         /\ NewRow(t).amount = thread[t].given
<1>1. thread[t].start \in Int /\ thread[t].given \in 0..LastHour /\ Hour(t) \in Int
  BY Bounds DEF RainTypeOK, Held, Hour
<1>2. Flag(t) \in BOOLEAN
  BY <1>1 DEF Flag
<1>3. NewRow(t) \in Row
  BY <1>1, <1>2 DEF NewRow, Row
<1>4. NewRow(t) # None
  BY <1>3, RainAssumption
<1>5. /\ NewRow(t).is_forecast <=> Hour(t) > thread[t].start
      /\ NewRow(t).amount = thread[t].given
  BY DEF NewRow, Flag
<1> QED BY <1>3, <1>4, <1>5

\* One hour of one cell is written, over nothing or with an observation.
LEMMA Written ==
  ASSUME RainTypeOK, ObservedAreMeasured,
         NEW c \in Cells, NEW h \in Hours, NEW row \in Row,
         rain[c][h] = None \/ ~row.is_forecast,
         ~row.is_forecast => row.amount >= h,
         rain' = [rain EXCEPT ![c][h] = row]
  PROVE  /\ rain' \in [Cells -> [Hours -> Row \cup {None}]]
         /\ rain'[c][h] = row
         /\ Grows
         /\ ObservedAreMeasured'
<1>1. /\ rain \in [Cells -> [Hours -> Row \cup {None}]]
      /\ row # None
  BY RainAssumption DEF RainTypeOK
<1>2. rain' \in [Cells -> [Hours -> Row \cup {None}]]
  BY <1>1
<1>3. rain'[c][h] = row
  BY <1>1
<1>4. \A d \in Cells, g \in Hours : d # c \/ g # h => rain'[d][g] = rain[d][g]
  BY <1>1
<1>5. Grows
  <2> SUFFICES ASSUME NEW d \in Cells, NEW g \in Int, Known(d, g)
               PROVE  Known(d, g)'
    BY DEF Grows
  <2>1. CASE d = c /\ g = h
    BY <2>1, <1>1, <1>3 DEF Known
  <2>2. CASE d # c \/ g # h
    BY <2>2, <1>4 DEF Known
  <2> QED BY <2>1, <2>2
<1>6. ObservedAreMeasured'
  <2> SUFFICES ASSUME NEW d \in Cells, NEW g \in Hours,
                      rain'[d][g] # None, ~rain'[d][g].is_forecast
               PROVE  rain'[d][g].amount >= g
    BY DEF ObservedAreMeasured
  <2>1. CASE d = c /\ g = h
    BY <2>1, <1>3
  <2>2. CASE d # c \/ g # h
    BY <2>2, <1>4 DEF ObservedAreMeasured
  <2> QED BY <2>1, <2>2
<1> QED BY <1>2, <1>3, <1>5, <1>6

LEMMA Kept ==
  ASSUME UNCHANGED rain
  PROVE  Grows /\ (ObservedAreMeasured => ObservedAreMeasured')
BY DEF Grows, Known, ObservedAreMeasured

\* A thread that does nothing stays sound, whatever the others store.
LEMMA OtherSound ==
  ASSUME NEW t \in Threads, RainTypeOK, Sound(t), Grows,
         now' \in Int, now' >= now, thread'[t] = thread[t]
  PROVE  Sound(t)'
<1>1. Cell(t)' = Cell(t) /\ Hour(t)' = Hour(t) /\ AtWork(t)' = AtWork(t)
  BY DEF Cell, Hour, AtWork
<1>2. /\ Cell(t) \in Cells /\ now \in Int /\ Hour(t) \in Int
      /\ thread[t].start \in Int /\ thread[t].given \in Int
  BY CellIn, Bounds DEF RainTypeOK, Held, Hour
<1>3. InOrder(t)'
  BY <1>1, <1>2 DEF Sound, InOrder
<1>4. PassedKnown(t)'
  <2> SUFFICES ASSUME AtWork(t), NEW h \in (thread[t].given - Past)..(Hour(t) - 1),
                      h <= thread[t].start
               PROVE  Known(Cell(t), h)'
    BY <1>1 DEF PassedKnown, Known
  <2>1. h \in Int
    BY <1>2, Bounds
  <2>2. Known(Cell(t), h)
    BY DEF Sound, PassedKnown
  <2> QED BY <2>1, <2>2, <1>1, <1>2 DEF Grows, Known
<1>5. ConflictStands(t)'
  BY <1>1, <1>2 DEF Sound, ConflictStands, Grows, Known
<1> QED BY <1>3, <1>4, <1>5 DEF Sound

\* A thread without an answer has nothing to be sound about but its clock.
LEMMA RestingSound ==
  ASSUME NEW t \in Threads, thread'[t].op \in {"idle", "asking"},
         thread'[t].op = "asking" => thread'[t].start <= now'
  PROVE  Sound(t)'
BY DEF Sound, InOrder, PassedKnown, ConflictStands, AtWork

LEMMA SettledStay ==
  ASSUME RainTypeOK, SettledKnown, Grows, now' \in Int, now' >= now, UNCHANGED settled
  PROVE  SettledKnown'
<1> SUFFICES ASSUME NEW c \in Cells, NEW h \in settled[c]
             PROVE  -Past <= h /\ h <= now' /\ Known(c, h)'
  BY DEF SettledKnown
<1>1. h \in Int /\ now \in Int /\ Past \in Int
  BY Bounds DEF RainTypeOK
<1>2. -Past <= h /\ h <= now /\ Known(c, h)
  BY DEF SettledKnown
<1> QED BY <1>1, <1>2 DEF Grows

-----------------------------------------------------------------------------
(* The initial states, and the steps.                                      *)

LEMMA RainInit ==
  ASSUME Init
  PROVE  RainInv
<1>1. RainTypeOK
  BY IdleHeld, Bounds DEF Init, RainTypeOK
<1>2. \A t \in Threads : Sound(t)
  BY IdleHeld DEF Init, Sound, InOrder, PassedKnown, ConflictStands, AtWork
<1>3. SettledKnown
  BY DEF Init, SettledKnown
<1>4. ObservedAreMeasured
  BY DEF Init, ObservedAreMeasured
<1> QED BY <1>1, <1>2, <1>3, <1>4 DEF RainInv

\* The steps that leave the table and the settled hours alone.
LEMMA QuietStep ==
  ASSUME RainInv, UNCHANGED <<rain, settled>>,
         now' \in 0..LastHour, now' >= now,
         thread' \in [Threads -> Held],
         \A u \in Threads : thread'[u] = thread[u] \/ Sound(u)'
  PROVE  RainInv'
<1>1. Grows /\ ObservedAreMeasured'
  BY Kept DEF RainInv
<1>2. now' \in Int
  BY Bounds
<1>3. RainTypeOK'
  BY DEF RainInv, RainTypeOK
<1>4. \A u \in Threads : Sound(u)'
  BY <1>1, <1>2, OtherSound DEF RainInv
<1>5. SettledKnown'
  BY <1>1, <1>2, SettledStay DEF RainInv
<1> QED BY <1>1, <1>3, <1>4, <1>5 DEF RainInv

LEMMA TickKeeps ==
  ASSUME RainInv, Tick
  PROVE  RainInv'
<1>1. now' \in 0..LastHour /\ now' >= now
  BY Bounds DEF Tick, RainInv, RainTypeOK
<1>2. thread' \in [Threads -> Held] /\ \A u \in Threads : thread'[u] = thread[u]
  BY DEF Tick, RainInv, RainTypeOK
<1>3. UNCHANGED <<rain, settled>>
  BY DEF Tick
<1> QED BY <1>1, <1>2, <1>3, QuietStep

LEMMA NowStays ==
  ASSUME RainInv, UNCHANGED now
  PROVE  now' \in 0..LastHour /\ now' \in Int /\ now' >= now
BY Bounds DEF RainInv, RainTypeOK

\* One thread's step that leaves the table alone.
LEMMA ThreadStep ==
  ASSUME RainInv, NEW t \in Threads, NEW held \in Held, Becomes(t, held),
         UNCHANGED <<now, rain, settled>>, Sound(t)'
  PROVE  RainInv'
<1>1. thread' \in [Threads -> Held] /\ \A u \in Threads \ {t} : thread'[u] = thread[u]
  BY DEF Becomes, RainInv, RainTypeOK
<1> QED BY <1>1, NowStays, QuietStep

LEMMA StartKeeps ==
  ASSUME RainInv, NEW t \in Threads, Start(t)
  PROVE  RainInv'
<1>1. now \in 0..LastHour /\ 1 \in 1..Len(Regions) /\ "asking" \in Ops
  BY Bounds DEF RainInv, RainTypeOK, Ops
<1>2. /\ Holding("asking", now, 1) \in Held
      /\ Holding("asking", now, 1).op = "asking"
      /\ Holding("asking", now, 1).start = now
  BY <1>1, HoldingHeld
<1>3. Becomes(t, Holding("asking", now, 1))
  BY DEF Start
<1>4. thread'[t] = Holding("asking", now, 1)
  BY <1>3 DEF Becomes, RainInv, RainTypeOK
<1>5. now' >= now
  BY NowStays DEF Start
<1>6. Sound(t)'
  BY <1>2, <1>4, <1>5, RestingSound DEF Start
<1> QED BY <1>2, <1>3, <1>6, ThreadStep DEF Start

LEMMA OnwardIs ==
  ASSUME RainTypeOK, NEW t \in Threads
  PROVE  /\ Onward(t) \in Held
         /\ Onward(t).op \in {"idle", "asking"}
         /\ Onward(t).op = "asking" => Onward(t).start = thread[t].start
<1>1. thread[t].next \in 1..Len(Regions) /\ thread[t].start \in 0..LastHour
  BY DEF RainTypeOK, Held
<1>2. CASE thread[t].next = Len(Regions)
  BY <1>2, IdleHeld DEF Onward
<1>3. CASE thread[t].next # Len(Regions)
  <2>1. thread[t].next + 1 \in 1..Len(Regions)
    BY <1>1, <1>3, Bounds
  <2>2. Onward(t) = Holding("asking", thread[t].start, thread[t].next + 1)
    BY <1>3 DEF Onward
  <2>3. "asking" \in Ops
    BY DEF Ops
  <2> QED BY <2>1, <2>2, <2>3, <1>1, HoldingHeld
<1> QED BY <1>2, <1>3

\* Going on to the next cell leaves the thread without an answer.
LEMMA OnwardSound ==
  ASSUME RainInv, NEW t \in Threads, thread[t].op # "idle", Becomes(t, Onward(t)),
         UNCHANGED now
  PROVE  Sound(t)'
<1>1. thread'[t] = Onward(t)
  BY DEF Becomes, RainInv, RainTypeOK
<1>2. thread[t].start <= now'
  BY DEF RainInv, Sound, InOrder
<1> QED BY <1>1, <1>2, OnwardIs, RestingSound DEF RainInv

LEMMA FetchFailsKeeps ==
  ASSUME RainInv, NEW t \in Threads, FetchFails(t)
  PROVE  RainInv'
<1>1. Sound(t)'
  BY OnwardSound DEF FetchFails
<1> QED BY <1>1, OnwardIs, ThreadStep DEF FetchFails, RainInv

LEMMA AnsweredKeeps ==
  ASSUME RainInv, NEW t \in Threads, Answered(t)
  PROVE  RainInv'
<1> DEFINE held == [thread[t] EXCEPT !.op = "storing", !.given = now, !.hour = now - Past]
<1>1. thread[t] \in Held /\ now \in 0..LastHour /\ now - Past \in Int
  BY Bounds DEF RainInv, RainTypeOK
<1>2. held \in Held
  BY <1>1 DEF Held, Ops
<1>3. /\ held.op = "storing" /\ held.given = now /\ held.hour = now - Past
      /\ held.start = thread[t].start
  BY <1>1 DEF Held
<1>4. thread'[t] = held /\ now' = now
  BY DEF Answered, Becomes, RainInv, RainTypeOK
<1>5. thread[t].start <= now
  BY DEF Answered, RainInv, Sound, InOrder
<1>6. Sound(t)'
  BY <1>1, <1>3, <1>4, <1>5, Bounds
  DEF Sound, InOrder, PassedKnown, ConflictStands, AtWork, Hour
<1> QED BY <1>2, <1>6, ThreadStep DEF Answered

\* The thread goes on to the next hour with this one known, or still to come
\* when the run began.
LEMMA NextHourSound ==
  ASSUME RainInv, NEW t \in Threads, AtWork(t), NextHour(t), Grows, UNCHANGED now,
         NEW c \in Cells, NEW i \in Int, c = Cell(t), i = Hour(t),
         i <= thread[t].start => Known(c, i)'
  PROVE  thread' \in [Threads -> Held] /\ Sound(t)'
<1> DEFINE held == [thread[t] EXCEPT !.op = "storing", !.hour = @ + 1, !.existing = None]
<1>1. thread[t] \in Held /\ thread \in [Threads -> Held] /\ Cell(t) \in Cells
  BY CellIn DEF RainInv, RainTypeOK
<1>2. /\ thread[t].start \in Int /\ thread[t].given \in Int /\ Hour(t) \in Int
      /\ thread[t].given - Past \in Int
  BY <1>1, Bounds DEF Held, Hour
<1>3. thread[t].hour + 1 \in Int
  BY <1>2 DEF Hour
<1>4. held \in Held /\ thread' = [thread EXCEPT ![t] = held]
  <2>2. held \in Held
    BY <1>1, <1>3 DEF Held, Ops
  <2>3. thread' = [thread EXCEPT ![t] = held]
    BY DEF NextHour, Becomes
  <2> QED BY <2>2, <2>3
<1>5. /\ thread'[t].op = "storing" /\ thread'[t].hour = Hour(t) + 1
      /\ thread'[t].start = thread[t].start /\ thread'[t].given = thread[t].given
      /\ thread'[t].next = thread[t].next
  BY <1>1, <1>4 DEF Held, Hour
<1>6. Cell(t)' = Cell(t) /\ Hour(t)' = Hour(t) + 1
  BY <1>5 DEF Cell, Hour
<1>7. InOrder(t)'
  BY <1>2, <1>5, <1>6 DEF RainInv, Sound, InOrder, AtWork
<1>8. PassedKnown(t)'
  <2> SUFFICES ASSUME NEW h \in (thread[t].given - Past)..Hour(t), h <= thread[t].start
               PROVE  Known(Cell(t), h)'
    BY <1>2, <1>5, <1>6 DEF PassedKnown, Known
  <2>1. CASE h = Hour(t)
    <3>1. Known(c, i)' /\ h = i /\ Cell(t)' = c
      BY <2>1, <1>6
    <3> QED BY <3>1 DEF Known
  <2>2. CASE h # Hour(t)
    <3>1. h \in (thread[t].given - Past)..(Hour(t) - 1) /\ h \in Int
      BY <2>2, <1>2
    <3>2. Known(Cell(t), h)
      BY <3>1 DEF RainInv, Sound, PassedKnown
    <3> QED BY <3>1, <3>2, <1>1, <1>6 DEF Grows, Known
  <2> QED BY <2>1, <2>2
<1>9. ConflictStands(t)'
  BY <1>5 DEF ConflictStands
<1> QED BY <1>1, <1>4, <1>7, <1>8, <1>9 DEF Sound

\* The hour in hand is one of the table's.
LEMMA HourIn ==
  ASSUME RainInv, NEW t \in Threads, AtWork(t), Hour(t) <= thread[t].given + Ahead
  PROVE  Hour(t) \in Hours
<1>1. Hour(t) \in Int /\ thread[t].given \in 0..LastHour
  BY DEF RainInv, RainTypeOK, Held, Hour
<1>2. Hour(t) >= thread[t].given - Past
  BY DEF RainInv, Sound, InOrder
<1> QED BY <1>1, <1>2, Bounds DEF Hours

\* A step of one thread that may store a row and takes it to the next hour.
LEMMA HourStep ==
  ASSUME RainInv, NEW t \in Threads, AtWork(t), NextHour(t), Grows,
         UNCHANGED <<now, settled>>,
         rain' \in [Cells -> [Hours -> Row \cup {None}]], ObservedAreMeasured',
         NEW c \in Cells, NEW i \in Int, c = Cell(t), i = Hour(t),
         i <= thread[t].start => Known(c, i)'
  PROVE  RainInv'
<1>1. thread' \in [Threads -> Held] /\ Sound(t)'
  BY NextHourSound
<1>2. \A u \in Threads \ {t} : thread'[u] = thread[u]
  BY DEF NextHour, Becomes, RainInv, RainTypeOK
<1>3. \A u \in Threads : Sound(u)'
  BY <1>1, <1>2, NowStays, OtherSound DEF RainInv
<1>4. SettledKnown'
  BY NowStays, SettledStay DEF RainInv
<1>5. RainTypeOK'
  BY <1>1 DEF RainInv, RainTypeOK
<1> QED BY <1>3, <1>4, <1>5 DEF RainInv

\* What a thread stores as an observation was given after its hour.
LEMMA NewRowMeasured ==
  ASSUME RainInv, NEW t \in Threads, AtWork(t), ~NewRow(t).is_forecast
  PROVE  NewRow(t).amount >= Hour(t)
<1>1. Hour(t) \in Int /\ thread[t].start \in Int /\ thread[t].given \in Int
  BY Bounds DEF RainInv, RainTypeOK, Held, Hour
<1>2. thread[t].start <= thread[t].given
  BY DEF RainInv, Sound, InOrder
<1>3. Hour(t) <= thread[t].start
  BY <1>1, NewRowIs DEF RainInv
<1> QED BY <1>1, <1>2, <1>3, NewRowIs DEF RainInv

LEMMA InsertKeeps ==
  ASSUME RainInv, NEW t \in Threads, Insert(t)
  PROVE  RainInv'
<1>1. /\ thread[t].op = "storing" /\ AtWork(t)
      /\ Hour(t) \in Int /\ thread[t].start \in Int /\ thread[t].given \in Int
      /\ Cell(t) \in Cells
  BY CellIn, Bounds DEF Insert, AtWork, RainInv, RainTypeOK, Held, Hour
<1>2. Hour(t) <= thread[t].given + Ahead
  BY <1>1, Bounds DEF Insert, AllStored
<1>3. Hour(t) \in Hours
  BY <1>1, <1>2, HourIn
<1>4. CASE rain[Cell(t)][Hour(t)] = None
  <2>1. /\ rain' = [rain EXCEPT ![Cell(t)][Hour(t)] = NewRow(t)]
        /\ NextHour(t) /\ UNCHANGED <<now, settled>>
    BY <1>4 DEF Insert
  <2>2. /\ rain' \in [Cells -> [Hours -> Row \cup {None}]]
        /\ rain'[Cell(t)][Hour(t)] = NewRow(t)
        /\ Grows /\ ObservedAreMeasured'
    BY <1>1, <1>3, <1>4, <2>1, NewRowIs, NewRowMeasured, Written DEF RainInv
  <2>3. PICK c \in Cells, i \in Hours : c = Cell(t) /\ i = Hour(t) /\ i \in Int
    BY <1>1, <1>3
  <2>4. i <= thread[t].start => rain'[c][i] # None /\ ~rain'[c][i].is_forecast
    BY <1>1, <2>2, <2>3, NewRowIs DEF RainInv
  <2>5. i <= thread[t].start => Known(c, i)'
    BY <2>3, <2>4 DEF Known
  <2> QED BY <1>1, <2>1, <2>2, <2>3, <2>5, HourStep
<1>5. CASE rain[Cell(t)][Hour(t)] # None
  <2> DEFINE held == [thread[t] EXCEPT !.op = "conflict", !.existing = rain[Cell(t)][Hour(t)]]
  <2>1. thread[t] \in Held /\ rain[Cell(t)][Hour(t)] \in Row
    BY <1>1, <1>3, <1>5 DEF RainInv, RainTypeOK
  <2>2. held \in Held
    BY <2>1 DEF Held, Ops
  <2>3. /\ held.op = "conflict" /\ held.existing = rain[Cell(t)][Hour(t)]
        /\ held.start = thread[t].start /\ held.given = thread[t].given
        /\ held.hour = thread[t].hour /\ held.next = thread[t].next
    BY <2>1 DEF Held
  <2>4. Becomes(t, held) /\ UNCHANGED <<now, rain, settled>>
    BY <1>5 DEF Insert
  <2> HIDE DEF held
  <2>5. thread'[t] = held
    BY <2>4 DEF Becomes, RainInv, RainTypeOK
  <2>6. Cell(t)' = Cell(t) /\ Hour(t)' = Hour(t)
    BY <2>3, <2>5 DEF Cell, Hour
  <2>7. InOrder(t)'
    BY <1>1, <1>2, <2>3, <2>4, <2>5, <2>6 DEF RainInv, Sound, InOrder, AtWork
  <2>8. PassedKnown(t)'
    BY <1>1, <2>3, <2>4, <2>5, <2>6 DEF RainInv, Sound, PassedKnown, Known
  <2>9. ConflictStands(t)'
    BY <1>3, <1>5, <2>1, <2>3, <2>4, <2>5, <2>6 DEF ConflictStands, Known
  <2> QED BY <2>2, <2>4, <2>7, <2>8, <2>9, ThreadStep DEF Sound
<1> QED BY <1>4, <1>5

LEMMA ResolveKeeps ==
  ASSUME RainInv, NEW t \in Threads, Resolve(t)
  PROVE  RainInv'
<1>1. /\ thread[t].op = "conflict" /\ AtWork(t)
      /\ Hour(t) \in Int /\ thread[t].start \in Int /\ thread[t].given \in Int
      /\ Cell(t) \in Cells
  BY CellIn, Bounds DEF Resolve, AtWork, RainInv, RainTypeOK, Held, Hour
<1>2. Hour(t) \in Hours
  BY <1>1, HourIn DEF RainInv, Sound, InOrder
<1>3. NextHour(t) /\ UNCHANGED <<now, settled>>
  BY DEF Resolve
<1>4. PICK c \in Cells, i \in Hours : c = Cell(t) /\ i = Hour(t) /\ i \in Int
  BY <1>1, <1>2
<1>5. CASE GivesWay(thread[t].existing, NewRow(t))
  <2>1. rain' = [rain EXCEPT ![c][i] = NewRow(t)]
    BY <1>4, <1>5 DEF Resolve
  <2>2. ~NewRow(t).is_forecast /\ NewRow(t) \in Row /\ NewRow(t) # None
    BY <1>5, NewRowIs DEF GivesWay, RainInv
  <2>3. NewRow(t).amount >= i
    BY <1>1, <1>4, <2>2, NewRowMeasured
  <2>4. /\ rain' \in [Cells -> [Hours -> Row \cup {None}]]
        /\ rain'[c][i] = NewRow(t)
        /\ Grows /\ ObservedAreMeasured'
    BY <1>4, <2>1, <2>2, <2>3, Written DEF RainInv
  <2>5. Known(c, i)'
    BY <1>4, <2>2, <2>4 DEF Known
  <2> QED BY <1>1, <1>3, <1>4, <2>4, <2>5, HourStep
<1>6. CASE ~GivesWay(thread[t].existing, NewRow(t))
  <2>1. UNCHANGED rain
    BY <1>6 DEF Resolve
  <2>2. Grows /\ ObservedAreMeasured' /\ rain' \in [Cells -> [Hours -> Row \cup {None}]]
    BY <2>1, Kept DEF RainInv, RainTypeOK
  <2>3. i <= thread[t].start => ~NewRow(t).is_forecast
    BY <1>1, <1>4, NewRowIs DEF RainInv
  <2>4. ~thread[t].existing.is_forecast => Known(c, i)
    BY <1>1, <1>4 DEF RainInv, Sound, ConflictStands
  <2>5. i <= thread[t].start => Known(c, i)
    BY <1>6, <2>3, <2>4 DEF GivesWay
  <2>6. i <= thread[t].start => Known(c, i)'
    BY <1>4, <2>2, <2>5 DEF Grows
  <2> QED BY <1>1, <1>3, <1>4, <2>2, <2>6, HourStep
<1> QED BY <1>5, <1>6

LEMMA CellDoneKeeps ==
  ASSUME RainInv, NEW t \in Threads, CellDone(t)
  PROVE  RainInv'
<1> DEFINE c == Cell(t)
           gone == (thread[t].given - Past)..thread[t].start
<1>1. /\ AtWork(t) /\ thread[t].op # "idle" /\ c \in Cells
      /\ Hour(t) \in Int /\ thread[t].start \in Int /\ thread[t].given \in 0..LastHour
      /\ now \in Int
  BY CellIn, Bounds DEF CellDone, AtWork, RainInv, RainTypeOK, Held, Hour
<1>2. /\ UNCHANGED <<now, rain>> /\ Becomes(t, Onward(t))
      /\ settled' = [settled EXCEPT ![c] = @ \cup gone]
  BY DEF CellDone
<1>3. /\ thread[t].start <= thread[t].given /\ thread[t].given <= now
      /\ Hour(t) > thread[t].given + Ahead
  BY <1>1 DEF CellDone, AllStored, RainInv, Sound, InOrder
<1>4. \A h \in gone : h \in Int /\ -Past <= h /\ h <= now /\ Known(c, h)
  <2> SUFFICES ASSUME NEW h \in gone
               PROVE  h \in Int /\ -Past <= h /\ h <= now /\ Known(c, h)
    OBVIOUS
  <2>1. h \in Int /\ -Past <= h /\ h <= now /\ h <= thread[t].start
    BY <1>1, <1>3, Bounds
  <2>2. h \in (thread[t].given - Past)..(Hour(t) - 1)
    BY <1>1, <1>3, Bounds
  <2>3. Known(c, h)
    BY <1>1, <2>1, <2>2 DEF RainInv, Sound, PassedKnown
  <2> QED BY <2>1, <2>3
<1> HIDE DEF c, gone
<1>5. Grows /\ ObservedAreMeasured' /\ now' \in Int /\ now' >= now
  BY <1>2, Kept, NowStays DEF RainInv
<1>6. /\ settled \in [Cells -> SUBSET Int]
      /\ gone \in SUBSET Int
  BY <1>4 DEF RainInv, RainTypeOK
<1>7. settled' \in [Cells -> SUBSET Int]
  BY <1>1, <1>2, <1>6
<1>8. SettledKnown'
  <2> SUFFICES ASSUME NEW d \in Cells, NEW h \in settled'[d]
               PROVE  -Past <= h /\ h <= now' /\ Known(d, h)'
    BY DEF SettledKnown
  <2>1. h \in settled[d] \/ (d = c /\ h \in gone)
    BY <1>1, <1>2, <1>6
  <2>2. -Past <= h /\ h <= now /\ Known(d, h)
    BY <2>1, <1>4 DEF RainInv, SettledKnown
  <2> QED BY <2>2, <1>2 DEF Known
<1>9. thread' \in [Threads -> Held] /\ \A u \in Threads \ {t} : thread'[u] = thread[u]
  BY <1>2, OnwardIs DEF Becomes, RainInv, RainTypeOK
<1>10. Sound(t)'
  BY <1>1, <1>2, OnwardSound
<1>11. \A u \in Threads : Sound(u)'
  BY <1>5, <1>9, <1>10, OtherSound DEF RainInv
<1>12. RainTypeOK'
  BY <1>2, <1>7, <1>9 DEF RainInv, RainTypeOK
<1> QED BY <1>5, <1>8, <1>11, <1>12 DEF RainInv

LEMMA RestartKeeps ==
  ASSUME RainInv, Restart
  PROVE  RainInv'
<1>1. UNCHANGED <<now, rain, settled>> /\ thread' = [t \in Threads |-> Idle]
  BY DEF Restart
<1>2. thread' \in [Threads -> Held]
  BY <1>1, IdleHeld
<1>3. \A u \in Threads : Sound(u)'
  BY <1>1, IdleHeld, RestingSound
<1> QED BY <1>1, <1>2, <1>3, NowStays, QuietStep

LEMMA RainStep ==
  ASSUME RainInv, [Next]_vars
  PROVE  RainInv'
<1>1. CASE Tick
  BY <1>1, TickKeeps
<1>2. ASSUME NEW t \in Threads, Start(t)
      PROVE  RainInv'
  BY <1>2, StartKeeps
<1>3. ASSUME NEW t \in Threads, Work(t)
      PROVE  RainInv'
  BY <1>3, AnsweredKeeps, InsertKeeps, ResolveKeeps, CellDoneKeeps DEF Work
<1>4. ASSUME NEW t \in Threads, FetchFails(t)
      PROVE  RainInv'
  BY <1>4, FetchFailsKeeps
<1>5. CASE Restart
  BY <1>5, RestartKeeps
<1>6. CASE UNCHANGED vars
  <2>1. UNCHANGED <<now, rain, settled, thread>>
    BY <1>6 DEF vars
  <2>2. thread' \in [Threads -> Held] /\ \A u \in Threads : thread'[u] = thread[u]
    BY <2>1 DEF RainInv, RainTypeOK
  <2> QED BY <2>1, <2>2, NowStays, QuietStep
<1> QED BY <1>1, <1>2, <1>3, <1>4, <1>5, <1>6 DEF Next

THEOREM RainInvariant == Spec => []RainInv
<1>1. Init => RainInv
  BY RainInit
<1>2. RainInv /\ [Next]_vars => RainInv'
  BY RainStep
<1> QED BY <1>1, <1>2, PTL DEF Spec

-----------------------------------------------------------------------------
(* What follows.                                                           *)

\* rainfall.py: "Anything ahead of now is a forecast."  No amount given before its
\* hour is ever taken for an observation, for any number of cells and threads.
THEOREM ObservedAlwaysMeasured == Spec => []ObservedAreMeasured
<1>1. RainInv => ObservedAreMeasured
  BY DEF RainInv
<1> QED BY <1>1, RainInvariant, PTL

\* The hours that a fetch has gone over are among those build_context sums.
LEMMA SettledSummed ==
  ASSUME RainInv
  PROVE  NoHourLost
<1> SUFFICES ASSUME NEW c \in Cells, NEW h \in settled[c]
             PROVE  h \in Summed(c, now, LastHour + Past + 1)
  BY DEF NoHourLost
<1>1. h \in Int /\ now \in 0..LastHour
  BY DEF RainInv, RainTypeOK
<1>2. -Past <= h /\ h <= now /\ Known(c, h)
  BY DEF RainInv, SettledKnown
<1>3. h \in (now - (LastHour + Past + 1) + 1)..now
  BY <1>1, <1>2, Bounds
<1> QED BY <1>2, <1>3 DEF Summed, Known

\* No hour that a fetch has gone over is lost again, whichever thread stored it
\* and whether it was a forecast before.
THEOREM NoHourEverLost == Spec => []NoHourLost
<1>1. RainInv => NoHourLost
  BY SettledSummed
<1> QED BY <1>1, RainInvariant, PTL
=============================================================================
