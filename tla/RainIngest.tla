----------------------------- MODULE RainIngest -----------------------------
(***************************************************************************)
(* Gridded rain (ingest/rainfall.py): for each populated region in turn a  *)
(* thread asks Open-Meteo for the hours around now, stores them one commit *)
(* per hour, and lets an observation replace a forecast; build_context     *)
(* (risk.py) sums what is stored.  The job and an operator's request may   *)
(* run at once.                                                            *)
(*                                                                         *)
(* An amount is the time its answer was given: an amount for an hour that  *)
(* was still to come then is a forecast, whatever the row says.            *)
(***************************************************************************)
EXTENDS Integers, Sequences

CONSTANTS
  Regions,      \* populated_regions, as a sequence without repetition
  Threads,      \* the scheduler's rainfall job, and POST /admin/ingest/rainfall
  Past, Ahead,  \* past_days and forecast_days, in hours
  LastHour,     \* bound: the clock
  MaxFaults,    \* bound: failed fetches and restarts
  None

Cells == {Regions[i] : i \in DOMAIN Regions}
Hours == (-Past)..(LastHour + Ahead)

\* rainfall_observations: what an hour of a cell holds.
Row == [is_forecast : BOOLEAN, amount : 0..LastHour]

ASSUME RainAssumption ==
  /\ Past \in Nat /\ Ahead \in Nat /\ LastHour \in Nat /\ MaxFaults \in Nat
  /\ Regions \in Seq(Cells) /\ Len(Regions) > 0
  /\ \A i, j \in DOMAIN Regions : Regions[i] = Regions[j] => i = j
  /\ None \notin Row

VARIABLES
  now,      \* utcnow()
  rain,     \* rainfall_observations, at most one row per cell and hour
  thread,   \* what each thread holds
  settled,  \* hours that a fetch which went through was to store as past ones
  faults    \* faults so far

vars == <<now, rain, thread, settled, faults>>

\* `next` is the cell in hand and `hour` the hour of its answer that is stored
\* next; `existing` is the row that was in the way of it.
Holding(op, start, next) ==
  [op |-> op, start |-> start, next |-> next, given |-> 0, hour |-> 0, existing |-> None]
Idle == Holding("idle", 0, 1)

Init ==
  /\ now = 0
  /\ rain = [c \in Cells |-> [h \in Hours |-> None]]
  /\ thread = [t \in Threads |-> Idle]
  /\ settled = [c \in Cells |-> {}]
  /\ faults = 0

Becomes(t, held) == thread' = [thread EXCEPT ![t] = held]

Cell(t) == Regions[thread[t].next]
Hour(t) == thread[t].hour

Tick ==
  /\ now < LastHour
  /\ now' = now + 1
  /\ UNCHANGED <<rain, thread, settled, faults>>

-----------------------------------------------------------------------------
(* fetch_for_regions.                                                      *)

\* `now` is taken once, before the first request.
Start(t) ==
  /\ thread[t].op = "idle"
  /\ Becomes(t, Holding("asking", now, 1))
  /\ UNCHANGED <<now, rain, settled, faults>>

\* The next cell, or the end.
Onward(t) ==
  IF thread[t].next = Len(Regions) THEN Idle
  ELSE Holding("asking", thread[t].start, thread[t].next + 1)

Answered(t) ==
  /\ thread[t].op = "asking"
  /\ Becomes(t, [thread[t] EXCEPT
       !.op = "storing", !.given = now, !.hour = now - Past])
  /\ UNCHANGED <<now, rain, settled, faults>>

\* A cell whose request fails is left out; the others are still asked for.
FetchFails(t) ==
  /\ thread[t].op = "asking"
  /\ faults < MaxFaults
  /\ faults' = faults + 1
  /\ Becomes(t, Onward(t))
  /\ UNCHANGED <<now, rain, settled>>

\* Slip: the clock is read again for each hour that is stored.
FlagAtInsert(t) == Hour(t) > now

Flag(t) == Hour(t) > thread[t].start

NewRow(t) == [is_forecast |-> Flag(t), amount |-> thread[t].given]

NextHour(t) ==
  Becomes(t, [thread[t] EXCEPT !.op = "storing", !.hour = @ + 1, !.existing = None])

\* The hours of the answer have all been stored.
AllStored(t) == Hour(t) > thread[t].given + Ahead

Insert(t) ==
  /\ thread[t].op = "storing" /\ ~AllStored(t)
  /\ \/ /\ rain[Cell(t)][Hour(t)] = None
        /\ rain' = [rain EXCEPT ![Cell(t)][Hour(t)] = NewRow(t)]
        /\ NextHour(t)
     \/ /\ rain[Cell(t)][Hour(t)] # None   \* IntegrityError, and the select after it
        /\ Becomes(t, [thread[t] EXCEPT
             !.op = "conflict", !.existing = rain[Cell(t)][Hour(t)]])
        /\ UNCHANGED rain
  /\ UNCHANGED <<now, settled, faults>>

\* Slip: a stored hour is never written again.
GivesWayNever(existing, row) == FALSE

\* Whether the row that was read gives way to the one that was to be stored.
GivesWay(existing, row) == existing.is_forecast /\ ~row.is_forecast

Resolve(t) ==
  /\ thread[t].op = "conflict"
  /\ rain' = IF GivesWay(thread[t].existing, NewRow(t))
             THEN [rain EXCEPT ![Cell(t)][Hour(t)] = NewRow(t)]
             ELSE rain
  /\ NextHour(t)
  /\ UNCHANGED <<now, settled, faults>>

CellDone(t) ==
  /\ thread[t].op = "storing" /\ AllStored(t)
  /\ settled' = [settled EXCEPT ![Cell(t)] =
                   @ \cup ((thread[t].given - Past)..thread[t].start)]
  /\ Becomes(t, Onward(t))
  /\ UNCHANGED <<now, rain, faults>>

Restart ==
  /\ faults < MaxFaults
  /\ faults' = faults + 1
  /\ thread' = [t \in Threads |-> Idle]
  /\ UNCHANGED <<now, rain, settled>>

Work(t) == Answered(t) \/ Insert(t) \/ Resolve(t) \/ CellDone(t)

Next ==
  \/ Tick
  \/ \E t \in Threads : Start(t) \/ Work(t) \/ FetchFails(t)
  \/ Restart

Spec == Init /\ [][Next]_vars

-----------------------------------------------------------------------------
(* build_context's sums.                                                   *)

\* The hours that rain_sum adds up for the rain of the last n hours: (at - n, at].
\* An hour still marked as a forecast is not among them.
Summed(c, at, n) ==
  {h \in (at - n + 1)..at : h \in Hours /\ rain[c][h] # None /\ ~rain[c][h].is_forecast}

-----------------------------------------------------------------------------
(* Properties.                                                             *)

\* rainfall.py: "Anything ahead of now is a forecast."  No amount that was given
\* before its hour passes for an observation, however long the answer took and
\* whatever another thread stored meanwhile.
ObservedAreMeasured ==
  \A c \in Cells, h \in Hours :
    rain[c][h] # None /\ ~rain[c][h].is_forecast => rain[c][h].amount >= h

\* A fetch that has gone through leaves no hour behind: an hour of its answer that
\* had passed when it started counts as rain that fell from then on, although the
\* hour was a forecast before and another thread may be storing it too.
NoHourLost ==
  \A c \in Cells : settled[c] \subseteq Summed(c, now, LastHour + Past + 1)
=============================================================================
