--------------------------- MODULE PipelineProofs ---------------------------
(***************************************************************************)
(* The offline pipeline, for hours of any length and data of any size.     *)
(* First, what the figures of the evaluation and of the experiment say of  *)
(* any course of floods and snapshots.  Then the gauge archive: what its   *)
(* runs may add to it, and what the labels and features computed over it   *)
(* rest on.                                                                *)
(***************************************************************************)
EXTENDS Evaluation, Dataset, GaugeFeatures, FiniteSetTheorems, SequenceTheorems, TLAPS

\* A course of slots.
CourseOK == slots \in Seq([flood : BOOLEAN, severity : Severities \cup {None}])

LEMMA CourseAlways == Spec => []CourseOK
<1>1. Init => CourseOK
  BY DEF Init, CourseOK
<1>2. CourseOK /\ [Next]_slots => CourseOK'
  <2> SUFFICES ASSUME CourseOK, [Next]_slots PROVE CourseOK'
    OBVIOUS
  <2>1. CASE UNCHANGED slots
    BY <2>1 DEF CourseOK
  <2>2. CASE \E flood \in BOOLEAN, severity \in Severities \cup {None} : Slot(flood, severity)
    BY <2>2, AppendProperties DEF Slot, CourseOK
  <2> QED
    BY <2>1, <2>2 DEF Next, Done
<1> QED
  BY <1>1, <1>2, PTL DEF Spec

-----------------------------------------------------------------------------
(* Hours and slots.                                                        *)

\* Of some positions there is a first.
LEMMA FirstOf ==
  ASSUME NEW S, S \subseteq Nat, S # {}
  PROVE  Min(S) \in S /\ \A x \in S : Min(S) <= x
<1> DEFINE R == OpToRel(<, Nat)
<1>1. IsWellFoundedOn(R, Nat)
  BY NatLessThanWellFounded
<1>2. PICK m \in S : \A x \in S : ~(<<x, m>> \in R)
  <2> HIDE DEF R
  <2> QED
    BY <1>1, WFMin
<1>3. \A x \in S : ~(x < m)
  BY <1>2 DEF OpToRel
<1> HIDE DEF R
<1>4. \A x \in S : m <= x
  BY <1>3
<1> QED
  BY <1>4 DEF Min

LEMMA SmallerOf ==
  ASSUME NEW a \in Int, NEW b \in Int
  PROVE  Min({a, b}) = IF a <= b THEN a ELSE b
<1>1. PICK m \in {a, b} : m = (IF a <= b THEN a ELSE b) /\ \A x \in {a, b} : m <= x
  OBVIOUS
<1>2. \A n \in {a, b} : (\A x \in {a, b} : n <= x) => n = m
  BY <1>1
<1> QED
  BY <1>1, <1>2 DEF Min

\* An hour begins at most SlotsPerHour - 1 slots before each of its slots.
LEMMA HourOfSlot ==
  ASSUME NEW i \in Nat \ {0}
  PROVE  /\ HourStart(i) \in Nat \ {0}
         /\ HourStart(i) <= i /\ i - HourStart(i) \in 0..(SlotsPerHour - 1)
<1>1. SlotsPerHour \in Nat /\ SlotsPerHour > 0
  BY EvaluationAssumption
<1>2. PICK x \in Nat : x = i - 1
  OBVIOUS
<1>3. PICK q \in Int : q = x \div SlotsPerHour /\ q * SlotsPerHour <= x /\ x < q * SlotsPerHour + SlotsPerHour
  BY <1>1
<1>4. q >= 0
  BY <1>1, <1>3
<1>5. PICK z \in Nat : z = q * SlotsPerHour
  BY <1>1, <1>4
<1>6. HourStart(i) = z + 1
  BY <1>2, <1>3, <1>5 DEF HourStart
<1> QED
  BY <1>1, <1>2, <1>3, <1>5, <1>6

LEMMA HoursInOrder ==
  ASSUME NEW i \in Nat \ {0}, NEW j \in Nat \ {0}, i <= j
  PROVE  HourStart(i) <= HourStart(j)
<1>1. SlotsPerHour \in Nat /\ SlotsPerHour > 0
  BY EvaluationAssumption
<1>2. PICK x \in Int, y \in Int : x = i - 1 /\ y = j - 1 /\ x <= y
  OBVIOUS
<1>3. PICK q \in Int, r \in Int : q = x \div SlotsPerHour /\ r = y \div SlotsPerHour /\ q <= r
  BY <1>1, <1>2
<1>4. q * SlotsPerHour <= r * SlotsPerHour
  BY <1>1, <1>3
<1> QED
  BY <1>1, <1>2, <1>3, <1>4 DEF HourStart

\* The slots with a snapshot, and the severities of those.
LEMMA SnapshotTypes ==
  ASSUME CourseOK, NEW since
  PROVE  /\ DOMAIN slots = 1..Len(slots) /\ Len(slots) \in Nat
         /\ Snapshots(since) \subseteq 1..Len(slots)
         /\ \A i \in Snapshots(since) : slots[i].severity \in Nat
<1>1. DOMAIN slots = 1..Len(slots) /\ Len(slots) \in Nat
  BY DEF CourseOK
<1>2. \A i \in DOMAIN slots : slots[i].severity \in Severities \cup {None}
  <2>1. \A i \in 1..Len(slots) : slots[i] \in [flood : BOOLEAN, severity : Severities \cup {None}]
    BY ElementOfSeq DEF CourseOK
  <2> QED
    BY <1>1, <2>1
<1> QED
  BY <1>1, <1>2, EvaluationAssumption DEF Snapshots

\* A warned hour and a snapshot in it.
LEMMA WarnedTypes ==
  ASSUME CourseOK, NEW since, NEW floor
  PROVE  /\ WarnedHours(since, floor) \subseteq RegionHours(since)
         /\ RegionHours(since) \subseteq 1..Len(slots)
<1>1. \A i \in Snapshots(since) : HourStart(i) \in 1..Len(slots)
  BY SnapshotTypes, HourOfSlot
<1> QED
  BY <1>1 DEF WarnedHours, RegionHours

LEMMA HitTypes ==
  ASSUME CourseOK, NEW since, NEW floor, NEW onset, Hits(since, floor, onset) # {}
  PROVE  /\ Hits(since, floor, onset) \subseteq Nat
         /\ Min(Hits(since, floor, onset)) \in Hits(since, floor, onset)
         /\ \A h \in Hits(since, floor, onset) : Min(Hits(since, floor, onset)) <= h
<1>1. Hits(since, floor, onset) \subseteq Nat
  BY WarnedTypes, SnapshotTypes DEF Hits
<1> QED
  BY <1>1, FirstOf

LEMMA OnsetTypes ==
  ASSUME CourseOK, NEW since
  PROVE  Judged(since) \subseteq Nat \ {0}
BY SnapshotTypes DEF Judged, Events, Onsets

-----------------------------------------------------------------------------
(* Lead times and floors.                                                  *)

\* The lead time that is reported is that of the first warning of the lookback,
\* rounded up by less than an hour, for hours of any length and every window and
\* floor (metrics_for_engine).
THEOREM LeadIsAlwaysWithinAnHour == Spec => []LeadWithinAnHour
<1>1. ASSUME CourseOK, NEW since \in Sinces, NEW floor \in Floors,
             NEW onset \in Detected(since, floor)
      PROVE  \E i \in Snapshots(since) :
               /\ slots[i].severity >= floor
               /\ \A j \in Snapshots(since) :
                    slots[j].severity >= floor /\ HourStart(j) >= onset - Lookback * SlotsPerHour => i <= j
               /\ Lead(since, floor, onset) - (onset - i) \in 0..(SlotsPerHour - 1)
  <2> DEFINE hits == Hits(since, floor, onset)
             warnings == {j \in Snapshots(since) : slots[j].severity >= floor
                                                   /\ HourStart(j) >= onset - Lookback * SlotsPerHour}
  <2>0. onset \in Nat /\ Lookback * SlotsPerHour \in Nat
    BY <1>1, OnsetTypes, EvaluationAssumption, ExperimentAssumption DEF Detected
  <2>1. hits # {}
    BY <1>1 DEF Detected
  <2>2. /\ hits \subseteq Nat /\ Min(hits) \in hits /\ \A h \in hits : Min(hits) <= h
    BY <1>1, <2>1, HitTypes
  <2>3. PICK j \in Snapshots(since) : /\ slots[j].severity >= floor /\ HourStart(j) = Min(hits)
                                      /\ HourStart(j) >= onset - Lookback * SlotsPerHour
                                      /\ HourStart(j) <= onset
    BY <2>2 DEF Hits, WarnedHours
  <2>4. warnings \subseteq Nat \ {0} /\ j \in warnings
    BY <1>1, <2>3, SnapshotTypes
  <2>5. PICK i \in warnings : \A k \in warnings : i <= k
    <3> HIDE DEF warnings
    <3> QED
      BY <2>4, FirstOf
  <2>6. HourStart(i) = Min(hits)
    <3>1. HourStart(i) <= HourStart(j)
      <4>1. i \in Nat \ {0} /\ j \in Nat \ {0} /\ i <= j
        BY <2>4, <2>5
      <4> QED
        BY <4>1, HoursInOrder
    <3>2. HourStart(i) \in Nat /\ HourStart(j) \in Nat
      BY <2>4, <2>5, HourOfSlot
    <3>3. HourStart(i) \in hits
      BY <2>0, <2>3, <2>5, <3>1, <3>2 DEF Hits, WarnedHours
    <3> HIDE DEF hits
    <3> QED
      BY <2>2, <2>3, <3>1, <3>2, <3>3
  <2>7. Lead(since, floor, onset) = onset - HourStart(i)
    BY <2>6 DEF Lead
  <2>8. HourStart(i) \in Nat /\ i \in Nat /\ i - HourStart(i) \in 0..(SlotsPerHour - 1)
    BY <2>4, HourOfSlot
  <2>9. Lead(since, floor, onset) - (onset - i) \in 0..(SlotsPerHour - 1)
    BY <2>0, <2>7, <2>8
  <2> QED
    BY <2>5, <2>9
<1>2. CourseOK => LeadWithinAnHour
  BY <1>1 DEF LeadWithinAnHour
<1> QED
  BY <1>2, CourseAlways, PTL

\* A milder floor warns of more hours.
LEMMA MilderWarnsMore ==
  ASSUME CourseOK, NEW since, NEW mild \in Nat, NEW strict \in Nat, mild < strict
  PROVE  WarnedHours(since, strict) \subseteq WarnedHours(since, mild)
<1>1. \A i \in Snapshots(since) : slots[i].severity >= strict => slots[i].severity >= mild
  BY SnapshotTypes
<1> QED
  BY <1>1 DEF WarnedHours

\* A milder floor misses no flooded hour and no event that a stricter one has,
\* and gives no shorter lead, whatever the course (metrics_for_engine, compare).
THEOREM MilderFloorAlwaysCatchesMore == Spec => []MilderFloorCatchesMore
<1>1. ASSUME CourseOK, NEW since \in Sinces, NEW mild \in Floors, NEW strict \in Floors,
             mild < strict
      PROVE  /\ Confusion(since, mild).tp >= Confusion(since, strict).tp
             /\ Confusion(since, mild).fn <= Confusion(since, strict).fn
             /\ \A onset \in Detected(since, strict) :
                  /\ onset \in Detected(since, mild)
                  /\ Lead(since, mild, onset) >= Lead(since, strict, onset)
  <2>1. WarnedHours(since, strict) \subseteq WarnedHours(since, mild)
    BY <1>1, MilderWarnsMore, EvaluationAssumption DEF Floors
  <2> DEFINE Wet(hours) == {h \in hours : IsFlood(h)}
             Calm(floor) == RegionHours(since) \ WarnedHours(since, floor)
  <2>2. IsFiniteSet(RegionHours(since))
    <3>1. RegionHours(since) \subseteq 1..Len(slots) /\ Len(slots) \in Int
      BY <1>1, WarnedTypes, SnapshotTypes
    <3>2. IsFiniteSet(1..Len(slots))
      BY <3>1, FS_Interval
    <3> QED
      BY <3>1, <3>2, FS_Subset
  <2>3. ASSUME NEW S, NEW T, S \subseteq T, T \subseteq RegionHours(since)
        PROVE  /\ Cardinality(Wet(S)) \in Nat /\ Cardinality(Wet(T)) \in Nat
               /\ Cardinality(Wet(S)) <= Cardinality(Wet(T))
    <3>1. Wet(S) \subseteq Wet(T) /\ Wet(T) \subseteq RegionHours(since)
      BY <2>3
    <3>2. IsFiniteSet(Wet(T)) /\ IsFiniteSet(Wet(S))
      BY <2>2, <3>1, FS_Subset
    <3> QED
      BY <3>1, <3>2, FS_Subset, FS_CardinalityType
  <2>4. /\ Confusion(since, mild).tp = Cardinality(Wet(WarnedHours(since, mild)))
        /\ Confusion(since, strict).tp = Cardinality(Wet(WarnedHours(since, strict)))
        /\ Confusion(since, mild).fn = Cardinality(Wet(Calm(mild)))
        /\ Confusion(since, strict).fn = Cardinality(Wet(Calm(strict)))
    <3> DEFINE flooded == {h \in RegionHours(since) : IsFlood(h)}
    <3>1. /\ WarnedHours(since, mild) \cap flooded = Wet(WarnedHours(since, mild))
          /\ WarnedHours(since, strict) \cap flooded = Wet(WarnedHours(since, strict))
          /\ Calm(mild) \cap flooded = Wet(Calm(mild))
          /\ Calm(strict) \cap flooded = Wet(Calm(strict))
      BY <1>1, WarnedTypes
    <3> HIDE DEF Wet
    <3> QED
      BY <3>1 DEF Confusion
  <2>5. /\ WarnedHours(since, mild) \subseteq RegionHours(since)
        /\ Calm(mild) \subseteq Calm(strict) /\ Calm(strict) \subseteq RegionHours(since)
    BY <1>1, <2>1, WarnedTypes
  <2>6. ASSUME NEW onset \in Detected(since, strict)
        PROVE  /\ onset \in Detected(since, mild)
               /\ Lead(since, mild, onset) >= Lead(since, strict, onset)
    <3> DEFINE some == Hits(since, strict, onset)
               more == Hits(since, mild, onset)
    <3>1. some \subseteq more /\ some # {}
      BY <2>1, <2>6 DEF Hits, Detected
    <3>2. /\ Min(some) \in some /\ more \subseteq Nat
          /\ Min(more) \in more /\ \A h \in more : Min(more) <= h
      BY <1>1, <3>1, HitTypes
    <3>3. onset \in Nat
      BY <1>1, <2>6, OnsetTypes DEF Detected
    <3>4. Min(more) <= Min(some) /\ Min(some) \in Nat /\ Min(more) \in Nat
      <4> HIDE DEF some, more
      <4> QED
        BY <3>1, <3>2
    <3>5. /\ Lead(since, mild, onset) = onset - Min(more)
          /\ Lead(since, strict, onset) = onset - Min(some)
      BY DEF Lead
    <3>6. Lead(since, mild, onset) >= Lead(since, strict, onset)
      <4> HIDE DEF some, more
      <4> QED
        BY <3>3, <3>4, <3>5
    <3> QED
      BY <2>6, <3>1, <3>6 DEF Detected
  <2>7. /\ Confusion(since, mild).tp >= Confusion(since, strict).tp
        /\ Confusion(since, mild).fn <= Confusion(since, strict).fn
    <3> HIDE DEF Wet, Calm
    <3>1. /\ Cardinality(Wet(WarnedHours(since, strict))) <= Cardinality(Wet(WarnedHours(since, mild)))
          /\ Cardinality(Wet(WarnedHours(since, strict))) \in Nat
          /\ Cardinality(Wet(WarnedHours(since, mild))) \in Nat
      BY <2>1, <2>3, <2>5
    <3>2. Cardinality(Wet(Calm(mild))) <= Cardinality(Wet(Calm(strict)))
      BY <2>3, <2>5
    <3> QED
      BY <2>4, <3>1, <3>2
  <2> QED
    BY <2>6, <2>7
<1>2. CourseOK => MilderFloorCatchesMore
  BY <1>1 DEF MilderFloorCatchesMore
<1> QED
  BY <1>2, CourseAlways, PTL

-----------------------------------------------------------------------------
(* Finite sets.                                                            *)

\* Of a finite set, whatever its order, there is a greatest element.
LEMMA BestOf ==
  ASSUME NEW S, IsFiniteSet(S), S # {}, NEW R,
         \A x, y \in S : <<x, y>> \in R \/ <<y, x>> \in R,
         \A x, y, z \in S : <<x, y>> \in R /\ <<y, z>> \in R => <<x, z>> \in R
  PROVE  \E x \in S : \A y \in S : <<x, y>> \in R
<1>1. PICK n \in Nat : ExistsSurjection(1..n, S)
  BY FS_NatSurjection
<1>2. PICK f \in [1..n -> S] : \A y \in S : \E i \in 1..n : f[i] = y
  BY <1>1 DEF ExistsSurjection, Surjection
<1> DEFINE Bad == {k \in 1..n : ~ \E x \in S : \A i \in 1..k : <<x, f[i]>> \in R}
<1>3. Bad = {}
  <2> SUFFICES ASSUME Bad # {} PROVE FALSE
    OBVIOUS
  <2>1. Bad \subseteq Nat
    BY <1>1
  <2>2. PICK k \in Bad : \A j \in Bad : k <= j
    <3> HIDE DEF Bad
    <3> QED
      BY <2>1, FirstOf
  <2>3. k \in 1..n /\ f[k] \in S
    BY <1>2
  <2>4. CASE k = 1
    <3>1. \A i \in 1..k : <<f[k], f[i]>> \in R
      BY <2>3, <2>4
    <3> QED
      BY <2>2, <2>3, <3>1
  <2>5. CASE k # 1
    <3>1. k - 1 \in 1..n /\ ~(k <= k - 1)
      BY <2>3, <2>5, <1>1
    <3>2. k - 1 \notin Bad
      <4> HIDE DEF Bad
      <4> QED
        BY <2>2, <3>1
    <3>3. PICK x \in S : \A i \in 1..(k - 1) : <<x, f[i]>> \in R
      BY <3>1, <3>2
    <3>4. PICK y \in {x, f[k]} : <<y, x>> \in R /\ <<y, f[k]>> \in R
      BY <2>3, <3>3
    <3>5. y \in S
      BY <2>3, <3>4
    <3>6. \A i \in 1..k : i = k \/ i \in 1..(k - 1)
      BY <2>3
    <3>7. \A i \in 1..k : f[i] \in S
      BY <2>3, <1>2
    <3>8. \A i \in 1..k : <<y, f[i]>> \in R
      BY <3>3, <3>4, <3>5, <3>6, <3>7
    <3> QED
      BY <2>2, <3>5, <3>8
  <2> QED
    BY <2>4, <2>5
<1>4. n \in 1..n
  BY <1>1, <1>2
<1>5. PICK x \in S : \A i \in 1..n : <<x, f[i]>> \in R
  BY <1>3, <1>4
<1> QED
  BY <1>2, <1>5

LEMMA LargestOf ==
  ASSUME NEW S, IsFiniteSet(S), S # {}, S \subseteq Int
  PROVE  Max(S) \in S /\ \A x \in S : Max(S) >= x
<1> DEFINE R == {p \in S \X S : p[1] >= p[2]}
<1>1. \A x, y \in S : <<x, y>> \in R <=> x >= y
  OBVIOUS
<1> HIDE DEF R
<1>2. ASSUME NEW x \in S, NEW y \in S PROVE <<x, y>> \in R \/ <<y, x>> \in R
  BY <1>1
<1>3. \A x, y, z \in S : <<x, y>> \in R /\ <<y, z>> \in R => <<x, z>> \in R
  BY <1>1
<1>4. \E x \in S : \A y \in S : <<x, y>> \in R
  BY <1>2, <1>3, BestOf
<1>5. \E x \in S : \A y \in S : x >= y
  BY <1>1, <1>4
<1> QED
  BY <1>5 DEF Max

\* The values of a function on a finite set are finitely many.
LEMMA ValuesFinite ==
  ASSUME NEW S, IsFiniteSet(S), NEW f, S \subseteq DOMAIN f
  PROVE  IsFiniteSet({f[x] : x \in S})
<1> DEFINE T == {f[x] : x \in S}
           g == [x \in S |-> f[x]]
<1>1. g \in Surjection(S, T)
  BY DEF Surjection
<1> HIDE DEF g, T
<1>2. IsFiniteSet(T)
  BY <1>1, FS_Surjection
<1> QED
  BY <1>2 DEF T

-----------------------------------------------------------------------------
(* The strongest snapshot of some slots.                                   *)

LEMMA StrongestIs ==
  ASSUME CourseOK, NEW I, I \subseteq DOMAIN slots
  PROVE  /\ Strongest(I) \in Nat
         /\ Strongest(I) > 0 =>
              \E i \in I : slots[i].severity # None /\ slots[i].severity = Strongest(I)
<1> DEFINE J == {j \in I : slots[j].severity # None}
           sev == [i \in J |-> slots[i].severity]
           S == {sev[i] : i \in J}
<1>1. J \subseteq 1..Len(slots) /\ Len(slots) \in Int
  BY SnapshotTypes
<1>2. IsFiniteSet(1..Len(slots))
  BY <1>1, FS_Interval
<1>3. IsFiniteSet(J)
  BY <1>1, <1>2, FS_Subset
<1>4. IsFiniteSet(S)
  <2>1. J \subseteq DOMAIN sev
    OBVIOUS
  <2> HIDE DEF J, sev
  <2> QED
    BY <1>3, <2>1, ValuesFinite
<1>5. S = {slots[i].severity : i \in J}
  OBVIOUS
<1>6. S \subseteq Nat
  <2>1. \A i \in 1..Len(slots) : slots[i].severity \in Severities \cup {None}
    <3>1. \A i \in 1..Len(slots) : slots[i] \in [flood : BOOLEAN, severity : Severities \cup {None}]
      BY ElementOfSeq DEF CourseOK
    <3> QED
      BY <3>1
  <2> QED
    BY <1>1, <1>5, <2>1, EvaluationAssumption
<1>7. Strongest(I) = Max({0} \cup S)
  BY <1>5 DEF Strongest
<1>8. IsFiniteSet({0} \cup S)
  BY <1>4, FS_Union, FS_Singleton
<1>9. Strongest(I) \in {0} \cup S
  <2> HIDE DEF S
  <2>1. {0} \cup S # {} /\ {0} \cup S \subseteq Int
    BY <1>6
  <2> QED
    BY <1>7, <1>8, <2>1, LargestOf
<1> QED
  BY <1>5, <1>6, <1>9

-----------------------------------------------------------------------------
(* How long a warning held.                                                *)

\* The first row of those that held, and how many there are at most.
LEMMA HeldRows ==
  ASSUME NEW frame, NEW hours, hours \subseteq Nat, NEW threshold, NEW onset \in Nat,
         HeldLead(frame, hours, threshold, onset) > 0
  PROVE  LET held == HeldLead(frame, hours, threshold, onset)
         IN  /\ held \in Nat
             /\ \E h \in Window(hours, onset) :
                  Holds(frame, hours, threshold, onset, h) /\ held <= onset - h
<1> DEFINE H == {h \in Window(hours, onset) : Holds(frame, hours, threshold, onset, h)}
           held == HeldLead(frame, hours, threshold, onset)
<1>1. held = Cardinality(H)
  BY DEF HeldLead
<1>2. H \subseteq Nat /\ H \subseteq (onset - Lookback)..(onset - 1) /\ Lookback \in Nat
  <2>1. Lookback \in Nat
    BY ExperimentAssumption
  <2>2. onset - Lookback \in Int /\ onset - 1 \in Int
    BY <2>1
  <2>3. \A h \in H : h \in Nat /\ onset - Lookback <= h /\ h < onset
    BY DEF Window
  <2> HIDE DEF H
  <2> QED
    BY <2>1, <2>2, <2>3
<1> HIDE DEF held
<1>3. ASSUME NEW low \in Int, low <= onset, H \subseteq low..(onset - 1)
      PROVE  IsFiniteSet(H) /\ Cardinality(H) \in Nat /\ Cardinality(H) <= onset - low
  <2> HIDE DEF H
  <2>1. /\ IsFiniteSet(low..(onset - 1))
        /\ Cardinality(low..(onset - 1)) = onset - low
    <3>1. PICK top \in Int : top = onset - 1
      OBVIOUS
    <3>2. /\ IsFiniteSet(low..top)
          /\ Cardinality(low..top) = IF low > top THEN 0 ELSE top - low + 1
      BY <1>3, FS_Interval
    <3>3. (IF low > top THEN 0 ELSE top - low + 1) = onset - low
      BY <1>3, <3>1
    <3> QED
      BY <3>1, <3>2, <3>3
  <2>2. IsFiniteSet(H) /\ Cardinality(H) <= Cardinality(low..(onset - 1))
    BY <1>3, <2>1, FS_Subset
  <2> QED
    BY <2>1, <2>2, FS_CardinalityType
<1>4. /\ IsFiniteSet(H) /\ Cardinality(H) \in Nat
  <2>1. onset - Lookback \in Int /\ onset - Lookback <= onset
    BY <1>2
  <2> HIDE DEF H
  <2> QED
    BY <1>2, <1>3, <2>1
<1>5. H # {}
  <2> HIDE DEF H
  <2> QED
    BY <1>1, <1>4, FS_EmptySet DEF held
<1>6. Min(H) \in H /\ \A h \in H : Min(H) <= h
  <2> HIDE DEF H
  <2> QED
    BY <1>2, <1>5, FirstOf
<1>7. Cardinality(H) <= onset - Min(H)
  <2> HIDE DEF H
  <2>0. Lookback \in Nat /\ \A h \in H : h \in Nat /\ h <= onset - 1
    BY <1>2
  <2>1. Min(H) \in Int /\ Min(H) <= onset /\ H \subseteq Min(H)..(onset - 1)
    BY <1>6, <2>0
  <2> QED
    BY <1>3, <2>1
<1>8. Min(H) \in Window(hours, onset) /\ Holds(frame, hours, threshold, onset, Min(H))
  BY <1>6
<1> HIDE DEF H
<1> QED
  BY <1>1, <1>4, <1>7, <1>8 DEF held

\* The hour of a slot, and the slots of an hour.
LEMMA HourBounds ==
  ASSUME NEW i \in Nat \ {0}
  PROVE  /\ HourIndex(i) \in Nat \ {0}
         /\ HourStart(i) = (HourIndex(i) - 1) * SlotsPerHour + 1
         /\ HourStart(i) <= i /\ i < HourStart(i) + SlotsPerHour
<1>1. SlotsPerHour \in Nat /\ SlotsPerHour > 0
  BY EvaluationAssumption
<1>2. PICK x \in Nat : x = i - 1
  OBVIOUS
<1>3. PICK q \in Int : q = x \div SlotsPerHour /\ q * SlotsPerHour <= x /\ x < q * SlotsPerHour + SlotsPerHour
  BY <1>1
<1>4. q >= 0
  BY <1>1, <1>3
<1>5. HourIndex(i) = q + 1 /\ HourStart(i) = q * SlotsPerHour + 1
  BY <1>2, <1>3 DEF HourIndex, HourStart
<1>6. (q + 1) - 1 = q
  BY <1>3
<1>7. i - HourStart(i) \in 0..(SlotsPerHour - 1) /\ HourStart(i) \in Nat
  BY HourOfSlot
<1> QED
  BY <1>1, <1>4, <1>5, <1>6, <1>7

\* An hour is the hour of its first slot, and the first slots of hours are in
\* the course as far as the course reaches.
LEMMA FirstSlot ==
  ASSUME NEW k \in Nat \ {0}
  PROVE  /\ (k - 1) * SlotsPerHour + 1 \in Nat \ {0}
         /\ HourIndex((k - 1) * SlotsPerHour + 1) = k
<1>1. SlotsPerHour \in Nat /\ SlotsPerHour > 0
  BY EvaluationAssumption
<1>2. PICK q \in Nat : q = k - 1
  OBVIOUS
<1>3. PICK z \in Nat : z = q * SlotsPerHour
  BY <1>1
<1>4. z \div SlotsPerHour = q
  BY <1>1, <1>3
<1>5. HourIndex(z + 1) = q + 1
  <2>1. (z + 1) - 1 = z
    OBVIOUS
  <2> QED
    BY <1>4, <2>1 DEF HourIndex
<1> QED
  BY <1>2, <1>3, <1>5

LEMMA HourLengths ==
  /\ SlotsPerHour \in Nat /\ SlotsPerHour > 0 /\ Lookback \in Nat
  /\ Lookback * SlotsPerHour \in Nat
<1>1. SlotsPerHour \in Nat /\ SlotsPerHour > 0
  BY EvaluationAssumption
<1>2. Lookback \in Nat
  BY ExperimentAssumption
<1> QED
  BY <1>1, <1>2

LEMMA EventTypes ==
  ASSUME CourseOK, NEW onset \in Events
  PROVE  onset \in Nat \ {0} /\ onset \in 1..Len(slots) /\ onset \in Judged(1)
BY SnapshotTypes DEF Events, Onsets, Judged

LEMMA HourTypes ==
  ASSUME CourseOK
  PROVE  /\ DOMAIN ByHour = {HourIndex(i) : i \in 1..Len(slots)}
         /\ DOMAIN ByHour \subseteq Nat \ {0}
         /\ \A k \in DOMAIN ByHour :
              ByHour[k].score = Strongest({i \in DOMAIN slots : HourIndex(i) = k})
<1>1. DOMAIN slots = 1..Len(slots) /\ Len(slots) \in Nat
  BY SnapshotTypes
<1>2. DOMAIN ByHour = {HourIndex(i) : i \in 1..Len(slots)}
  BY <1>1 DEF ByHour
<1>3. \A i \in 1..Len(slots) : HourIndex(i) \in Nat \ {0}
  BY <1>1, HourBounds
<1>4. \A k \in DOMAIN ByHour :
        ByHour[k].score = Strongest({i \in DOMAIN slots : HourIndex(i) = k})
  BY DEF ByHour
<1> QED
  BY <1>2, <1>3, <1>4

\* An hour of the lookback in which a severity reached the floor detects the event,
\* and the lead is no shorter than from that hour on.
LEMMA HourDetects ==
  ASSUME CourseOK, NEW floor \in Floors, NEW onset \in Events, NEW k \in DOMAIN ByHour,
         k < HourIndex(onset), ByHour[k].score >= floor,
         onset - Lookback * SlotsPerHour <= (k - 1) * SlotsPerHour + 1
  PROVE  /\ onset \in Detected(1, floor)
         /\ Lead(1, floor, onset) \in Int
         /\ Lead(1, floor, onset) >= onset - ((k - 1) * SlotsPerHour + 1)
<1> DEFINE hits == Hits(1, floor, onset)
           start == (k - 1) * SlotsPerHour + 1
<1>1. /\ onset \in Nat \ {0} /\ onset \in Judged(1) /\ floor \in Nat /\ floor > 0
      /\ k \in Nat \ {0} /\ SlotsPerHour \in Nat /\ Lookback * SlotsPerHour \in Nat
  <2>1. onset \in Nat \ {0} /\ onset \in Judged(1) /\ k \in Nat \ {0}
    BY EventTypes, HourTypes
  <2>2. floor \in Nat /\ floor > 0
    BY EvaluationAssumption DEF Floors
  <2> QED
    BY <2>1, <2>2, HourLengths
<1>2. PICK i \in DOMAIN slots : /\ HourIndex(i) = k /\ slots[i].severity # None
                                /\ slots[i].severity >= floor
  <2> DEFINE I == {i \in DOMAIN slots : HourIndex(i) = k}
  <2>1. Strongest(I) >= floor /\ I \subseteq DOMAIN slots
    BY HourTypes
  <2> HIDE DEF I
  <2>2. Strongest(I) \in Nat /\ Strongest(I) > 0
    BY <1>1, <2>1, StrongestIs
  <2>3. \E i \in I : slots[i].severity # None /\ slots[i].severity = Strongest(I)
    BY <2>1, <2>2, StrongestIs
  <2> QED
    BY <2>1, <2>3 DEF I
<1>3. i \in Nat \ {0} /\ i \in Snapshots(1)
  BY <1>2, SnapshotTypes DEF Snapshots
<1>4. HourStart(i) = start /\ start \in Nat
  BY <1>2, <1>3, HourBounds, HourOfSlot
<1>5. start <= onset
  <2>1. HourStart(onset) = (HourIndex(onset) - 1) * SlotsPerHour + 1 /\ HourStart(onset) <= onset
        /\ HourIndex(onset) \in Nat /\ HourStart(onset) \in Nat
    BY <1>1, HourBounds, HourOfSlot
  <2>2. PICK a \in Nat, b \in Int : a = k - 1 /\ b = HourIndex(onset) - 1 /\ a <= b
    BY <1>1, <2>1
  <2>3. a * SlotsPerHour <= b * SlotsPerHour
    BY <1>1, <2>2
  <2>4. start = a * SlotsPerHour + 1 /\ HourStart(onset) = b * SlotsPerHour + 1
        /\ a * SlotsPerHour \in Int /\ b * SlotsPerHour \in Int
    BY <1>1, <2>1, <2>2
  <2> HIDE DEF start
  <2> QED
    BY <1>1, <2>1, <2>3, <2>4
<1>6. start \in hits
  BY <1>2, <1>3, <1>4, <1>5 DEF Hits, WarnedHours
<1>7. hits \subseteq Nat /\ Min(hits) \in hits /\ Min(hits) <= start
  BY <1>6, HitTypes
<1>8. Lead(1, floor, onset) = onset - Min(hits)
  BY DEF Lead
<1>9. onset \in Detected(1, floor)
  BY <1>1, <1>6 DEF Detected
<1> HIDE DEF hits, start
<1>10. Lead(1, floor, onset) \in Int /\ Lead(1, floor, onset) >= onset - start
  <2>1. PICK first \in Nat : first = Min(hits) /\ first <= start
    BY <1>7
  <2>2. Lead(1, floor, onset) = onset - first
    BY <1>8, <2>1
  <2> QED
    BY <1>1, <1>4, <2>1, <2>2
<1> QED
  BY <1>9, <1>10 DEF start

\* Hours, multiplied.
LEMMA Distributes ==
  ASSUME NEW a \in Int, NEW b \in Int, NEW p \in Nat
  PROVE  /\ (a + b) * p = a * p + b * p /\ (a - b) * p = a * p - b * p
         /\ a * p \in Int /\ b * p \in Int
         /\ a <= b => a * p <= b * p
OBVIOUS

\* Of the hours before an onset that all reach the floor, the backend's lead counts
\* every one but perhaps the first, of which only the last slots are in its lookback.
LEMMA HeldHours ==
  ASSUME Lookback > 1, CourseOK, NEW floor \in Floors, NEW onset \in Events,
         HeldLead(ByHour, DOMAIN ByHour, floor, HourIndex(onset)) > 0
  PROVE  /\ onset \in Detected(1, floor)
         /\ Lead(1, floor, onset) >
              (HeldLead(ByHour, DOMAIN ByHour, floor, HourIndex(onset)) - 1) * SlotsPerHour
<1> DEFINE held == HeldLead(ByHour, DOMAIN ByHour, floor, HourIndex(onset))
           last == HourIndex(onset)
           lead == Lead(1, floor, onset)
<1>1. /\ onset \in Nat \ {0} /\ onset \in 1..Len(slots)
      /\ last \in Nat \ {0} /\ SlotsPerHour \in Nat /\ SlotsPerHour > 0 /\ Lookback \in Nat
      /\ DOMAIN ByHour \subseteq Nat
  <2>1. onset \in Nat \ {0} /\ onset \in 1..Len(slots) /\ DOMAIN ByHour \subseteq Nat
    BY EventTypes, HourTypes
  <2>2. last \in Nat \ {0}
    BY <2>1, HourBounds
  <2> QED
    BY <2>1, <2>2, HourLengths
<1>2. PICK m \in Window(DOMAIN ByHour, last) :
        Holds(ByHour, DOMAIN ByHour, floor, last, m) /\ held <= last - m /\ held \in Nat
  BY <1>1, HeldRows
<1>3. m \in DOMAIN ByHour /\ m \in Nat \ {0} /\ last - Lookback <= m /\ m < last
  BY <1>2, HourTypes DEF Window
<1>4. \A k \in DOMAIN ByHour : m <= k /\ k < last => ByHour[k].score >= floor
  BY <1>2 DEF Holds
<1>5. HourStart(onset) = (last - 1) * SlotsPerHour + 1 /\ HourStart(onset) \in Int
      /\ HourStart(onset) <= onset /\ onset < HourStart(onset) + SlotsPerHour
  BY <1>1, HourBounds, HourOfSlot
<1> HIDE DEF held, last, lead
<1>6. PICK slotsTo \in Int, back \in Int, before \in Int, kept \in Int :
        /\ slotsTo = last * SlotsPerHour /\ back = Lookback * SlotsPerHour
        /\ before = m * SlotsPerHour /\ kept = held * SlotsPerHour
  BY <1>1, <1>2, <1>3, Distributes
<1>7. /\ (last - 1) * SlotsPerHour = slotsTo - SlotsPerHour
      /\ (m - 1) * SlotsPerHour = before - SlotsPerHour
      /\ (held - 1) * SlotsPerHour = kept - SlotsPerHour
  <2>1. 1 * SlotsPerHour = SlotsPerHour /\ 1 \in Int
    BY <1>1, <1>3
  <2>2. last \in Int /\ m \in Int /\ held \in Int
    BY <1>1, <1>2, <1>3
  <2>3. (last - 1) * SlotsPerHour = last * SlotsPerHour - 1 * SlotsPerHour
    BY <1>1, <2>1, <2>2, Distributes
  <2>4. (m - 1) * SlotsPerHour = m * SlotsPerHour - 1 * SlotsPerHour
    BY <1>1, <2>1, <2>2, Distributes
  <2>5. (held - 1) * SlotsPerHour = held * SlotsPerHour - 1 * SlotsPerHour
    BY <1>1, <2>1, <2>2, Distributes
  <2> QED
    BY <1>6, <2>1, <2>3, <2>4, <2>5
<1>8. slotsTo - SlotsPerHour < onset /\ onset <= slotsTo
  BY <1>1, <1>5, <1>6, <1>7
<1>9. kept <= slotsTo - before /\ slotsTo - before <= back
  <2>1. PICK a \in Int : a = last - m /\ held <= a /\ a <= Lookback
    BY <1>1, <1>2, <1>3
  <2>2. held * SlotsPerHour <= a * SlotsPerHour /\ a * SlotsPerHour <= Lookback * SlotsPerHour
    BY <1>1, <1>2, <2>1, Distributes
  <2>3. a * SlotsPerHour = slotsTo - before
    BY <1>1, <1>3, <1>6, <2>1, Distributes
  <2> QED
    BY <1>6, <2>2, <2>3
<1>10. CASE onset - back <= before - SlotsPerHour + 1
  <2>1. /\ onset \in Detected(1, floor) /\ lead \in Int
        /\ lead >= onset - ((m - 1) * SlotsPerHour + 1)
    <3>1. onset - Lookback * SlotsPerHour <= (m - 1) * SlotsPerHour + 1 /\ m < HourIndex(onset)
      BY <1>3, <1>6, <1>7, <1>10 DEF last
    <3>2. ByHour[m].score >= floor
      BY <1>3, <1>4
    <3> QED
      BY <1>3, <3>1, <3>2, HourDetects DEF lead
  <2>2. lead > kept - SlotsPerHour
    BY <1>1, <1>6, <1>7, <1>8, <1>9, <2>1
  <2> QED
    BY <1>7, <2>1, <2>2 DEF lead, held, last
<1>11. CASE ~(onset - back <= before - SlotsPerHour + 1)
  <2>1. m + 1 < last
    <3>1. PICK a \in Int, c \in Int : a = m + Lookback /\ c = last + 1
      BY <1>1, <1>3
    <3>2. a * SlotsPerHour = before + back /\ c * SlotsPerHour = slotsTo + 1 * SlotsPerHour
      BY <1>1, <1>3, <1>6, <3>1, Distributes
    <3>3. ~(c * SlotsPerHour <= a * SlotsPerHour)
      BY <1>1, <1>6, <1>8, <1>11, <3>2
    <3>4. ~(c <= a)
      BY <1>1, <3>1, <3>3, Distributes
    <3> QED
      BY <1>1, <1>3, <3>1, <3>4
  <2>2. PICK first \in Nat \ {0} : first = before + 1 /\ HourIndex(first) = m + 1
    <3>1. PICK n \in Nat \ {0} : n = m + 1
      BY <1>3
    <3>2. n - 1 = m
      BY <1>3, <3>1
    <3>3. (n - 1) * SlotsPerHour + 1 \in Nat \ {0} /\ HourIndex((n - 1) * SlotsPerHour + 1) = n
      BY <3>1, FirstSlot
    <3> QED
      BY <1>6, <3>1, <3>2, <3>3
  <2>3. m + 1 \in DOMAIN ByHour
    <3>1. SlotsPerHour <= back
      <4>1. 1 * SlotsPerHour <= Lookback * SlotsPerHour
        BY <1>1, Distributes
      <4> QED
        BY <1>1, <1>6, <4>1
    <3>2. first <= onset
      BY <1>1, <1>6, <1>11, <2>2, <3>1
    <3>3. first \in 1..Len(slots)
      BY <1>1, <2>2, <3>2
    <3> QED
      BY <2>2, <3>3, HourTypes
  <2>4. onset - back <= before + 1
    BY <1>1, <1>6, <1>8, <1>9
  <2>5. /\ onset \in Detected(1, floor) /\ lead \in Int
        /\ lead >= onset - (before + 1)
    <3>1. PICK k : k = m + 1 /\ k \in DOMAIN ByHour
      BY <2>3
    <3>2. ByHour[k].score >= floor /\ k < HourIndex(onset)
      BY <1>3, <1>4, <2>1, <3>1 DEF last
    <3>3. (k - 1) * SlotsPerHour = before
      <4>1. k - 1 = m
        BY <1>3, <3>1
      <4> QED
        BY <1>6, <4>1
    <3>4. onset - Lookback * SlotsPerHour <= (k - 1) * SlotsPerHour + 1
      BY <1>6, <2>4, <3>3
    <3>5. /\ onset \in Detected(1, floor) /\ lead \in Int
          /\ lead >= onset - ((k - 1) * SlotsPerHour + 1)
      BY <3>1, <3>2, <3>4, HourDetects DEF lead
    <3> QED
      BY <3>3, <3>5
  <2>6. lead > kept - SlotsPerHour
    <3>1. before - SlotsPerHour + back + 1 < onset
      BY <1>1, <1>6, <1>11
    <3>2. PICK x \in Int : x = lead /\ x >= onset - (before + 1)
      BY <2>5
    <3>3. x > back - SlotsPerHour
      BY <1>1, <1>6, <3>1, <3>2
    <3>4. kept <= back
      BY <1>6, <1>9
    <3> QED
      BY <1>1, <1>6, <3>2, <3>3, <3>4
  <2> QED
    BY <1>7, <2>5, <2>6 DEF lead, held, last
<1> QED
  BY <1>10, <1>11

-----------------------------------------------------------------------------
(* The course as a frame, and its splits.                                  *)

LEMMA FrameTypes ==
  ASSUME CourseOK
  PROVE  /\ BySlot \in Seq([flood : BOOLEAN, score : Nat])
         /\ Len(BySlot) = Len(slots) /\ Len(slots) \in Nat
         /\ DOMAIN BySlot = 1..Len(slots)
         /\ \A h \in 1..Len(slots) : BySlot[h].score \in Nat
<1> DEFINE n == Len(slots)
           Row == [flood : BOOLEAN, score : Nat]
<1>1. DOMAIN slots = 1..n /\ n \in Nat
  BY SnapshotTypes
<1>2. \A i \in 1..n : slots[i].flood \in BOOLEAN /\ Strongest({i}) \in Nat
  <2>1. \A i \in 1..n : slots[i] \in [flood : BOOLEAN, severity : Severities \cup {None}]
    BY ElementOfSeq DEF CourseOK
  <2>2. ASSUME NEW i \in 1..n PROVE Strongest({i}) \in Nat
    <3>1. {i} \subseteq DOMAIN slots
      BY <1>1, <2>2
    <3> QED
      BY <3>1, StrongestIs
  <2> QED
    BY <2>1, <2>2
<1>3. BySlot \in [1..n -> Row]
  BY <1>1, <1>2 DEF BySlot
<1> HIDE DEF n, Row
<1>4. BySlot \in Seq(Row)
  BY <1>1, <1>3, SeqDef
<1>5. Len(BySlot) \in Nat /\ DOMAIN BySlot = 1..Len(BySlot) /\ DOMAIN BySlot = 1..n
  BY <1>3, <1>4, LenProperties
<1>6. Len(BySlot) = n
  <2>1. ASSUME NEW a \in Nat, NEW b \in Nat, 1..a \subseteq 1..b PROVE a <= b
    <3>1. a # 0 => a \in 1..a
      OBVIOUS
    <3> QED
      BY <2>1, <3>1
  <2>2. PICK m \in Nat : m = Len(BySlot) /\ 1..m = 1..n
    BY <1>5
  <2>3. m <= n /\ n <= m
    BY <1>1, <2>1, <2>2
  <2>4. m = n
    BY <1>1, <2>3
  <2> QED
    BY <2>2, <2>4
<1>7. \A h \in 1..n : BySlot[h].score \in Nat
  BY <1>3 DEF Row
<1> QED
  BY <1>1, <1>4, <1>5, <1>6, <1>7 DEF n, Row

LEMMA SplitTypes ==
  ASSUME NEW frame, Len(frame) \in Nat
  PROVE  /\ TrainEnd(frame) \in Nat \ {0} /\ ValEnd(frame) \in Nat \ {0}
         /\ Validation(frame) \subseteq Nat \ {0} /\ Test(frame) \subseteq Nat \ {0}
<1>1. TrainShare \in Nat /\ ValShare \in Nat
  <2>1. TrainShare \in 0..99 /\ ValShare \in 0..99
    BY ExperimentAssumption, Zenon
  <2> QED
    BY <2>1
<1>2. \A x \in Nat : x \div 100 \in Nat
  OBVIOUS
<1>3. Len(frame) * TrainShare \in Nat /\ Len(frame) * ValShare \in Nat
  BY <1>1
<1>4. TrainEnd(frame) \in Nat \ {0} /\ ValEnd(frame) \in Nat \ {0}
  BY <1>2, <1>3 DEF TrainEnd, ValEnd
<1> QED
  BY <1>4 DEF Validation, Test

\* The experiment's lead is never an hour or more above the backend's, for courses
\* of every length, hours of any length and every floor, and never above that of
\* the first warning among its own rows.  With a lookback of one hour it could be:
\* the backend's begins an hour before the slot of the onset, which may leave out
\* the first slot of the hour that held; the code looks back 24 hours
\* (ml/evaluate.py, app/evaluation.py).
THEOREM HeldLeadIsNeverLonger ==
  ASSUME Lookback > 1
  PROVE  Spec => []HeldLeadIsNoLonger
<1>1. ASSUME CourseOK, NEW row \in LeadTimes(BySlot), row.lead > 0
      PROVE  \E h \in Window(Test(BySlot), row.onset) :
               /\ BySlot[h].score >= OperatingPoint(BySlot)
               /\ row.lead <= row.onset - h
  <2> DEFINE hours == Usable(BySlot, Test(BySlot))
             point == OperatingPoint(BySlot)
  <2>1. /\ row.onset \in Test(BySlot)
        /\ row.lead = HeldLead(BySlot, hours, point, row.onset)
    BY <1>1 DEF LeadTimes
  <2>2. hours \subseteq Test(BySlot) /\ Test(BySlot) \subseteq Nat
    BY <1>1, FrameTypes, SplitTypes DEF Usable
  <2> HIDE DEF hours, point
  <2>3. row.onset \in Nat /\ hours \subseteq Nat /\ HeldLead(BySlot, hours, point, row.onset) > 0
    BY <1>1, <2>1, <2>2
  <2>4. PICK h \in Window(hours, row.onset) :
          /\ Holds(BySlot, hours, point, row.onset, h)
          /\ HeldLead(BySlot, hours, point, row.onset) <= row.onset - h
    BY <2>3, HeldRows
  <2>5. h \in hours /\ h \in Window(Test(BySlot), row.onset) /\ h < row.onset /\ h \in Nat
    BY <2>2, <2>4 DEF Window
  <2>6. BySlot[h].score >= point
    BY <2>4, <2>5 DEF Holds
  <2> QED
    BY <2>1, <2>4, <2>5, <2>6 DEF point
<1>2. ASSUME CourseOK PROVE HeldLeadIsNoLonger
  <2>1. ASSUME NEW floor \in Floors, NEW onset \in Events,
               HeldLead(ByHour, DOMAIN ByHour, floor, HourIndex(onset)) > 0
        PROVE  /\ onset \in Detected(1, floor)
               /\ Lead(1, floor, onset) >
                    (HeldLead(ByHour, DOMAIN ByHour, floor, HourIndex(onset)) - 1) * SlotsPerHour
    BY <1>2, <2>1, HeldHours
  <2> QED
    BY <1>1, <1>2, <2>1 DEF HeldLeadIsNoLonger
<1>3. CourseOK => HeldLeadIsNoLonger
  BY <1>2
<1> QED
  BY <1>3, CourseAlways, PTL

-----------------------------------------------------------------------------
(* The operating point.  F-scores are fractions, compared crosswise; those *)
(* of the thresholds that some hour has for a score have a denominator     *)
(* above 0, so that they are in order and one of them is the best.         *)

Num(c) == 2 * c.tp
Den(c) == 2 * c.tp + c.fp + c.fn

LEMMA CrossTransitive ==
  ASSUME NEW na \in Nat, NEW da \in Nat, NEW nb \in Nat, NEW db \in Nat,
         NEW nc \in Nat, NEW dc \in Nat,
         db > 0, na * db >= nb * da, nb * dc >= nc * db
  PROVE  na * dc >= nc * da
<1>1. PICK ab \in Nat, ba \in Nat, bc \in Nat, cb \in Nat, ac \in Nat, ca \in Nat :
        /\ ab = na * db /\ ba = nb * da /\ bc = nb * dc
        /\ cb = nc * db /\ ac = na * dc /\ ca = nc * da
  OBVIOUS
<1>2. ba <= ab /\ cb <= bc
  BY <1>1
<1>3. ba * dc <= ab * dc /\ cb * da <= bc * da
  BY <1>2, Distributes
<1>4. ab * dc = ac * db /\ ba * dc = bc * da /\ cb * da = ca * db
  BY <1>1
<1>5. ca * db <= ac * db
  <2>1. /\ ca * db \in Int /\ ac * db \in Int /\ ba * dc \in Int
    BY Distributes
  <2> QED
    BY <1>3, <1>4, <2>1
<1>6. ca <= ac
  <2> SUFFICES ASSUME ac + 1 <= ca PROVE FALSE
    OBVIOUS
  <2>1. (ac + 1) * db <= ca * db
    BY Distributes
  <2>2. (ac + 1) * db = ac * db + 1 * db /\ 1 * db = db /\ ac * db \in Int /\ ca * db \in Int
    BY Distributes
  <2>3. (ac + 1) * db > ac * db
    BY <2>2
  <2> QED
    BY <1>5, <2>1, <2>2, <2>3
<1> QED
  BY <1>1, <1>6

\* The hours that a threshold warns of.
Over(frame, hours, t) == {h \in hours : frame[h].score >= t}

LEMMA CountTypes ==
  ASSUME NEW frame, NEW hours, IsFiniteSet(hours), NEW t
  PROVE  /\ Counts(frame, hours, t).tp \in Nat
         /\ Counts(frame, hours, t).fp \in Nat
         /\ Counts(frame, hours, t).fn \in Nat
         /\ Num(Counts(frame, hours, t)) \in Nat
         /\ Den(Counts(frame, hours, t)) \in Nat
         /\ Over(frame, hours, t) # {} => Den(Counts(frame, hours, t)) > 0
         /\ Over(frame, hours, t) = {} => Num(Counts(frame, hours, t)) = 0
<1> DEFINE warned == Over(frame, hours, t)
           flooded == {h \in hours : Positive(frame, h)}
           c == Counts(frame, hours, t)
<1>1. /\ c.tp = Cardinality(warned \cap flooded)
      /\ c.fp = Cardinality(warned \ flooded)
      /\ c.fn = Cardinality(flooded \ warned)
  BY DEF Counts, Over
<1>2. warned \subseteq hours /\ flooded \subseteq hours
  BY DEF Over
<1> HIDE DEF warned, flooded, c
<1>3. /\ IsFiniteSet(warned \cap flooded) /\ IsFiniteSet(warned \ flooded)
      /\ IsFiniteSet(flooded \ warned)
  <2>1. /\ warned \cap flooded \subseteq hours /\ warned \ flooded \subseteq hours
        /\ flooded \ warned \subseteq hours
    BY <1>2
  <2> QED
    BY <2>1, FS_Subset
<1>4. c.tp \in Nat /\ c.fp \in Nat /\ c.fn \in Nat
  BY <1>1, <1>3, FS_CardinalityType
<1>5. Num(c) \in Nat /\ Den(c) \in Nat
  BY <1>4 DEF Num, Den
<1>6. ASSUME warned # {} PROVE Den(c) > 0
  <2>1. warned \cap flooded # {} \/ warned \ flooded # {}
    BY <1>6
  <2>2. c.tp # 0 \/ c.fp # 0
    BY <1>1, <1>3, <2>1, FS_EmptySet
  <2> QED
    BY <1>4, <2>2 DEF Den
<1>7. ASSUME warned = {} PROVE Num(c) = 0
  <2>1. warned \cap flooded = {}
    BY <1>7
  <2>2. c.tp = 0
    BY <1>1, <2>1, FS_EmptySet
  <2> QED
    BY <2>2 DEF Num
<1> QED
  BY <1>4, <1>5, <1>6, <1>7 DEF warned, c

LEMMA NoWorseIs ==
  ASSUME NEW a, NEW b
  PROVE  NoWorse(a, b) <=> Num(a) * Den(b) >= Num(b) * Den(a)
BY DEF NoWorse, Num, Den

\* There is a best score, and it is one of the scores.
LEMMA BestScoreIs ==
  ASSUME NEW frame, NEW hours, IsFiniteSet(hours), hours # {}, hours \subseteq DOMAIN frame,
         \A h \in hours : frame[h].score \in Nat
  PROVE  LET scores == {frame[h].score : h \in hours}
             best == BestScore(frame, hours)
         IN  /\ best \in scores
             /\ \A u \in scores : NoWorse(Counts(frame, hours, best), Counts(frame, hours, u))
<1> DEFINE score == [h \in hours |-> frame[h].score]
           scores == {score[h] : h \in hours}
           C(t) == Counts(frame, hours, t)
           R == {p \in scores \X scores : NoWorse(C(p[1]), C(p[2]))}
           winners == {t \in scores : \A u \in scores : NoWorse(C(t), C(u))}
<1>1. scores = {frame[h].score : h \in hours}
  OBVIOUS
<1>2. IsFiniteSet(scores)
  <2>1. hours \subseteq DOMAIN score
    OBVIOUS
  <2> HIDE DEF score
  <2> QED
    BY <2>1, ValuesFinite
<1>3. scores # {} /\ scores \subseteq Nat
  OBVIOUS
<1>4. \A t \in scores : Over(frame, hours, t) # {}
  <2>1. ASSUME NEW h \in hours PROVE h \in Over(frame, hours, frame[h].score)
    BY DEF Over
  <2> QED
    BY <1>1, <2>1
<1>5. \A t, u \in scores : <<t, u>> \in R <=> NoWorse(C(t), C(u))
  <2> HIDE DEF scores, C
  <2> QED
    OBVIOUS
<1>6. \A t \in scores : Num(C(t)) \in Nat /\ Den(C(t)) \in Nat /\ Den(C(t)) > 0
  <2> HIDE DEF scores
  <2> QED
    BY <1>4, CountTypes
<1> HIDE DEF score, scores, C, R
<1>7. ASSUME NEW t \in scores, NEW u \in scores
      PROVE  <<t, u>> \in R \/ <<u, t>> \in R
  <2>1. PICK x \in Int, y \in Int : x = Num(C(t)) * Den(C(u)) /\ y = Num(C(u)) * Den(C(t))
    BY <1>6
  <2>2. x >= y \/ y >= x
    OBVIOUS
  <2> QED
    BY <1>5, <2>1, <2>2, NoWorseIs
<1>8. ASSUME NEW t \in scores, NEW u \in scores, NEW v \in scores,
             <<t, u>> \in R, <<u, v>> \in R
      PROVE  <<t, v>> \in R
  <2>1. /\ Num(C(t)) * Den(C(u)) >= Num(C(u)) * Den(C(t))
        /\ Num(C(u)) * Den(C(v)) >= Num(C(v)) * Den(C(u))
    BY <1>5, <1>8, NoWorseIs
  <2>2. Num(C(t)) * Den(C(v)) >= Num(C(v)) * Den(C(t))
    BY <1>6, <2>1, CrossTransitive
  <2> QED
    BY <1>5, <2>2, NoWorseIs
<1>9. \E t \in scores : \A u \in scores : <<t, u>> \in R
  BY <1>2, <1>3, <1>7, <1>8, BestOf
<1>10. winners # {} /\ winners \subseteq Nat
  BY <1>3, <1>5, <1>9
<1>11. Min(winners) \in winners
  <2> HIDE DEF winners
  <2> QED
    BY <1>10, FirstOf
<1>12. BestScore(frame, hours) = Min(winners)
  BY <1>1 DEF BestScore, C
<1>13. /\ BestScore(frame, hours) \in scores
       /\ \A u \in scores : NoWorse(C(BestScore(frame, hours)), C(u))
  BY <1>11, <1>12
<1> QED
  BY <1>1, <1>13 DEF C

\* A threshold between two scores warns of what the higher one warns of, and one
\* above all scores warns of nothing, so that no number beats the best score.
LEMMA NoNumberBetter ==
  ASSUME NEW frame, NEW hours, IsFiniteSet(hours), hours # {}, hours \subseteq DOMAIN frame,
         \A h \in hours : frame[h].score \in Nat,
         NEW t \in Int
  PROVE  NoWorse(Counts(frame, hours, BestScore(frame, hours)), Counts(frame, hours, t))
<1> DEFINE best == Counts(frame, hours, BestScore(frame, hours))
           above == {u \in {frame[h].score : h \in hours} : u >= t}
<1>1. \A u \in {frame[h].score : h \in hours} : NoWorse(best, Counts(frame, hours, u))
  BY BestScoreIs
<1>2. CASE above = {}
  <2>1. Over(frame, hours, t) = {}
    BY <1>2 DEF Over
  <2>2. /\ Num(Counts(frame, hours, t)) = 0 /\ Den(Counts(frame, hours, t)) \in Nat
        /\ Num(best) \in Nat /\ Den(best) \in Nat
    BY <2>1, CountTypes
  <2> HIDE DEF best
  <2>3. PICK x \in Nat : x = Num(best) * Den(Counts(frame, hours, t))
    BY <2>2
  <2>4. Num(Counts(frame, hours, t)) * Den(best) = 0
    BY <2>2
  <2>5. NoWorse(best, Counts(frame, hours, t))
    BY <2>3, <2>4, NoWorseIs
  <2> QED
    BY <2>5 DEF best
<1>3. CASE above # {}
  <2>1. above \subseteq Nat
    OBVIOUS
  <2>2. Min(above) \in above /\ \A u \in above : Min(above) <= u
    <3> HIDE DEF above
    <3> QED
      BY <1>3, <2>1, FirstOf
  <2>3. PICK u \in {frame[h].score : h \in hours} :
          u \in Nat /\ u >= t /\ \A v \in above : u <= v
    BY <2>1, <2>2
  <2>4. \A h \in hours : frame[h].score >= t <=> frame[h].score >= u
    <3> TAKE h \in hours
    <3>1. frame[h].score >= t => frame[h].score \in above
      OBVIOUS
    <3>2. frame[h].score \in Nat
      OBVIOUS
    <3> HIDE DEF above
    <3> QED
      BY <2>3, <3>1, <3>2
  <2>5. Counts(frame, hours, t) = Counts(frame, hours, u)
    <3>1. {h \in hours : frame[h].score >= t} = {h \in hours : frame[h].score >= u}
      BY <2>4
    <3> QED
      BY <3>1 DEF Counts
  <2> QED
    BY <1>1, <2>3, <2>5
<1> QED
  BY <1>2, <1>3

\* The choice looks at the scores of some hours and at their labels, no further.
LEMMA SameChoice ==
  ASSUME NEW frame, NEW known, NEW hours,
         \A h \in hours : frame[h].score = known[h].score,
         \A h \in hours : Positive(frame, h) <=> Positive(known, h)
  PROVE  BestScore(frame, hours) = BestScore(known, hours)
<1> DEFINE scores(f) == {f[h].score : h \in hours}
           winners(f) == {t \in scores(f) : \A u \in scores(f) :
                            NoWorse(Counts(f, hours, t), Counts(f, hours, u))}
<1>1. scores(frame) = scores(known)
  OBVIOUS
<1>2. \A t : Counts(frame, hours, t) = Counts(known, hours, t)
  <2> TAKE t
  <2>1. {h \in hours : frame[h].score >= t} = {h \in hours : known[h].score >= t}
    OBVIOUS
  <2>2. {h \in hours : Positive(frame, h)} = {h \in hours : Positive(known, h)}
    OBVIOUS
  <2> QED
    BY <2>1, <2>2 DEF Counts
<1>3. winners(frame) = winners(known)
  <2> HIDE DEF scores
  <2> QED
    BY <1>1, <1>2
<1>4. BestScore(frame, hours) = Min(winners(frame)) /\ BestScore(known, hours) = Min(winners(known))
  BY DEF BestScore
<1> HIDE DEF winners
<1> QED
  BY <1>3, <1>4

\* No number has a better F-score on the validation hours than the operating
\* point, and nothing later than the last of their labels has a part in the
\* choice, for courses of every length and every split and horizon
\* (choose_threshold of ml/evaluate.py, run_experiment.py).
THEOREM PointIsAlwaysOfValidation == Spec => []PointIsOfValidation
<1>1. ASSUME CourseOK, Usable(BySlot, Validation(BySlot)) # {}
      PROVE  LET frame == BySlot
                 hours == Usable(frame, Validation(frame))
                 known == SubSeq(frame, 1, Min({Len(frame), ValEnd(frame) - 1 + Horizon}))
             IN  /\ \A t \in 0..(Max(Severities) + 1) :
                      NoWorse(Counts(frame, hours, OperatingPoint(frame)), Counts(frame, hours, t))
                 /\ OperatingPoint(frame) = BestScore(known, hours)
  <2> DEFINE frame == BySlot
             hours == Usable(frame, Validation(frame))
             reach == Min({Len(frame), ValEnd(frame) - 1 + Horizon})
             known == SubSeq(frame, 1, reach)
             Row == [flood : BOOLEAN, score : Nat]
  <2>1. /\ frame \in Seq(Row) /\ Len(frame) \in Nat /\ DOMAIN frame = 1..Len(frame)
        /\ \A h \in 1..Len(frame) : frame[h].score \in Nat
    BY <1>1, FrameTypes
  <2>2. ValEnd(frame) \in Nat \ {0} /\ Horizon \in Nat /\ Validation(frame) \subseteq Nat \ {0}
    BY <2>1, SplitTypes, ExperimentAssumption
  <2>3. \A h \in hours : h \in 1..Len(frame) /\ h <= ValEnd(frame) - 1
    <3> HIDE DEF frame
    <3> QED
      BY <2>1, <2>2 DEF Usable, Validation
  <2>4. reach \in Nat /\ reach <= Len(frame)
        /\ (reach = Len(frame) \/ reach = ValEnd(frame) - 1 + Horizon)
    <3>1. PICK m \in Nat : m = ValEnd(frame) - 1 + Horizon
      BY <2>2
    <3>2. PICK n \in Nat : n = Len(frame)
      BY <2>1
    <3>3. reach = IF n <= m THEN n ELSE m
      BY <3>1, <3>2, SmallerOf
    <3> HIDE DEF reach, frame
    <3> QED
      BY <3>1, <3>2, <3>3
  <2>5. /\ known \in Seq(Row) /\ Len(known) = reach
        /\ \A i \in 1..reach : known[i] = frame[i]
    <3> HIDE DEF frame, reach, Row
    <3>1. \A i \in 1..reach : frame[i] \in Row
      BY <2>1, <2>4, ElementOfSeq
    <3>2. /\ known \in Seq(Row)
          /\ Len(known) = IF 1 <= reach THEN reach - 1 + 1 ELSE 0
          /\ \A i \in 1..(reach - 1 + 1) : known[i] = frame[1 + i - 1]
      BY <2>4, <3>1, SubSeqProperties
    <3> QED
      BY <2>4, <3>2
  <2>6. DOMAIN known = 1..reach
    BY <2>5, LenProperties
  <2> HIDE DEF frame, hours, reach, known, Row
  <2>7. IsFiniteSet(hours) /\ hours # {} /\ hours \subseteq DOMAIN frame
    <3>1. IsFiniteSet(1..Len(frame))
      BY <2>1, FS_Interval
    <3>2. hours \subseteq 1..Len(frame)
      BY <2>3
    <3> QED
      BY <1>1, <2>1, <3>1, <3>2, FS_Subset DEF hours, frame
  <2>8. \A h \in hours : frame[h].score \in Nat
    BY <2>1, <2>3
  <2>9. \A h \in hours : frame[h].score = known[h].score
    <3>1. \A h \in hours : h \in 1..reach
      BY <2>2, <2>3, <2>4
    <3> QED
      BY <2>5, <3>1
  <2>10. ASSUME NEW h \in hours PROVE Positive(frame, h) <=> Positive(known, h)
    <3>1. ASSUME NEW g \in (h + 1)..(h + Horizon)
          PROVE  Flooding(frame, g) <=> Flooding(known, g)
      <4>1. h \in Nat /\ h <= ValEnd(frame) - 1 /\ g \in Nat \ {0} /\ g <= ValEnd(frame) - 1 + Horizon
        BY <2>2, <2>3, <3>1
      <4>2. g \in 1..reach <=> g \in 1..Len(frame)
        <5>1. PICK end \in Int : end = ValEnd(frame) - 1 + Horizon
          BY <2>2
        <5>2. PICK n \in Nat : n = Len(frame)
          BY <2>1
        <5>3. g \in Nat \ {0} /\ g <= end
          BY <4>1, <5>1
        <5>4. reach \in Nat /\ reach <= n /\ (reach = n \/ reach = end)
          BY <2>4, <5>1, <5>2
        <5>5. g <= reach <=> g <= n
          BY <5>1, <5>2, <5>3, <5>4
        <5> QED
          BY <5>2, <5>3, <5>4, <5>5
      <4> QED
        BY <2>1, <2>5, <2>6, <4>2 DEF Flooding
    <3> QED
      BY <3>1 DEF Positive
  <2>11. OperatingPoint(frame) = BestScore(frame, hours)
    BY DEF OperatingPoint, hours
  <2>12. BestScore(frame, hours) = BestScore(known, hours)
    BY <2>9, <2>10, SameChoice
  <2>13. Max(Severities) \in Int
    <3>1. IsFiniteSet(Severities) /\ Severities # {} /\ Severities \subseteq Int
      BY EvaluationAssumption
    <3> QED
      BY <3>1, LargestOf
  <2>14. ASSUME NEW t \in 0..(Max(Severities) + 1)
         PROVE  NoWorse(Counts(frame, hours, OperatingPoint(frame)), Counts(frame, hours, t))
    <3>1. t \in Int
      BY <2>13
    <3> QED
      BY <2>7, <2>8, <2>11, <3>1, NoNumberBetter
  <2> QED
    BY <2>11, <2>12, <2>14 DEF frame, hours, known, reach
<1>2. CourseOK => PointIsOfValidation
  BY <1>1 DEF PointIsOfValidation
<1> QED
  BY <1>2, CourseAlways, PTL

-----------------------------------------------------------------------------
(* The hourly panel of some readings.                                      *)

\* Finitely many readings, each with one level or none.
RowsOK(rows) ==
  /\ IsFiniteSet(rows)
  /\ \A r \in rows : r.at \in Nat /\ r.level \subseteq Nat /\ \A x, y \in r.level : x = y

\* A later slot is in no earlier hour.
LEMMA HourOrder ==
  ASSUME NEW i \in Nat, NEW j \in Nat, i <= j
  PROVE  HourOf(i) \in Nat /\ HourOf(j) \in Nat /\ HourOf(i) <= HourOf(j)
<1>1. PerHour \in Nat /\ PerHour > 0
  BY PanelAssumption
<1>2. i \div PerHour \in Nat /\ j \div PerHour \in Nat /\ i \div PerHour <= j \div PerHour
  BY <1>1
<1> QED
  BY <1>2 DEF HourOf

\* The panel runs from the hour of a first reading, and has the hour of each.
LEMMA HoursAre ==
  ASSUME NEW rows, RowsOK(rows), rows # {}
  PROVE  /\ FirstHour(rows) \in Nat /\ LastHour(rows) \in Nat
         /\ FirstHour(rows) <= LastHour(rows)
         /\ Hours(rows) = FirstHour(rows)..LastHour(rows)
         /\ \A r \in rows : HourOf(r.at) \in Hours(rows)
         /\ \E r \in rows : FirstHour(rows) = HourOf(r.at)
<1> DEFINE T == {r.at : r \in rows}
           f == [r \in rows |-> r.at]
<1>1. IsFiniteSet({f[r] : r \in rows})
  <2>1. rows \subseteq DOMAIN f /\ IsFiniteSet(rows)
    BY DEF RowsOK
  <2> QED
    BY <2>1, ValuesFinite
<1>2. T = {f[r] : r \in rows}
  OBVIOUS
<1>3. T \subseteq Nat /\ T # {} /\ T \subseteq Int
  BY DEF RowsOK
<1>4. PICK lo \in T : lo = Min(T) /\ \A x \in T : lo <= x
  <2> HIDE DEF T
  <2> QED
    BY <1>3, FirstOf
<1>5. PICK hi \in T : hi = Max(T) /\ \A x \in T : hi >= x
  <2> HIDE DEF T, f
  <2> QED
    BY <1>1, <1>2, <1>3, LargestOf
<1>6. FirstHour(rows) = HourOf(lo) /\ LastHour(rows) = HourOf(hi + PerHour - 1)
  BY <1>4, <1>5 DEF FirstHour, LastHour
<1>7. lo \in Nat /\ hi \in Nat /\ hi + PerHour - 1 \in Nat /\ hi <= hi + PerHour - 1
  BY <1>3, <1>4, <1>5, PanelAssumption
<1>8. \A r \in rows : r.at \in Nat /\ r.at \in T
  BY DEF RowsOK
<1>9. ASSUME NEW r \in rows
      PROVE  HourOf(lo) <= HourOf(r.at) /\ HourOf(r.at) <= HourOf(hi + PerHour - 1)
  <2>1. r.at \in Nat /\ lo <= r.at /\ r.at <= hi + PerHour - 1
    <3> HIDE DEF T
    <3> QED
      BY <1>4, <1>5, <1>7, <1>8
  <2> QED
    BY <1>7, <2>1, HourOrder
<1>10. HourOf(lo) \in Nat /\ HourOf(hi + PerHour - 1) \in Nat /\ HourOf(lo) <= HourOf(hi + PerHour - 1)
  BY <1>4, <1>5, <1>7, HourOrder
<1>11. Hours(rows) = HourOf(lo)..HourOf(hi + PerHour - 1)
  BY <1>6 DEF Hours
<1>12. \A r \in rows : HourOf(r.at) \in Nat
  BY <1>8, HourOrder
<1>13. PICK r \in rows : lo = r.at
  BY <1>4
<1> HIDE DEF T, f
<1> QED
  BY <1>6, <1>9, <1>10, <1>11, <1>12, <1>13

\* Finitely many readings have finitely many levels.
LEMMA LevelsFinite ==
  ASSUME NEW rows, RowsOK(rows)
  PROVE  IsFiniteSet(UNION {r.level : r \in rows})
<1> DEFINE f == [r \in rows |-> r.level]
           T == {f[r] : r \in rows}
<1>1. IsFiniteSet(T)
  <2>1. rows \subseteq DOMAIN f /\ IsFiniteSet(rows)
    BY DEF RowsOK
  <2> QED
    BY <2>1, ValuesFinite
<1>2. \A S \in T : IsFiniteSet(S)
  <2> SUFFICES ASSUME NEW r \in rows PROVE IsFiniteSet(r.level)
    OBVIOUS
  <2>1. CASE r.level = {}
    BY <2>1, FS_EmptySet
  <2>2. CASE r.level # {}
    <3>1. PICK x \in r.level : TRUE
      BY <2>2
    <3>2. r.level = {x}
      BY <3>1 DEF RowsOK
    <3> QED
      BY <3>2, FS_Singleton
  <2> QED
    BY <2>1, <2>2
<1>3. T = {r.level : r \in rows}
  OBVIOUS
<1> HIDE DEF T
<1>4. IsFiniteSet(UNION T)
  BY <1>1, <1>2, FS_UNION
<1> QED
  BY <1>3, <1>4

\* What is observed in an hour was read in it, and the hour is of the panel.
LEMMA ObservedAre ==
  ASSUME NEW rows, RowsOK(rows), NEW h
  PROVE  /\ Observed(rows, h) \subseteq Nat /\ IsFiniteSet(Observed(rows, h))
         /\ \A x \in Observed(rows, h) : \E r \in rows : HourOf(r.at) = h /\ x \in r.level
         /\ Observed(rows, h) # Missing => h \in Hours(rows) /\ h \in Nat
<1>1. ASSUME NEW x \in Observed(rows, h)
      PROVE  x \in Nat /\ \E r \in rows : HourOf(r.at) = h /\ x \in r.level
  BY DEF Observed, RowsOK
<1>2. Observed(rows, h) \subseteq UNION {r.level : r \in rows}
  BY <1>1
<1>3. IsFiniteSet(Observed(rows, h))
  BY <1>2, LevelsFinite, FS_Subset
<1>4. ASSUME Observed(rows, h) # Missing PROVE h \in Hours(rows) /\ h \in Nat
  <2>1. PICK r \in rows : HourOf(r.at) = h
    BY <1>1, <1>4 DEF Missing
  <2>2. r.at \in Nat
    BY DEF RowsOK
  <2> QED
    BY <2>1, <2>2, HoursAre, HourOrder
<1> QED
  BY <1>1, <1>3, <1>4

\* An hour with an observation is an hour of the panel, so that what there was to
\* carry forward can be said without the panel.
LEMMA SinceIs ==
  ASSUME NEW rows, RowsOK(rows), NEW h \in Int
  PROVE  /\ SinceObserved(rows, h) = {h - g : g \in {g \in Nat : g <= h /\ Observed(rows, g) # Missing}}
         /\ SinceObserved(rows, h) \subseteq Nat
<1>1. Hours(rows) \subseteq Nat
  BY HoursAre DEF Hours
<1>2. {g \in Hours(rows) : g <= h /\ Observed(rows, g) # Missing}
        = {g \in Nat : g <= h /\ Observed(rows, g) # Missing}
  BY <1>1, ObservedAre
<1>3. SinceObserved(rows, h) = {h - g : g \in {g \in Nat : g <= h /\ Observed(rows, g) # Missing}}
  BY <1>2 DEF SinceObserved
<1> QED
  BY <1>3

\* What is carried into an hour was observed in it or shortly before.
LEMMA CarriedIs ==
  ASSUME NEW rows, RowsOK(rows), NEW h \in Int
  PROVE  /\ Carried(rows, h) \subseteq Nat /\ IsFiniteSet(Carried(rows, h))
         /\ \A x \in Carried(rows, h) : \E g \in (h - CarryLimit)..h : x \in Observed(rows, g)
         /\ Observed(rows, h) # Missing => Carried(rows, h) = Observed(rows, h)
<1> DEFINE back == {n \in SinceObserved(rows, h) : n <= CarryLimit}
<1>1. back \subseteq Nat
  BY SinceIs
<1>2. CASE back = {}
  <2>1. Carried(rows, h) = {}
    BY <1>2 DEF Carried, Missing
  <2>2. Observed(rows, h) = Missing
    <3> SUFFICES ASSUME Observed(rows, h) # Missing PROVE FALSE
      OBVIOUS
    <3>1. h \in Nat
      BY ObservedAre
    <3>2. h - h \in SinceObserved(rows, h)
      BY <3>1, SinceIs
    <3> QED
      BY <1>2, <3>2 DEF CarryLimit
  <2> QED
    BY <2>1, <2>2, FS_EmptySet
<1>3. CASE back # {}
  <2>1. PICK n \in back : n = Min(back) /\ \A m \in back : n <= m
    <3> HIDE DEF back
    <3> QED
      BY <1>1, <1>3, FirstOf
  <2>2. Carried(rows, h) = Observed(rows, h - n)
    BY <1>3, <2>1 DEF Carried
  <2>3. n \in Nat /\ n <= 3
    BY <1>1, <2>1 DEF CarryLimit
  <2>4. h - n \in (h - CarryLimit)..h
    BY <2>3 DEF CarryLimit
  <2>5. ASSUME Observed(rows, h) # Missing PROVE n = 0
    <3>1. h \in Nat
      BY <2>5, ObservedAre
    <3>2. h - h \in SinceObserved(rows, h)
      BY <2>5, <3>1, SinceIs
    <3>3. 0 \in back
      BY <3>1, <3>2 DEF CarryLimit
    <3> QED
      BY <2>1, <2>3, <3>3
  <2>6. Observed(rows, h) # Missing => Carried(rows, h) = Observed(rows, h)
    BY <2>2, <2>5
  <2> QED
    BY <2>2, <2>4, <2>6, ObservedAre
<1> QED
  BY <1>2, <1>3

\* What is carried into an hour is known from what was observed up to it.
LEMMA CarriedAgree ==
  ASSUME NEW a, NEW b, NEW h \in Int, RowsOK(a), RowsOK(b),
         \A g \in Nat : g <= h => Observed(a, g) = Observed(b, g)
  PROVE  \A g \in Int : g <= h =>
           SinceObserved(a, g) = SinceObserved(b, g) /\ Carried(a, g) = Carried(b, g)
<1> TAKE g \in Int
<1> HAVE g <= h
<1>1. {k \in Nat : k <= g /\ Observed(a, k) # Missing} = {k \in Nat : k <= g /\ Observed(b, k) # Missing}
  OBVIOUS
<1>2. SinceObserved(a, g) = SinceObserved(b, g)
  BY <1>1, SinceIs
<1> DEFINE back == {n \in SinceObserved(b, g) : n <= CarryLimit}
<1>3. back = {n \in SinceObserved(a, g) : n <= CarryLimit}
  BY <1>2
<1>4. CASE back = {}
  BY <1>2, <1>3, <1>4 DEF Carried
<1>5. CASE back # {}
  <2>1. back \subseteq Nat
    BY SinceIs
  <2>2. PICK n \in back : n = Min(back)
    <3> HIDE DEF back
    <3> QED
      BY <1>5, <2>1, FirstOf
  <2>3. g - n \in Nat /\ g - n <= h
    <3>1. n \in SinceObserved(b, g)
      BY <2>2
    <3>2. PICK k \in Nat : k <= g /\ n = g - k
      BY <3>1, SinceIs
    <3> QED
      BY <3>2
  <2>4. Carried(a, g) = Observed(a, g - n)
    BY <1>3, <1>5, <2>2 DEF Carried
  <2>5. Carried(b, g) = Observed(b, g - n)
    BY <1>5, <2>2 DEF Carried
  <2> QED
    BY <1>2, <2>3, <2>4, <2>5
<1> QED
  BY <1>4, <1>5

-----------------------------------------------------------------------------
(* Labels.                                                                 *)

\* A future maximum is the greatest of the levels its window has.
LEMMA FutureIs ==
  ASSUME NEW rows, RowsOK(rows), NEW h \in Int, NEW horizon \in Nat,
         NEW x \in FutureMax(Levels(rows), h, horizon)
  PROVE  /\ x \in Nat
         /\ \E g \in (h + 1)..(h + horizon) : x \in Carried(rows, g)
         /\ \A g \in (h + 1)..(h + horizon) \cap Hours(rows) :
              \A y \in Carried(rows, g) : y <= x
<1> DEFINE window == (h + 1)..(h + horizon)
           S == Values(Levels(rows), window)
<1>1. \A y : y \in S <=> \E g \in window \cap Hours(rows) : y \in Carried(rows, g)
  BY Zenon DEF Values, Within, Levels, LevelsOn, Missing
<1>2. window \subseteq Int
  OBVIOUS
<1>3. S \subseteq Nat /\ S \subseteq Int
  BY <1>1, <1>2, CarriedIs
<1>4. S \subseteq UNION {r.level : r \in rows}
  <2> SUFFICES ASSUME NEW y \in S PROVE \E r \in rows : y \in r.level
    OBVIOUS
  <2>1. PICK g \in Int : y \in Carried(rows, g)
    BY <1>1, <1>2
  <2>2. PICK k \in Int : y \in Observed(rows, k)
    BY <2>1, CarriedIs DEF CarryLimit
  <2> QED
    BY <2>2, ObservedAre
<1>5. IsFiniteSet(S)
  BY <1>4, LevelsFinite, FS_Subset
<1>6. x \in Top(S)
  BY DEF FutureMax, Missing
<1> HIDE DEF S
<1>7. S # {} /\ x = Max(S)
  BY <1>6 DEF Top, Missing
<1>8. x \in S /\ \A y \in S : x >= y
  BY <1>3, <1>5, <1>7, LargestOf
<1>9. ASSUME NEW g \in window \cap Hours(rows), NEW y \in Carried(rows, g) PROVE y <= x
  BY <1>1, <1>8, <1>3
<1> QED
  BY <1>1, <1>3, <1>8, <1>9

\* A positive label has a reading behind it, and a negative one none against it.
LEMMA LabelsWitnessed ==
  ASSUME NEW rows, RowsOK(rows), NEW h \in Hours(rows), NEW horizon \in Horizons,
         NEW threshold \in Thresholds
  PROVE  /\ TRUE \in Label(Levels(rows), h, horizon, threshold) =>
              \E r \in rows :
                /\ \E x \in r.level : x >= threshold
                /\ HourOf(r.at) \in (h + 1 - CarryLimit)..(h + horizon)
         /\ FALSE \in Label(Levels(rows), h, horizon, threshold) =>
              \A g \in (h + 1)..(h + horizon) :
                \A x \in Observed(rows, g) : x < threshold
<1>1. h \in Nat /\ h \in Int /\ horizon \in Nat /\ threshold \in Nat
  BY HoursAre, PanelAssumption DEF Hours
<1>2. ASSUME TRUE \in Label(Levels(rows), h, horizon, threshold)
      PROVE  \E r \in rows :
               /\ \E x \in r.level : x >= threshold
               /\ HourOf(r.at) \in (h + 1 - CarryLimit)..(h + horizon)
  <2>1. PICK x \in FutureMax(Levels(rows), h, horizon) : x >= threshold
    BY <1>2 DEF Label
  <2>2. PICK g \in (h + 1)..(h + horizon) : x \in Carried(rows, g)
    BY Zenon, <1>1, <2>1, FutureIs
  <2>3. PICK k \in (g - CarryLimit)..g : x \in Observed(rows, k)
    BY <1>1, <2>2, CarriedIs
  <2>4. PICK r \in rows : HourOf(r.at) = k /\ x \in r.level
    BY <2>3, ObservedAre
  <2> QED
    BY <1>1, <2>1, <2>2, <2>3, <2>4 DEF CarryLimit
<1>3. ASSUME FALSE \in Label(Levels(rows), h, horizon, threshold),
             NEW g \in (h + 1)..(h + horizon), NEW y \in Observed(rows, g)
      PROVE  y < threshold
  <2>1. PICK x \in FutureMax(Levels(rows), h, horizon) : ~(x >= threshold)
    BY <1>3 DEF Label
  <2>2. g \in Int /\ g \in Hours(rows) /\ Carried(rows, g) = Observed(rows, g) /\ y \in Nat
    BY <1>1, <1>3, ObservedAre, CarriedIs DEF Missing
  <2>3. x \in Nat /\ \A k \in (h + 1)..(h + horizon) \cap Hours(rows) : \A z \in Carried(rows, k) : z <= x
    BY Zenon, <1>1, <2>1, FutureIs
  <2> QED
    BY <1>1, <2>1, <2>2, <2>3
<1> QED
  BY <1>2, <1>3

-----------------------------------------------------------------------------
(* Two sets of readings that are the same up to an hour.                   *)

\* Two series are the same up to an hour, and have the same hours up to it.
Agree(s, t, h) ==
  \A g \in Int : g <= h =>
    /\ g \in DOMAIN s <=> g \in DOMAIN t
    /\ g \in DOMAIN s => s[g] = t[g]

\* The panels of two sets of readings that are the same up to an hour begin
\* together, and are the same up to it.
LEMMA PanelsAgree ==
  ASSUME NEW a, NEW b, NEW h \in Int, RowsOK(a), RowsOK(b),
         \A r : HourOf(r.at) <= h => (r \in a <=> r \in b),
         \E r \in a : HourOf(r.at) <= h,
         h <= LastHour(a), h <= LastHour(b)
  PROVE  /\ FirstHour(a) = FirstHour(b)
         /\ Agree(Levels(a), Levels(b), h)
<1>1. a # {} /\ b # {}
  OBVIOUS
<1>2. \A r \in a \cup b : HourOf(r.at) \in Nat
  BY HourOrder DEF RowsOK
<1>3. PICK p \in a : FirstHour(a) = HourOf(p.at)
  BY <1>1, HoursAre
<1>4. PICK q \in b : FirstHour(b) = HourOf(q.at)
  BY <1>1, HoursAre
<1>5. \A r \in a : FirstHour(a) <= HourOf(r.at)
  BY <1>1, HoursAre
<1>6. \A r \in b : FirstHour(b) <= HourOf(r.at)
  BY <1>1, HoursAre
<1>7. FirstHour(a) = FirstHour(b)
  <2>1. HourOf(p.at) <= h
    BY <1>2, <1>3, <1>5
  <2>2. HourOf(q.at) <= HourOf(p.at)
    BY <1>3, <1>4, <1>6, <2>1
  <2>3. HourOf(p.at) <= HourOf(q.at)
    BY <1>2, <1>3, <1>4, <1>5, <2>1, <2>2
  <2> QED
    BY <1>2, <1>3, <1>4, <2>2, <2>3
<1>8. Hours(a) = FirstHour(a)..LastHour(a) /\ Hours(b) = FirstHour(a)..LastHour(b)
      /\ FirstHour(a) \in Nat /\ LastHour(a) \in Nat /\ LastHour(b) \in Nat
  BY <1>1, <1>7, HoursAre
<1>9. \A g \in Int : g <= h => (g \in Hours(a) <=> g \in Hours(b))
  BY <1>8
<1>10. ASSUME NEW g \in Int, g <= h
       PROVE  Observed(a, g) = Observed(b, g)
  <2>1. \A r : HourOf(r.at) = g => (r \in a <=> r \in b)
    BY <1>10
  <2>2. {r \in a : HourOf(r.at) = g /\ r.level # Missing} = {r \in b : HourOf(r.at) = g /\ r.level # Missing}
    BY <2>1
  <2> QED
    BY <2>2 DEF Observed
<1>11. \A g \in Int : g <= h => Carried(a, g) = Carried(b, g)
  <2>1. \A g \in Nat : g <= h => Observed(a, g) = Observed(b, g)
    BY <1>10
  <2> QED
    BY <2>1, CarriedAgree
<1>12. Agree(Levels(a), Levels(b), h)
  BY <1>9, <1>11 DEF Agree, Levels, LevelsOn
<1> QED
  BY <1>7, <1>12

\* So are the levels of any hours up to it.
LEMMA ValuesAgree ==
  ASSUME NEW s, NEW t, NEW h, NEW S, S \subseteq Int, \A g \in S : g <= h, Agree(s, t, h)
  PROVE  Within(s, S) = Within(t, S) /\ Values(s, S) = Values(t, S)
<1>1. \A g \in S : (g \in DOMAIN s <=> g \in DOMAIN t) /\ (g \in DOMAIN s => s[g] = t[g])
  BY DEF Agree
<1>2. Within(s, S) = Within(t, S)
  BY <1>1 DEF Within
<1>3. \A g \in Within(s, S) : s[g] = t[g]
  BY <1>1 DEF Within
<1>4. {s[g] : g \in Within(s, S)} = {t[g] : g \in Within(t, S)}
  BY <1>2, <1>3
<1> QED
  BY <1>2, <1>4 DEF Values

\* Readings newer than all there are change no settled label.
LEMMA SettledStay ==
  ASSUME NEW old, NEW new, NEW h \in Hours(old), NEW horizon \in Horizons,
         RowsOK(old), RowsOK(new), old \subseteq new,
         \A r \in new \ old : \A q \in old : q.at < r.at,
         Settled(old, h, horizon)
  PROVE  FutureMax(Levels(new), h, horizon) = FutureMax(Levels(old), h, horizon)
<1>1. horizon \in Nat \ {0} /\ old # {} /\ new # {}
  BY PanelAssumption DEF Settled
<1>2. h \in Nat
  BY <1>1, HoursAre
<1> DEFINE T == {r.at : r \in old}
           f == [r \in old |-> r.at]
<1>0. PICK k \in Int : k = h + horizon
  BY <1>1, <1>2
<1>3. PICK m \in old : m.at = Max(T)
  <2>1. IsFiniteSet({f[r] : r \in old}) /\ {f[r] : r \in old} = T
    <3>1. old \subseteq DOMAIN f /\ IsFiniteSet(old)
      BY DEF RowsOK
    <3>2. IsFiniteSet({f[r] : r \in old})
      BY <3>1, ValuesFinite
    <3> QED
      BY <3>2
  <2>2. T # {} /\ T \subseteq Int
    BY <1>1 DEF RowsOK
  <2>3. Max(T) \in T
    <3> HIDE DEF T, f
    <3> QED
      BY <2>1, <2>2, LargestOf
  <2> QED
    BY <2>3
<1>4. k < HourOf(m.at) /\ m.at \in Nat
  BY <1>0, <1>3 DEF Settled, RowsOK
<1>5. HourOf(m.at) \in Hours(old) /\ HourOf(m.at) \in Hours(new) /\ HourOf(m.at) \in Nat
  <2>1. m \in old /\ m \in new
    BY <1>3
  <2>2. HourOf(m.at) \in Hours(old)
    BY <1>1, <2>1, HoursAre
  <2>3. HourOf(m.at) \in Hours(new)
    BY <1>1, <2>1, HoursAre
  <2>4. HourOf(m.at) \in Nat
    BY <1>4, HourOrder
  <2> QED
    BY <2>2, <2>3, <2>4
<1>6. \A r \in new \ old : HourOf(m.at) <= HourOf(r.at) /\ HourOf(r.at) \in Nat
  <2> SUFFICES ASSUME NEW r \in new \ old
               PROVE  HourOf(m.at) <= HourOf(r.at) /\ HourOf(r.at) \in Nat
    OBVIOUS
  <2>1. r.at \in Nat /\ m.at <= r.at
    BY <1>3, <1>4 DEF RowsOK
  <2> QED
    BY <1>4, <2>1, HourOrder
<1>7. h \in Int /\ h <= k
  BY <1>0, <1>1, <1>2
<1>8. \A r : HourOf(r.at) <= k => (r \in old <=> r \in new)
  BY <1>4, <1>5, <1>6, <1>7
<1>9. \E r \in old : HourOf(r.at) <= k
  <2>1. PICK r \in old : HourOf(r.at) = FirstHour(old)
    BY <1>1, HoursAre
  <2>2. FirstHour(old) \in Nat /\ FirstHour(old) <= h
    BY <1>1, <1>2, HoursAre
  <2> QED
    BY <1>7, <2>1, <2>2
<1>10. /\ Hours(old) = FirstHour(old)..LastHour(old) /\ FirstHour(old) \in Nat /\ LastHour(old) \in Nat
       /\ Hours(new) = FirstHour(new)..LastHour(new) /\ FirstHour(new) \in Nat /\ LastHour(new) \in Nat
  BY <1>1, HoursAre
<1>11. k <= LastHour(old) /\ k <= LastHour(new)
  BY <1>4, <1>5, <1>7, <1>10
<1>12. Agree(Levels(old), Levels(new), k)
  BY <1>8, <1>9, <1>11, PanelsAgree
<1>13. Values(Levels(new), (h + 1)..(h + horizon)) = Values(Levels(old), (h + 1)..(h + horizon))
  <2>1. PICK window : window = (h + 1)..(h + horizon)
    OBVIOUS
  <2>2. window \subseteq Int
    BY <1>1, <1>2, <2>1
  <2>3. \A g \in window : g <= k
    BY <1>0, <1>1, <1>2, <2>1
  <2>4. Values(Levels(old), window) = Values(Levels(new), window)
    BY <1>12, <2>2, <2>3, ValuesAgree
  <2> QED
    BY <2>1, <2>4
<1>14. h + horizon - 1 \in DOMAIN Levels(new) <=> h + horizon - 1 \in DOMAIN Levels(old)
  <2>1. h + horizon - 1 \in Int /\ h + horizon - 1 <= k
    BY <1>0, <1>1, <1>2
  <2>2. \A g \in Int : g <= k => (g \in DOMAIN Levels(new) <=> g \in DOMAIN Levels(old))
    BY <1>12 DEF Agree
  <2> QED
    BY <2>1, <2>2
<1> QED
  BY <1>13, <1>14 DEF FutureMax

-----------------------------------------------------------------------------
(* Sums and the antecedent precipitation index.                            *)

\* A fold over a set reads only what the set has.
LEMMA SumsAgree ==
  ASSUME NEW f, NEW g, NEW S, \A x \in S : f[x] = g[x]
  PROVE  SumOver(f, S) = SumOver(g, S)
<1> DEFINE F(it) == [s \in SUBSET S |-> IF s = {} THEN 0
                      ELSE f[CHOOSE x \in s : TRUE] + it[s \ {CHOOSE x \in s : TRUE}]]
           G(it) == [s \in SUBSET S |-> IF s = {} THEN 0
                      ELSE g[CHOOSE x \in s : TRUE] + it[s \ {CHOOSE x \in s : TRUE}]]
<1>1. \A s \in SUBSET S : s # {} => f[CHOOSE x \in s : TRUE] = g[CHOOSE x \in s : TRUE]
  <2> TAKE s \in SUBSET S
  <2> HAVE s # {}
  <2>1. (CHOOSE x \in s : TRUE) \in s
    OBVIOUS
  <2> QED
    BY <2>1
<1>2. ASSUME NEW it PROVE F(it) = G(it)
  BY <1>1
<1>3. SumOver(f, S) = (CHOOSE it : it = F(it))[S]
  BY DEF SumOver, MapThenSumSet, MapThenFoldSet
<1>4. SumOver(g, S) = (CHOOSE it : it = G(it))[S]
  BY DEF SumOver, MapThenSumSet, MapThenFoldSet
<1>5. (CHOOSE it : it = F(it)) = (CHOOSE it : it = G(it))
  <2>1. \A it : it = F(it) <=> it = G(it)
    BY <1>2
  <2> HIDE DEF F, G
  <2> QED
    BY Zenon, <2>1
<1> QED
  BY <1>3, <1>4, <1>5

\* The index of an hour from the index of the hour before it.
ApiStep(rain, first, api, h) ==
  (IF h = first THEN 0 ELSE Decayed(api[h - 1])) + 1000 * rain[h]

\* Its definition by recursion is one: there is such a function up to each hour, or
\* else there would be a first hour without.
LEMMA ApiIs ==
  ASSUME NEW rain, NEW lo \in Nat, NEW hi \in Nat, lo <= hi, DOMAIN rain = lo..hi
  PROVE  \A h \in lo..hi : Api(rain)[h] = ApiStep(rain, lo, Api(rain), h)
<1> DEFINE Upto(m) == \E f : f = [h \in lo..m |-> ApiStep(rain, lo, f, h)]
           Bad == {m \in Nat : lo <= m /\ ~Upto(m)}
<1>1. Bad = {}
  <2> SUFFICES ASSUME Bad # {} PROVE FALSE
    OBVIOUS
  <2>1. PICK m \in Bad : \A n \in Bad : m <= n
    <3>1. Bad \subseteq Nat
      OBVIOUS
    <3> HIDE DEF Bad
    <3> QED
      BY <3>1, FirstOf
  <2>2. m \in Nat /\ lo <= m /\ ~Upto(m)
    BY <2>1
  <2>3. CASE m = lo
    <3> DEFINE f == [h \in lo..m |-> 0 + 1000 * rain[h]]
    <3>1. f = [h \in lo..m |-> ApiStep(rain, lo, f, h)]
      BY <2>3 DEF ApiStep
    <3> QED
      BY <2>2, <3>1
  <2>4. CASE m # lo
    <3>1. m - 1 \in Nat /\ lo <= m - 1 /\ ~(m <= m - 1)
      BY <2>2, <2>4
    <3>2. m - 1 \notin Bad
      <4> HIDE DEF Bad
      <4> QED
        BY <2>1, <3>1
    <3>3. PICK f : f = [h \in lo..(m - 1) |-> ApiStep(rain, lo, f, h)]
      BY <3>1, <3>2
    <3> DEFINE g == [h \in lo..m |-> ApiStep(rain, lo, f, h)]
    <3>4. \A h \in lo..(m - 1) : f[h] = ApiStep(rain, lo, f, h)
      BY <3>3
    <3>5. \A h \in lo..m : h # lo => h - 1 \in lo..(m - 1) /\ h - 1 \in lo..m
      BY <2>2
    <3>6. \A h \in lo..m : h # lo => g[h - 1] = f[h - 1]
      BY <3>4, <3>5
    <3>7. \A h \in lo..m : ApiStep(rain, lo, f, h) = ApiStep(rain, lo, g, h)
      <4> HIDE DEF g
      <4> QED
        BY <3>6 DEF ApiStep
    <3>8. g = [h \in lo..m |-> ApiStep(rain, lo, g, h)]
      BY <3>7
    <3> QED
      <4> HIDE DEF g
      <4> QED
        BY <2>2, <3>8
  <2> QED
    BY <2>3, <2>4
<1>2. Upto(hi)
  BY <1>1
<1>3. Min(lo..hi) = lo
  <2>1. lo..hi \subseteq Nat /\ lo \in lo..hi
    OBVIOUS
  <2>2. Min(lo..hi) \in lo..hi /\ \A x \in lo..hi : Min(lo..hi) <= x
    BY <2>1, FirstOf
  <2> QED
    BY <2>1, <2>2
<1>4. Api(rain) = CHOOSE f : f = [h \in lo..hi |-> ApiStep(rain, lo, f, h)]
  BY <1>3 DEF Api, ApiStep
<1>5. Api(rain) = [h \in lo..hi |-> ApiStep(rain, lo, Api(rain), h)]
  BY <1>2, <1>4
<1> QED
  BY <1>5

\* The index of an hour is known from the rain up to it.
LEMMA ApiAgrees ==
  ASSUME NEW r, NEW s, NEW lo \in Nat, NEW hi \in Nat, NEW top \in Nat, NEW h \in Nat,
         DOMAIN r = lo..hi, DOMAIN s = lo..top, lo <= h, h <= hi, h <= top,
         Agree(r, s, h)
  PROVE  Api(r)[h] = Api(s)[h]
<1> DEFINE Bad == {g \in Nat : lo <= g /\ g <= h /\ Api(r)[g] # Api(s)[g]}
<1>1. \A g \in lo..h : Api(r)[g] = ApiStep(r, lo, Api(r), g) /\ Api(s)[g] = ApiStep(s, lo, Api(s), g)
  <2>1. lo <= hi /\ lo <= top /\ \A g \in lo..h : g \in lo..hi /\ g \in lo..top
    OBVIOUS
  <2> QED
    BY <2>1, ApiIs
<1>2. \A g \in lo..h : r[g] = s[g]
  BY DEF Agree
<1>3. Bad = {}
  <2> SUFFICES ASSUME Bad # {} PROVE FALSE
    OBVIOUS
  <2>1. PICK m \in Bad : \A n \in Bad : m <= n
    <3>1. Bad \subseteq Nat
      OBVIOUS
    <3> HIDE DEF Bad
    <3> QED
      BY <3>1, FirstOf
  <2>2. m \in lo..h /\ Api(r)[m] # Api(s)[m]
    BY <2>1
  <2>3. m # lo => Api(r)[m - 1] = Api(s)[m - 1]
    <3> SUFFICES ASSUME m # lo PROVE m - 1 \notin Bad /\ m - 1 \in Nat /\ lo <= m - 1 /\ m - 1 <= h
      OBVIOUS
    <3>1. m - 1 \in Nat /\ lo <= m - 1 /\ m - 1 <= h /\ ~(m <= m - 1)
      BY <2>2
    <3> HIDE DEF Bad
    <3> QED
      BY <2>1, <3>1
  <2>4. ApiStep(r, lo, Api(r), m) = ApiStep(s, lo, Api(s), m)
    BY <1>2, <2>2, <2>3 DEF ApiStep
  <2> QED
    BY <1>1, <2>2, <2>4
<1> QED
  BY <1>3

-----------------------------------------------------------------------------
(* Features.                                                               *)

\* The hours of a window are up to its last.
LEMMA WindowIs ==
  ASSUME NEW h \in Int, NEW w
  PROVE  Before(h, w) \subseteq Int /\ \A g \in Before(h, w) : g <= h
BY DEF Before

\* Every feature of the levels is known from the levels up to its hour.
LEMMA LevelsKnown ==
  ASSUME NEW s, NEW t, NEW h \in Int, NEW least, Agree(s, t, h),
         h \in DOMAIN s, DOMAIN s \subseteq Int, DOMAIN t \subseteq Int
  PROVE  /\ LevelFeatures(s, h, least) = LevelFeatures(t, h, least)
         /\ RankInPast(s, h) = RankInPast(t, h)
         /\ Persistence(s, h) = Persistence(t, h)
<1>1. ASSUME NEW g \in Int, g <= h PROVE At(s, g) = At(t, g)
  BY <1>1 DEF At, Agree
<1>2. ASSUME NEW g \in Int, g <= h, NEW lag \in Nat PROVE Delta(s, g, lag) = Delta(t, g, lag)
  <2>1. g - lag \in Int /\ g - lag <= h
    BY <1>2
  <2>2. At(s, g) = At(t, g) /\ At(s, g - lag) = At(t, g - lag)
    BY <1>1, <1>2, <2>1
  <2> QED
    BY <2>2 DEF Delta
<1>3. Acceleration(s, h) = Acceleration(t, h)
  <2>1. h - 3 \in Int /\ h - 3 <= h /\ 3 \in Nat
    OBVIOUS
  <2>2. Delta(s, h, 3) = Delta(t, h, 3) /\ Delta(s, h - 3, 3) = Delta(t, h - 3, 3)
    BY <1>2, <2>1
  <2> QED
    BY <2>2 DEF Acceleration
<1>4. ASSUME NEW w
      PROVE  /\ RollingMax(s, h, w, least) = RollingMax(t, h, w, least)
             /\ RollingRange(s, h, w, least) = RollingRange(t, h, w, least)
  <2>1. /\ Within(s, Before(h, w)) = Within(t, Before(h, w))
        /\ Values(s, Before(h, w)) = Values(t, Before(h, w))
    BY WindowIs, ValuesAgree
  <2>2. RollingMax(s, h, w, least) = RollingMax(t, h, w, least)
    BY Zenon, <2>1 DEF RollingMax
  <2> QED
    BY Zenon, <2>1, <2>2 DEF RollingRange
<1>5. \A g \in Int : g <= h =>
        (g \in DOMAIN s <=> g \in DOMAIN t) /\ (g \in DOMAIN s => s[g] = t[g])
  BY DEF Agree
<1>6. SinceAlert(s, h) = SinceAlert(t, h)
  <2>1. {g \in DOMAIN s : g <= h /\ \E x \in s[g] : x >= AlertLevel}
          = {g \in DOMAIN t : g <= h /\ \E x \in t[g] : x >= AlertLevel}
    BY <1>5
  <2> QED
    BY Zenon, <2>1 DEF SinceAlert
<1>7. LevelFeatures(s, h, least) = LevelFeatures(t, h, least)
  <2>1. At(s, h) = At(t, h)
    BY <1>1
  <2>2. [lag \in Lags |-> Delta(s, h, lag)] = [lag \in Lags |-> Delta(t, h, lag)]
    BY <1>2, FeatureAssumption
  <2>3. [w \in Windows |-> RollingMax(s, h, w, least)] = [w \in Windows |-> RollingMax(t, h, w, least)]
    BY <1>4
  <2>4. [w \in Windows |-> RollingRange(s, h, w, least)] = [w \in Windows |-> RollingRange(t, h, w, least)]
    BY <1>4
  <2> QED
    BY Zenon, <1>3, <1>6, <2>1, <2>2, <2>3, <2>4 DEF LevelFeatures
<1>8. RankInPast(s, h) = RankInPast(t, h)
  <2>1. {g \in DOMAIN s : g <= h} = {g \in DOMAIN t : g <= h}
    BY <1>5
  <2>2. Within(s, {g \in DOMAIN s : g <= h}) = Within(t, {g \in DOMAIN t : g <= h})
    BY <1>5, <2>1 DEF Within
  <2>3. {g \in DOMAIN s : g < h} = {g \in DOMAIN t : g < h}
    BY <1>5
  <2>4. s[h] = t[h]
    BY <1>5
  <2>5. {g \in DOMAIN s : g < h /\ \E x \in s[h], y \in s[g] : y <= x}
          = {g \in DOMAIN t : g < h /\ \E x \in t[h], y \in t[g] : y <= x}
    BY <1>5, <2>4
  <2> QED
    BY Zenon, <2>2, <2>3, <2>5 DEF RankInPast
<1>9. Persistence(s, h) = Persistence(t, h)
  <2>1. At(s, h) = At(t, h)
    BY <1>1
  <2> QED
    BY Zenon, <2>1 DEF Persistence
<1> QED
  BY <1>7, <1>8, <1>9

\* So is every feature of the rain.
LEMMA RainKnown ==
  ASSUME NEW r, NEW s, NEW lo \in Nat, NEW hi \in Nat, NEW top \in Nat, NEW h \in Nat,
         DOMAIN r = lo..hi, DOMAIN s = lo..top, lo <= h, h <= hi, h <= top,
         Agree(r, s, h)
  PROVE  RainFeatures(r, h) = RainFeatures(s, h) /\ RainBaseline(r, h) = RainBaseline(s, h)
<1>1. ASSUME NEW w
      PROVE  /\ Before(h, w) \cap DOMAIN r = Before(h, w) \cap DOMAIN s
             /\ \A g \in Before(h, w) \cap DOMAIN r : r[g] = s[g]
  BY WindowIs DEF Agree
<1>2. ASSUME NEW w PROVE RainOver(r, h, w) = RainOver(s, h, w)
  <2>1. SumOver(r, Before(h, w) \cap DOMAIN r) = SumOver(s, Before(h, w) \cap DOMAIN r)
    BY <1>1, SumsAgree
  <2> QED
    BY Zenon, <1>1, <2>1 DEF RainOver
<1>3. ASSUME NEW w PROVE WetHours(r, h, w) = WetHours(s, h, w)
  <2>1. {g \in Before(h, w) \cap DOMAIN r : r[g] > 0} = {g \in Before(h, w) \cap DOMAIN s : s[g] > 0}
    BY <1>1
  <2> QED
    BY Zenon, <2>1 DEF WetHours
<1>4. Api(r)[h] = Api(s)[h]
  BY ApiAgrees
<1>5. [w \in Windows |-> RainOver(r, h, w)] = [w \in Windows |-> RainOver(s, h, w)]
  BY <1>2
<1>6. [w \in Windows |-> WetHours(r, h, w)] = [w \in Windows |-> WetHours(s, h, w)]
  BY <1>3
<1>7. RainFeatures(r, h) = RainFeatures(s, h)
  BY Zenon, <1>4, <1>5, <1>6 DEF RainFeatures
<1>8. RainBaseline(r, h) = RainBaseline(s, h)
  BY Zenon, <1>2 DEF RainBaseline
<1> QED
  BY <1>7, <1>8

\* The panel as it stood at the end of an hour is the panel up to it.
LEMMA KnownIs ==
  ASSUME NEW rows, RowsOK(rows), NEW h \in Nat
  PROVE  /\ DOMAIN Panel(rows).level = Hours(rows) /\ DOMAIN Panel(rows).rain = Hours(rows)
         /\ DOMAIN Known(rows, h).level = {g \in Hours(rows) : g <= h}
         /\ DOMAIN Known(rows, h).rain = {g \in Hours(rows) : g <= h}
         /\ Agree(Panel(rows).level, Known(rows, h).level, h)
         /\ Agree(Panel(rows).rain, Known(rows, h).rain, h)
         /\ SinceObserved(rows, h) = SinceObserved(Known(rows, h).rows, h)
<1> DEFINE past == {r \in rows : HourOf(r.at) <= h}
           hours == {g \in Hours(rows) : g <= h}
<1>1. RowsOK(past) /\ h \in Int
  BY FS_Subset DEF RowsOK
<1>2. ASSUME NEW g \in Int, g <= h
      PROVE  Observed(rows, g) = Observed(past, g) /\ FellIn(rows, g) = FellIn(past, g)
  <2>1. \A r : HourOf(r.at) = g => (r \in rows <=> r \in past)
    BY <1>2
  <2>2. {r \in rows : HourOf(r.at) = g /\ r.level # Missing} = {r \in past : HourOf(r.at) = g /\ r.level # Missing}
    BY <2>1
  <2>3. {r \in rows : HourOf(r.at) = g /\ r.rain # Missing} = {r \in past : HourOf(r.at) = g /\ r.rain # Missing}
    BY <2>1
  <2> QED
    BY <2>2, <2>3 DEF Observed, FellIn
<1>3. \A g \in Int : g <= h =>
        SinceObserved(rows, g) = SinceObserved(past, g) /\ Carried(rows, g) = Carried(past, g)
  <2>1. \A g \in Nat : g <= h => Observed(rows, g) = Observed(past, g)
    BY <1>2
  <2> HIDE DEF past
  <2> QED
    BY <1>1, <2>1, CarriedAgree
<1> HIDE DEF past
<1>4. /\ Panel(rows).level = [g \in Hours(rows) |-> Carried(rows, g)]
      /\ Panel(rows).rain = [g \in Hours(rows) |-> RainOf(FellIn(rows, g))]
  BY DEF Panel, PanelOn, LevelsOn, RainOn
<1>5. /\ Known(rows, h).level = [g \in hours |-> Carried(past, g)]
      /\ Known(rows, h).rain = [g \in hours |-> RainOf(FellIn(past, g))]
      /\ Known(rows, h).rows = past
  BY DEF Known, PanelOn, LevelsOn, RainOn, past
<1>6. Agree(Panel(rows).level, Known(rows, h).level, h)
  BY <1>3, <1>4, <1>5 DEF Agree
<1>7. Agree(Panel(rows).rain, Known(rows, h).rain, h)
  BY <1>2, <1>4, <1>5 DEF Agree
<1>8. SinceObserved(rows, h) = SinceObserved(Known(rows, h).rows, h)
  BY <1>1, <1>3, <1>5
<1> QED
  BY <1>4, <1>5, <1>6, <1>7, <1>8

\* The features of an hour at the gauge itself are those its past gives.
LEMMA FeaturesKnown ==
  ASSUME NEW rows, RowsOK(rows), NEW h \in Hours(rows)
  PROVE  /\ [DataSetFeatures(Panel(rows), h) EXCEPT !.rank = Missing]
               = [DataSetFeatures(Known(rows, h), h) EXCEPT !.rank = Missing]
         /\ ExperimentFeatures(Panel(rows), h) = ExperimentFeatures(Known(rows, h), h)
<1>1. rows # {}
  BY DEF Hours
<1>2. /\ Hours(rows) = FirstHour(rows)..LastHour(rows)
      /\ FirstHour(rows) \in Nat /\ LastHour(rows) \in Nat
      /\ h \in Nat /\ h \in Int /\ FirstHour(rows) <= h /\ h <= LastHour(rows)
  BY <1>1, HoursAre
<1> DEFINE all == Panel(rows)
           known == Known(rows, h)
<1>3. /\ DOMAIN all.level = Hours(rows) /\ DOMAIN all.rain = Hours(rows)
      /\ DOMAIN known.level = {g \in Hours(rows) : g <= h}
      /\ DOMAIN known.rain = {g \in Hours(rows) : g <= h}
      /\ Agree(all.level, known.level, h) /\ Agree(all.rain, known.rain, h)
      /\ SinceObserved(rows, h) = SinceObserved(known.rows, h)
  BY <1>2, KnownIs
<1>4. all.rows = rows /\ known.rows = {r \in rows : HourOf(r.at) <= h}
  BY DEF Panel, Known, PanelOn
<1>5. FirstHour(known.rows) = FirstHour(rows)
  <2>1. RowsOK(known.rows) /\ known.rows \subseteq rows
    BY <1>4, FS_Subset DEF RowsOK
  <2>2. PICK p \in rows : FirstHour(rows) = HourOf(p.at)
    BY <1>1, HoursAre
  <2>3. p \in known.rows /\ known.rows # {}
    BY <1>2, <1>4, <2>2
  <2>4. PICK q \in known.rows : FirstHour(known.rows) = HourOf(q.at)
    BY <2>1, <2>3, HoursAre
  <2>5. \A r \in rows : FirstHour(rows) <= HourOf(r.at) /\ HourOf(r.at) \in Nat
    BY <1>1, <1>2, HoursAre
  <2>6. \A r \in known.rows : FirstHour(known.rows) <= HourOf(r.at)
    BY <2>1, <2>3, HoursAre
  <2>7. FirstHour(known.rows) <= FirstHour(rows) /\ FirstHour(rows) <= FirstHour(known.rows)
    BY <2>1, <2>2, <2>3, <2>4, <2>5, <2>6
  <2> QED
    BY <1>2, <2>1, <2>4, <2>5, <2>7
<1> HIDE DEF all, known
<1>6. DOMAIN all.level \subseteq Int /\ DOMAIN known.level \subseteq Int
  BY <1>2, <1>3
<1>7. \A least : LevelFeatures(all.level, h, least) = LevelFeatures(known.level, h, least)
  BY <1>2, <1>3, <1>6, LevelsKnown
<1>8. /\ RankInPast(all.level, h) = RankInPast(known.level, h)
      /\ Persistence(all.level, h) = Persistence(known.level, h)
  BY <1>2, <1>3, <1>6, LevelsKnown
<1>9. /\ RainFeatures(all.rain, h) = RainFeatures(known.rain, h)
      /\ RainBaseline(all.rain, h) = RainBaseline(known.rain, h)
  <2>1. DOMAIN all.rain = FirstHour(rows)..LastHour(rows) /\ DOMAIN known.rain = FirstHour(rows)..h
    BY <1>2, <1>3
  <2> QED
    BY <1>2, <1>3, <2>1, RainKnown
<1>10. Age(all.rows, h) = Age(known.rows, h) /\ AgeOfExperiment(all.rows, h) = AgeOfExperiment(known.rows, h)
  <2>1. all.rows = rows
    BY <1>4
  <2> QED
    BY Zenon, <1>3, <1>5, <2>1 DEF Age, AgeOfExperiment
<1>11. [DataSetFeatures(all, h) EXCEPT !.rank = Missing] = [DataSetFeatures(known, h) EXCEPT !.rank = Missing]
  <2>1. \A p : [DataSetFeatures(p, h) EXCEPT !.rank = Missing]
                 = [levels |-> LevelFeatures(p.level, h, 2), rank |-> Missing,
                    rain |-> RainFeatures(p.rain, h), age |-> Age(p.rows, h)]
    BY DEF DataSetFeatures
  <2> QED
    BY <1>7, <1>9, <1>10, <2>1
<1>12. ExperimentFeatures(all, h) = ExperimentFeatures(known, h)
  BY Zenon, <1>7, <1>8, <1>9, <1>10 DEF ExperimentFeatures
<1> QED
  BY <1>11, <1>12 DEF all, known

\* A lag that was looked for is one of the search, or its default.
LEMMA LagIs ==
  ASSUME NEW up, NEW down
  PROVE  DataSetLag(up, down) \in Nat /\ ExperimentLag(up, down) \in Nat
<1>1. ASSUME NEW u, NEW d, NEW search, search \in Searches
      PROVE  BestLag(u, d, search) \subseteq Nat
  <2>1. BestLags(u, d, search.most) \subseteq Nat
    BY <1>1 DEF BestLags, Searches
  <2>2. BestLags(u, d, search.most) # {} => Min(BestLags(u, d, search.most)) \in Nat
    BY <2>1, FirstOf
  <2> QED
    BY <2>2 DEF BestLag, Missing
<1>2. DataSetSearch \in Searches /\ ExperimentSearch \in Searches
  BY FeatureAssumption
<1>3. DataSetLag(up, down) \in Nat
  <2> DEFINE clear == {lag \in BestLag(up, down, DataSetSearch) :
                         \A c \in Correlation(up, down, lag) : Clear(c)}
  <2>1. clear \subseteq Nat
    BY <1>1, <1>2
  <2>2. clear # {} => Min(clear) \in Nat
    <3> HIDE DEF clear
    <3> QED
      BY <2>1, FirstOf
  <2>3. DataSetLag(up, down) = IF clear = {} THEN DataSetSearch.default ELSE Min(clear)
    BY DEF DataSetLag
  <2>4. DataSetSearch.default \in Nat
    BY <1>2 DEF Searches
  <2> QED
    BY <2>2, <2>3, <2>4
<1>4. ExperimentLag(up, down) \in Nat
  <2> DEFINE best == BestLag(TrainingHours(up), TrainingHours(down), ExperimentSearch)
  <2>1. best \subseteq Nat
    BY <1>1, <1>2
  <2>2. best # {} => Min(best) \in Nat
    <3> HIDE DEF best
    <3> QED
      BY <2>1, FirstOf
  <2>3. ExperimentLag(up, down) = IF best = {} THEN ExperimentSearch.default ELSE Min(best)
    BY DEF ExperimentLag
  <2>4. ExperimentSearch.default \in Nat
    BY <1>2 DEF Searches
  <2> QED
    BY <2>2, <2>3, <2>4
<1> QED
  BY <1>3, <1>4

\* What an hour has from upstream, by a lag, is what its past gives.
LEMMA UpstreamKnown ==
  ASSUME NEW s, NEW t, NEW h \in Nat, NEW lag \in Nat, Agree(s, t, h)
  PROVE  Upstream(s, h, lag) = Upstream(t, h, lag) /\ UpstreamDelta(s, h, lag) = UpstreamDelta(t, h, lag)
<1>1. ASSUME NEW g \in Int, g <= h PROVE At(s, g) = At(t, g)
  BY <1>1 DEF At, Agree
<1>2. h - lag \in Int /\ h - lag <= h /\ (h - lag) - 3 \in Int /\ (h - lag) - 3 <= h
  OBVIOUS
<1>3. At(s, h - lag) = At(t, h - lag) /\ At(s, (h - lag) - 3) = At(t, (h - lag) - 3)
  BY <1>1, <1>2
<1>4. h \in DOMAIN s <=> h \in DOMAIN t
  BY DEF Agree
<1> QED
  BY <1>3, <1>4 DEF Upstream, UpstreamDelta, Delta

\* The training split of two series that are the same up to its end is one.
LEMMA TrainingKnown ==
  ASSUME NEW s, NEW t, NEW h \in Nat, h + 1 >= TrainUntil, Agree(s, t, h),
         DOMAIN s \subseteq Int, DOMAIN t \subseteq Int
  PROVE  TrainingHours(s) = TrainingHours(t)
<1> DEFINE train(r) == [g \in {g \in DOMAIN r : g < TrainUntil} |-> r[g]]
<1>1. \A g \in Int : g < TrainUntil => g <= h
  BY FeatureAssumption
<1>2. {g \in DOMAIN s : g < TrainUntil} = {g \in DOMAIN t : g < TrainUntil}
  BY <1>1 DEF Agree
<1>3. \A g \in {g \in DOMAIN s : g < TrainUntil} : s[g] = t[g]
  BY <1>1 DEF Agree
<1>4. train(s) = train(t)
  BY <1>2, <1>3
<1>5. TrainingHours(s) = [g \in DOMAIN train(s) |-> Delta(train(s), g, 3)]
  BY DEF TrainingHours
<1>6. TrainingHours(t) = [g \in DOMAIN train(t) |-> Delta(train(t), g, 3)]
  BY DEF TrainingHours
<1> HIDE DEF train
<1> QED
  BY <1>4, <1>5, <1>6

-----------------------------------------------------------------------------
(* The inductive invariant of Dataset, in two parts: what a run, a cached  *)
(* page and the archive hold was published, and which part of it they hold. *)

\* A reading as upstream has it; the feed has them in order of their time.
Readings ==
  {r \in [station : Stations, at : Nat, level : SUBSET Nat, rain : SUBSET Nat] :
     \A x, y \in r.level : x = y}

FeedInv ==
  /\ published \in Seq(Readings)
  /\ \A i, j \in DOMAIN published : i < j => published[i].at < published[j].at

PageRows(k) == RowsOf(cache[k].rows)

SourceInv ==
  /\ FeedInv
  /\ DOMAIN cache = Requests
  /\ \A k \in 1..MaxPages : PageRows(k) \subseteq RowsOf(published)
  /\ run \in [op : {"idle", "fetch", "merge", "write"}, offline : BOOLEAN,
              request : 0..(MaxPages + 1), rows : SUBSET RowsOf(published),
              shown : SUBSET RowsOf(published)]
  /\ run.op = "fetch" => run.request \in Requests
  /\ archive \in [rows : SUBSET RowsOf(published), readable : BOOLEAN]

\* The view with n readings published: how many it shows, and which of them page
\* k has, by their places in `published`.
Depth(n) == IF n < ViewSize THEN n ELSE ViewSize
Deepest(k, n) == IF k * PageSize < Depth(n) THEN k * PageSize ELSE Depth(n)
Places(k, n) == {i \in 1..n : n + 1 - i \in ((k - 1) * PageSize + 1)..Deepest(k, n)}

\* The oldest place that a run can reach.
Lowest(n) == n + 1 - Deepest(MaxPages, n)

Whole(k) == cache[k].kind = "whole"
Full(k) == Whole(k) /\ ~(Len(cache[k].rows) < PageSize)
Fetched(n) == UNION {PageRows(k) : k \in 1..n}

\* A page was asked for after the ones before it had come, and were full.
InTurn ==
  \A j, k \in 1..MaxPages : j < k /\ cache[k].kind # "absent" => Full(j)

\* The pages 1..k are all that a run has to read.
Through(k) ==
  /\ k \in 1..MaxPages
  /\ \A j \in 1..(k - 1) : Full(j)
  /\ Whole(k)
  /\ k = MaxPages \/ ~Full(k)

\* What the run in hand has of the cached pages.
RunInv ==
  /\ run.op = "fetch" =>
       /\ \A k \in 1..(run.request - 1) : Full(k)
       /\ run.rows = Fetched(run.request - 1)
  /\ run.op \in {"merge", "write"} =>
       /\ Through(run.request - 1)
       /\ run.rows = (IF run.op = "merge" THEN {} ELSE archive.rows) \cup Fetched(run.request - 1)

\* Page k is as the view was when `seen[k]` readings were published; the archive
\* has every reading from its newest down to the oldest one a run could reach at
\* `upTo`; and what a page has that is not in the archive was read later.
AsSeen(seen) ==
  /\ \A k \in 1..MaxPages : Whole(k) =>
       /\ PageRows(k) = {published[i] : i \in Places(k, seen[k])}
       /\ Full(k) <=> k * PageSize <= Depth(seen[k])
  /\ \A j, k \in 1..MaxPages : Whole(j) /\ Whole(k) /\ j <= k => seen[j] <= seen[k]
Unbroken(rows, upTo) ==
  \A i, j \in DOMAIN published :
    i <= j /\ Lowest(upTo) <= i /\ published[j] \in rows => published[i] \in rows
Since(seen, upTo) ==
  \A k \in 1..MaxPages : Whole(k) => PageRows(k) \subseteq archive.rows \/ upTo <= seen[k]
HistoryInv ==
  \E seen \in [1..MaxPages -> 0..Len(published)], upTo \in 0..Len(published) :
    AsSeen(seen) /\ Unbroken(archive.rows, upTo) /\ Since(seen, upTo)

DatasetInv ==
  /\ SourceInv /\ InTurn /\ RunInv
  /\ ~archive.readable => archive.rows = {}
  /\ HistoryInv

\* What the constants are, and the feed's growth.
LEMMA Sizes ==
  /\ PageSize \in Nat /\ PageSize > 0 /\ MaxPages \in Nat /\ MaxPages > 0
  /\ ViewSize \in Nat /\ 1 \in Requests /\ Requests = 0..MaxPages
BY DatasetAssumption DEF Requests

\* The view and its pages are parts of what is published.
LEMMA ViewIs ==
  ASSUME FeedInv
  PROVE  /\ Len(published) \in Nat
         /\ View \in Seq(Readings) /\ Len(View) = Depth(Len(published))
         /\ \A i \in 1..Len(View) : View[i] = published[Len(published) + 1 - i]
<1>1. PICK n \in Nat : n = Len(published)
  BY DEF FeedInv
<1>2. Depth(n) \in Nat /\ Depth(n) <= n
  BY <1>1, Sizes DEF Depth
<1>3. \A i \in 1..Depth(n) : published[n + 1 - i] \in Readings
  BY <1>1, <1>2 DEF FeedInv
<1>4. View = [i \in 1..Depth(n) |-> published[n + 1 - i]]
  BY <1>1 DEF View, Depth
<1>5. View \in [1..Depth(n) -> Readings]
  BY <1>3, <1>4
<1>6. View \in Seq(Readings) /\ Len(View) = Depth(n)
  BY <1>2, <1>4, <1>5
<1> QED
  BY <1>1, <1>4, <1>6

\* A page has the readings of its places; it is full where the view reaches so far.
LEMMA PageIs ==
  ASSUME FeedInv, NEW k \in 1..MaxPages
  PROVE  /\ RowsOf(Page(k)) = {published[i] : i \in Places(k, Len(published))}
         /\ Len(Page(k)) \in Nat
         /\ Len(Page(k)) >= PageSize <=> k * PageSize <= Depth(Len(published))
         /\ Places(k, Len(published)) \subseteq DOMAIN published
<1>1. PICK n \in Nat : n = Len(published)
  BY ViewIs
<1>2. DOMAIN published = 1..n
  BY <1>1 DEF FeedInv
<1>3. PICK first \in Nat \ {0} : first = (k - 1) * PageSize + 1
  BY Sizes
<1>4. k * PageSize \in Nat /\ k * PageSize = first + PageSize - 1
  BY Sizes, <1>3
<1>5. PICK last \in Nat : last = Deepest(k, n)
  BY <1>4, Sizes DEF Deepest, Depth
<1>6. Page(k) = SubSeq(View, first, last)
  BY <1>1, <1>3, <1>5, ViewIs DEF Page, Deepest
<1>7. last <= Len(View) /\ Len(View) <= n /\ last <= k * PageSize /\ Len(View) = Depth(n)
      /\ Len(View) \in Nat
  BY <1>1, <1>4, <1>5, ViewIs, Sizes DEF Deepest, Depth
<1>8. \A i \in first..last : View[i] \in Readings /\ View[i] = published[n + 1 - i]
  BY <1>1, <1>7, ViewIs
<1>9. /\ Page(k) \in Seq(Readings)
      /\ Len(Page(k)) = IF first <= last THEN last - first + 1 ELSE 0
      /\ \A i \in 1..(last - first + 1) : Page(k)[i] = View[first + i - 1]
  <2>1. first \in Int /\ last \in Int
    OBVIOUS
  <2> QED
    BY <1>6, <1>8, <2>1, SubSeqProperties
<1>10. DOMAIN Page(k) = 1..Len(Page(k)) /\ Len(Page(k)) \in Nat
  BY <1>9
<1>11. \A i \in DOMAIN Page(k) : /\ n + 1 - (first + i - 1) \in Places(k, n)
                                 /\ Page(k)[i] = published[n + 1 - (first + i - 1)]
  <2> SUFFICES ASSUME NEW i \in DOMAIN Page(k)
               PROVE  /\ n + 1 - (first + i - 1) \in Places(k, n)
                      /\ Page(k)[i] = published[n + 1 - (first + i - 1)]
    OBVIOUS
  <2>1. i \in 1..(last - first + 1) /\ first + i - 1 \in first..last
    BY <1>9, <1>10
  <2>2. PICK v \in first..last : v = first + i - 1
    BY <2>1
  <2>3. n + 1 - v \in 1..n /\ n + 1 - (n + 1 - v) = v
    BY <1>7, <2>2
  <2>4. n + 1 - v \in Places(k, n)
    BY <1>3, <1>5, <2>3 DEF Places
  <2> QED
    BY <1>8, <1>9, <2>1, <2>2, <2>4
<1>12. \A i \in Places(k, n) : /\ (n + 1 - i) - first + 1 \in DOMAIN Page(k)
                               /\ Page(k)[(n + 1 - i) - first + 1] = published[i]
  <2> SUFFICES ASSUME NEW i \in Places(k, n)
               PROVE  /\ (n + 1 - i) - first + 1 \in DOMAIN Page(k)
                      /\ Page(k)[(n + 1 - i) - first + 1] = published[i]
    OBVIOUS
  <2>1. i \in 1..n /\ n + 1 - i \in first..last
    BY <1>3, <1>5 DEF Places
  <2>2. PICK v \in first..last : v = n + 1 - i /\ i = n + 1 - v
    BY <2>1
  <2>3. v - first + 1 \in 1..(last - first + 1) /\ first + (v - first + 1) - 1 = v
    BY <2>2
  <2>4. Page(k)[v - first + 1] = published[n + 1 - v]
    BY <1>8, <1>9, <2>2, <2>3
  <2>5. v - first + 1 \in DOMAIN Page(k)
    BY <1>9, <1>10, <2>2, <2>3
  <2> QED
    BY <2>2, <2>4, <2>5
<1>13. RowsOf(Page(k)) = {published[i] : i \in Places(k, n)}
  BY <1>11, <1>12 DEF RowsOf
<1>14. Len(Page(k)) >= PageSize <=> k * PageSize <= Depth(n)
  BY <1>4, <1>5, <1>7, <1>9, Sizes DEF Deepest
<1>15. Places(k, n) \subseteq DOMAIN published
  BY <1>2 DEF Places
<1> QED
  BY <1>1, <1>10, <1>13, <1>14, <1>15

\* A reading is published after all there are, which stay where they are.
LEMMA PublishIs ==
  ASSUME FeedInv, NEW s \in Stations, NEW m \in Measures, NEW g \in Gaps, Publish(s, m, g)
  PROVE  /\ FeedInv'
         /\ Len(published') = Len(published) + 1
         /\ \A i \in DOMAIN published : i \in DOMAIN published' /\ published'[i] = published[i]
         /\ RowsOf(published) \subseteq RowsOf(published')
<1>1. PICK n \in Nat : n = Len(published) /\ DOMAIN published = 1..n
  BY DEF FeedInv
<1>2. PICK last \in Nat : last = IF published = <<>> THEN 0 ELSE published[Len(published)].at
  <2>1. published # <<>> => published[Len(published)] \in Readings
    BY DEF FeedInv
  <2> QED
    BY <2>1 DEF Readings
<1>3. PICK r : r = [station |-> s, at |-> last + g, level |-> m.level, rain |-> m.rain]
  OBVIOUS
<1>4. g \in Nat /\ g > 0 /\ m.level \subseteq Nat /\ m.rain \subseteq Nat
      /\ \A x, y \in m.level : x = y
  BY PanelAssumption
<1>5. r \in Readings /\ r.at = last + g
  BY <1>2, <1>3, <1>4 DEF Readings
<1>6. published' = Append(published, r)
  BY <1>2, <1>3 DEF Publish
<1>7. /\ published' \in Seq(Readings) /\ Len(published') = n + 1
      /\ DOMAIN published' = 1..(n + 1)
      /\ \A i \in 1..n : published'[i] = published[i]
      /\ published'[n + 1] = r
  BY <1>1, <1>5, <1>6 DEF FeedInv
<1>8. \A i \in 1..n : published[i].at \in Nat /\ published[i].at <= last
  <2> SUFFICES ASSUME NEW i \in 1..n PROVE published[i].at \in Nat /\ published[i].at <= last
    OBVIOUS
  <2>1. published # <<>> /\ n \in 1..n
    BY <1>1
  <2>2. last = published[n].at
    BY <1>1, <1>2, <2>1
  <2>3. published[i] \in Readings
    BY <1>1 DEF FeedInv
  <2>4. i < n => published[i].at < published[n].at
    BY <1>1, <2>1 DEF FeedInv
  <2> QED
    BY <2>2, <2>3, <2>4 DEF Readings
<1>9. \A i, j \in 1..(n + 1) : i < j => published'[i].at < published'[j].at
  <2> SUFFICES ASSUME NEW i \in 1..(n + 1), NEW j \in 1..(n + 1), i < j
               PROVE  published'[i].at < published'[j].at
    OBVIOUS
  <2>1. i \in 1..n
    OBVIOUS
  <2>2. CASE j = n + 1
    BY <1>2, <1>4, <1>5, <1>7, <1>8, <2>1, <2>2
  <2>3. CASE j \in 1..n
    BY <1>1, <1>7, <2>1, <2>3 DEF FeedInv
  <2> QED
    BY <2>2, <2>3
<1>10. FeedInv'
  BY <1>7, <1>9 DEF FeedInv
<1>11. \A i \in DOMAIN published : i \in DOMAIN published' /\ published'[i] = published[i]
  BY <1>1, <1>7
<1>12. RowsOf(published) \subseteq RowsOf(published')
  BY <1>11 DEF RowsOf
<1> QED
  BY <1>1, <1>7, <1>10, <1>11, <1>12

\* Whatever answer a run takes for a page, its rows are what it adds.
LEMMA GotIs ==
  ASSUME SourceInv, run.op = "fetch", NEW rows, Got(rows),
         run.request # 0 => RowsOf(rows) \subseteq RowsOf(published)
  PROVE  /\ run' \in [op : {"idle", "fetch", "merge"}, offline : BOOLEAN,
                      request : 0..(MaxPages + 1), rows : SUBSET RowsOf(published),
                      shown : SUBSET RowsOf(published)]
         /\ run'.op = "fetch" => run'.request \in Requests
<1>1. CASE run.request = 0
  <2>1. run' = Idle \/ run' = [run EXCEPT !.request = 1]
    BY <1>1 DEF Got, GotList
  <2>2. CASE run' = Idle
    BY <2>2, Sizes DEF Idle
  <2>3. CASE run' = [run EXCEPT !.request = 1]
    BY <2>3, Sizes DEF SourceInv
  <2> QED
    BY <2>1, <2>2, <2>3
<1>2. CASE run.request # 0
  <2>1. run.request \in 1..MaxPages
    BY <1>2, Sizes DEF SourceInv
  <2>2. PICK op \in {"fetch", "merge"} :
          /\ run' = [run EXCEPT !.rows = @ \cup RowsOf(rows), !.request = @ + 1, !.op = op]
          /\ op = "fetch" => run.request # MaxPages
    BY <1>2 DEF Got, GotPage
  <2>3. run.request + 1 \in 0..(MaxPages + 1) /\ (run.request # MaxPages => run.request + 1 \in Requests)
    BY <2>1, Sizes
  <2>4. run.rows \cup RowsOf(rows) \in SUBSET RowsOf(published)
    BY <1>2 DEF SourceInv
  <2>5. run.offline \in BOOLEAN /\ run.shown \in SUBSET RowsOf(published)
    BY DEF SourceInv
  <2>6. run' = [op |-> op, offline |-> run.offline, request |-> run.request + 1,
                rows |-> run.rows \cup RowsOf(rows), shown |-> run.shown]
    BY <2>2 DEF SourceInv
  <2> QED
    BY <2>2, <2>3, <2>4, <2>5, <2>6
<1> QED
  BY <1>1, <1>2

\* Nothing is published yet, and nothing held.
LEMMA SourceInit == DataInit => SourceInv
<1> SUFFICES ASSUME DataInit PROVE SourceInv
  OBVIOUS
<1>1. FeedInv
  BY DEF DataInit, FeedInv
<1>2. RowsOf(<<>>) = {}
  BY DEF RowsOf
<1>3. \A k \in 1..MaxPages : PageRows(k) \subseteq RowsOf(published)
  BY <1>2, Sizes DEF DataInit, PageRows, Absent
<1> QED
  BY <1>1, <1>3, Sizes DEF DataInit, SourceInv, Idle

\* No step brings a reading in from elsewhere.
LEMMA SourceStep == SourceInv /\ [DataNext]_vars => SourceInv'
<1> SUFFICES ASSUME SourceInv, [DataNext]_vars PROVE SourceInv'
  OBVIOUS
<1> USE DEF SourceInv
<1>1. ASSUME NEW s \in Stations, NEW m \in Measures, NEW g \in Gaps, Publish(s, m, g)
      PROVE  SourceInv'
  <2>1. FeedInv' /\ RowsOf(published) \subseteq RowsOf(published)'
    BY <1>1, PublishIs
  <2>2. UNCHANGED <<cache, archive, run>>
    BY <1>1 DEF Publish
  <2>3. \A k \in 1..MaxPages : PageRows(k)' \subseteq RowsOf(published)'
    BY <2>1, <2>2 DEF PageRows
  <2> QED
    BY <2>1, <2>2, <2>3
<1>2. ASSUME NEW offline \in BOOLEAN, StartRun(offline)
      PROVE  SourceInv'
  <2>1. RowsOf(View) \subseteq RowsOf(published)
    <3>1. \A i \in 1..Len(View) : Len(published) + 1 - i \in DOMAIN published
      BY ViewIs, Sizes DEF Depth, FeedInv
    <3>2. DOMAIN View = 1..Len(View)
      BY ViewIs
    <3> QED
      BY <3>1, <3>2, ViewIs DEF RowsOf
  <2>2. UNCHANGED <<published, cache, archive>>
    BY <1>2 DEF StartRun
  <2>3. run' = [Idle EXCEPT !.op = "fetch", !.offline = offline, !.shown = RowsOf(View)]
    BY <1>2 DEF StartRun
  <2>4. FeedInv' /\ \A k \in 1..MaxPages : PageRows(k)' \subseteq RowsOf(published)'
    BY <2>2 DEF FeedInv, PageRows
  <2>5. run' = [op |-> "fetch", offline |-> offline, request |-> 0, rows |-> {}, shown |-> RowsOf(View)]
    BY <2>3 DEF Idle
  <2>6. RowsOf(published)' = RowsOf(published)
    BY <2>2
  <2>7. /\ run' \in [op : {"idle", "fetch", "merge", "write"}, offline : BOOLEAN,
                     request : 0..(MaxPages + 1), rows : SUBSET RowsOf(published),
                     shown : SUBSET RowsOf(published)]
        /\ run'.request \in Requests
    BY <1>2, <2>1, <2>5, Sizes
  <2> QED
    BY <2>2, <2>4, <2>6, <2>7
<1>3. CASE FromDisk
  <2>1. UNCHANGED <<published, cache, archive>> /\ run.op = "fetch"
    BY <1>3 DEF FromDisk
  <2>2. run.request # 0 => RowsOf(cache[run.request].rows) \subseteq RowsOf(published)
    BY <2>1, Sizes DEF PageRows
  <2>3. Got(cache[run.request].rows)
    BY <1>3 DEF FromDisk
  <2>4. FeedInv' /\ \A k \in 1..MaxPages : PageRows(k)' \subseteq RowsOf(published)'
    BY <2>1 DEF FeedInv, PageRows
  <2> QED
    BY <2>1, <2>2, <2>3, <2>4, GotIs
<1>4. CASE FromUpstream
  <2>1. PICK rows \in IF run.request = 0 THEN Lists ELSE {Page(run.request)} :
          /\ cache' = [cache EXCEPT ![run.request] = [kind |-> "whole", rows |-> rows]]
          /\ Got(rows)
    BY <1>4 DEF FromUpstream
  <2>2. UNCHANGED <<published, archive>> /\ run.op = "fetch" /\ run.request \in Requests
    BY <1>4 DEF FromUpstream
  <2>3. run.request # 0 => RowsOf(rows) \subseteq RowsOf(published)
    <3> SUFFICES ASSUME run.request # 0 PROVE RowsOf(rows) \subseteq RowsOf(published)
      OBVIOUS
    <3>1. run.request \in 1..MaxPages /\ rows = Page(run.request)
      BY <2>1, <2>2, Sizes
    <3>2. RowsOf(rows) = {published[i] : i \in Places(run.request, Len(published))}
          /\ Places(run.request, Len(published)) \subseteq DOMAIN published
      BY <3>1, PageIs
    <3> QED
      BY <3>2 DEF RowsOf
  <2>4. \A k \in 1..MaxPages : PageRows(k)' \subseteq RowsOf(published)'
    BY <2>1, <2>2, <2>3, Sizes DEF PageRows
  <2>5. FeedInv' /\ DOMAIN cache' = Requests
    BY <2>1, <2>2 DEF FeedInv
  <2> QED
    BY <2>1, <2>2, <2>3, <2>4, <2>5, GotIs
<1>5. CASE RunFails
  BY <1>5, Sizes DEF RunFails, Idle, FeedInv, PageRows
<1>6. CASE Merge
  <2>1. Merged(run.rows) \subseteq RowsOf(published)
    BY DEF Merged
  <2>2. run' = Idle \/ run' = [run EXCEPT !.op = "write", !.rows = Merged(run.rows)]
    BY <1>6 DEF Merge
  <2>3. UNCHANGED <<published, cache, archive>>
    BY <1>6 DEF Merge
  <2>4. FeedInv' /\ \A k \in 1..MaxPages : PageRows(k)' \subseteq RowsOf(published)'
    BY <2>3 DEF FeedInv, PageRows
  <2>5. RowsOf(published)' = RowsOf(published)
    BY <2>3
  <2>6. /\ run' \in [op : {"idle", "fetch", "merge", "write"}, offline : BOOLEAN,
                     request : 0..(MaxPages + 1), rows : SUBSET RowsOf(published),
                     shown : SUBSET RowsOf(published)]
        /\ run'.op # "fetch"
    <3>1. CASE run' = Idle
      BY <3>1, Sizes DEF Idle
    <3>2. CASE run' = [run EXCEPT !.op = "write", !.rows = Merged(run.rows)]
      BY <2>1, <3>2
    <3> QED
      BY <2>2, <3>1, <3>2
  <2> QED
    BY <2>3, <2>4, <2>5, <2>6
<1>7. CASE Write
  BY <1>7, Sizes DEF Write, Idle, FeedInv, PageRows
<1>8. CASE Crash
  <2>1. run' = Idle /\ UNCHANGED published /\ archive' \in {archive, [rows |-> {}, readable |-> FALSE]}
    BY <1>8 DEF Crash
  <2>2. cache' = cache \/ cache' = [cache EXCEPT ![run.request] = Cut]
    BY <1>8 DEF Crash
  <2>3. RowsOf(Cut.rows) = {}
    BY DEF Cut, RowsOf
  <2>4. DOMAIN cache' = Requests
    BY <2>2
  <2>5. \A k \in 1..MaxPages : PageRows(k)' \subseteq RowsOf(published)'
    BY <2>1, <2>2, <2>3, Sizes DEF PageRows
  <2>6. FeedInv'
    BY <2>1 DEF FeedInv
  <2>7. RowsOf(published)' = RowsOf(published)
    BY <2>1
  <2>8. /\ run' \in [op : {"idle", "fetch", "merge", "write"}, offline : BOOLEAN,
                     request : 0..(MaxPages + 1), rows : SUBSET RowsOf(published),
                     shown : SUBSET RowsOf(published)]
        /\ run'.op # "fetch"
    BY <2>1, Sizes DEF Idle
  <2>9. archive' \in [rows : SUBSET RowsOf(published), readable : BOOLEAN]
    <3>1. CASE archive' = archive
      BY <3>1
    <3>2. CASE archive' = [rows |-> {}, readable |-> FALSE]
      BY <3>2
    <3> QED
      BY <2>1, <3>1, <3>2
  <2> QED
    BY <2>4, <2>5, <2>6, <2>7, <2>8, <2>9
<1>9. CASE ClearCache
  <2>1. UNCHANGED <<published, archive, run>> /\ cache' = [q \in Requests |-> Absent]
    BY <1>9 DEF ClearCache
  <2>2. RowsOf(Absent.rows) = {}
    BY DEF Absent, RowsOf
  <2>3. FeedInv' /\ \A k \in 1..MaxPages : PageRows(k)' \subseteq RowsOf(published)'
    BY <2>1, <2>2, Sizes DEF FeedInv, PageRows
  <2> QED
    BY <2>1, <2>3
<1>10. CASE DataDone \/ UNCHANGED vars
  BY <1>10 DEF DataDone, vars, FeedInv, PageRows
<1> QED
  BY <1>1, <1>2, <1>3, <1>4, <1>5, <1>6, <1>7, <1>8, <1>9, <1>10 DEF DataNext

\* So nothing is held that was not published.
LEMMA SourceHolds == DataSpec => []SourceInv
BY SourceInit, SourceStep, PTL DEF DataSpec

\* What a gauge has in the archive has the shape that the panel asks for.
LEMMA RowsKnown ==
  ASSUME SourceInv, NEW rows, rows \subseteq RowsOf(published), NEW s
  PROVE  /\ RowsOK(RowsAt(s, rows))
         /\ \A r \in rows : r \in Readings
<1>1. PICK n \in Nat : DOMAIN published = 1..n
  BY DEF SourceInv, FeedInv
<1>2. IsFiniteSet({published[i] : i \in DOMAIN published})
  <2>1. IsFiniteSet(DOMAIN published) /\ DOMAIN published \subseteq DOMAIN published
    BY <1>1, FS_Interval
  <2> QED
    BY <2>1, ValuesFinite
<1>3. IsFiniteSet(RowsOf(published))
  BY <1>2 DEF RowsOf
<1>4. RowsAt(s, rows) \subseteq RowsOf(published)
  BY DEF RowsAt
<1>5. \A r \in RowsOf(published) : r \in Readings
  BY <1>1 DEF SourceInv, FeedInv, RowsOf
<1>6. \A r \in Readings : r.at \in Nat /\ r.level \subseteq Nat /\ \A x, y \in r.level : x = y
  BY DEF Readings
<1> QED
  BY <1>3, <1>4, <1>5, <1>6, FS_Subset DEF RowsOK

-----------------------------------------------------------------------------
(* Labels and features over whatever readings came.                        *)

\* The inductive invariant: what is known of a gauge is readings.
ReadingsInv ==
  /\ readings = [s \in Stations |-> readings[s]]
  /\ \A s \in Stations : RowsOK(readings[s])

LEMMA ReadingsStep == ReadingsInv /\ [FeatureNext]_readings => ReadingsInv'
<1> SUFFICES ASSUME ReadingsInv, [FeatureNext]_readings PROVE ReadingsInv'
  OBVIOUS
<1>1. CASE UNCHANGED readings
  BY <1>1 DEF ReadingsInv
<1>2. ASSUME NEW s \in Stations, NEW m \in Measures, NEW gap \in Gaps, Read(s, m, gap)
      PROVE  ReadingsInv'
  <2> DEFINE r == [at |-> Latest(readings[s]) + gap, level |-> m.level, rain |-> m.rain]
  <2>1. readings' = [readings EXCEPT ![s] = readings[s] \cup {r}]
    BY <1>2 DEF Read
  <2>2. Latest(readings[s]) \in Nat
    <3> DEFINE f == [q \in readings[s] |-> q.at]
               T == {f[q] : q \in readings[s]}
    <3>0. \A q \in readings[s] : q.at \in Nat
      BY DEF ReadingsInv, RowsOK
    <3>1. T = {q.at : q \in readings[s]} /\ T \subseteq Nat /\ T \subseteq Int
      <4>1. \A q \in readings[s] : f[q] = q.at
        OBVIOUS
      <4> HIDE DEF f
      <4>2. T = {q.at : q \in readings[s]}
        BY <4>1
      <4>3. {q.at : q \in readings[s]} \subseteq Nat
        BY <3>0
      <4>4. \A S : S \subseteq Nat => S \subseteq Int
        OBVIOUS
      <4> HIDE DEF T
      <4> QED
        BY <4>2, <4>3, <4>4
    <3>2. IsFiniteSet(T)
      <4>1. readings[s] \subseteq DOMAIN f /\ IsFiniteSet(readings[s])
        BY DEF ReadingsInv, RowsOK
      <4> QED
        BY <4>1, ValuesFinite
    <3>3. T # {} => Max(T) \in Nat
      <4> HIDE DEF T
      <4> QED
        BY <3>1, <3>2, LargestOf
    <3>4. readings[s] # {} => T # {}
      OBVIOUS
    <3> HIDE DEF T
    <3> QED
      BY <3>1, <3>3, <3>4 DEF Latest
  <2>3. r.at \in Nat /\ r.level \subseteq Nat /\ \A x, y \in r.level : x = y
    BY <2>2, PanelAssumption
  <2> HIDE DEF r
  <2>4. RowsOK(readings[s] \cup {r})
    BY <2>3, FS_AddElement DEF ReadingsInv, RowsOK
  <2> QED
    BY <2>1, <2>4 DEF ReadingsInv
<1> QED
  BY <1>1, <1>2 DEF FeatureNext, AllRead

LEMMA ReadingsHold == FeatureSpec => []ReadingsInv
<1>1. FeatureInit => ReadingsInv
  BY FS_EmptySet DEF FeatureInit, ReadingsInv, RowsOK
<1> QED
  BY <1>1, ReadingsStep, PTL DEF FeatureSpec

\* Whatever the gauges show, a positive label has a reading behind it, in its
\* window or carried into it, and a negative one has no hour in its window whose
\* last reading reached the level (build_dataset.py, _add_labels).
THEOREM LabelsAlwaysWitnessed == FeatureSpec => []LabelsAreWitnessed
<1>1. ReadingsInv => LabelsAreWitnessed
  BY LabelsWitnessed DEF LabelsAreWitnessed, ReadingsInv
<1> QED
  BY <1>1, ReadingsHold, PTL

\* Whatever the gauges show later, every feature of an hour at the gauge itself is
\* the one its past gives, but for level_pct_rank of the data set; so is what it
\* has from upstream by its lag; and so is the lag of the experiment from the end
\* of the hours it was estimated on (ml/features.py, "NO LOOKAHEAD").
THEOREM FeaturesNeverSeeFuture == FeatureSpec => []FeaturesSeeNoFuture
<1>1. ASSUME ReadingsInv, NEW s \in Stations, NEW u \in Stations, NEW h \in Hours(readings[s])
      PROVE  LET down    == Levels(readings[s])
                 up      == Panel(readings[u])
                 known   == Known(readings[s], h)
                 upKnown == Known(readings[u], h)
                 lag     == DataSetLag(up.level, down)
                 travel  == ExperimentLag(up.level, down)
             IN  /\ DataSetUpstream(up, h, lag) = DataSetUpstream(upKnown, h, lag)
                 /\ h + 1 >= TrainUntil =>
                      /\ travel = ExperimentLag(upKnown.level, known.level)
                      /\ ExperimentUpstream(up, h, travel) = ExperimentUpstream(upKnown, h, travel)
  <2> DEFINE down    == Levels(readings[s])
             up      == Panel(readings[u])
             known   == Known(readings[s], h)
             upKnown == Known(readings[u], h)
             lag     == DataSetLag(up.level, down)
             travel  == ExperimentLag(up.level, down)
  <2>1. RowsOK(readings[s]) /\ RowsOK(readings[u])
    BY <1>1 DEF ReadingsInv
  <2>2. h \in Nat /\ Hours(readings[s]) \subseteq Int /\ Hours(readings[u]) \subseteq Int
    BY <1>1, <2>1, HoursAre DEF Hours
  <2>3. Agree(Panel(readings[s]).level, known.level, h) /\ Agree(up.level, upKnown.level, h)
    BY <2>1, <2>2, KnownIs
  <2>4. /\ DOMAIN Panel(readings[s]).level \subseteq Int /\ DOMAIN known.level \subseteq Int
        /\ DOMAIN up.level \subseteq Int /\ DOMAIN upKnown.level \subseteq Int
    BY <2>1, <2>2, KnownIs
  <2>5. down = Panel(readings[s]).level
    BY DEF Panel, PanelOn, Levels
  <2>6. lag \in Nat /\ travel \in Nat
    BY LagIs
  <2> HIDE DEF down, up, known, upKnown, lag, travel
  <2>7. ASSUME NEW n \in Nat
        PROVE  /\ Upstream(up.level, h, n) = Upstream(upKnown.level, h, n)
               /\ UpstreamDelta(up.level, h, n) = UpstreamDelta(upKnown.level, h, n)
    BY <2>2, <2>3, UpstreamKnown
  <2>8. DataSetUpstream(up, h, lag) = DataSetUpstream(upKnown, h, lag)
    BY Zenon, <2>6, <2>7 DEF DataSetUpstream
  <2>9. ASSUME h + 1 >= TrainUntil
        PROVE  /\ travel = ExperimentLag(upKnown.level, known.level)
               /\ ExperimentUpstream(up, h, travel) = ExperimentUpstream(upKnown, h, travel)
    <3>1. /\ TrainingHours(down) = TrainingHours(known.level)
          /\ TrainingHours(up.level) = TrainingHours(upKnown.level)
      BY <2>2, <2>3, <2>4, <2>5, <2>9, TrainingKnown
    <3>2. travel = ExperimentLag(upKnown.level, known.level)
      BY Zenon, <3>1 DEF ExperimentLag, travel
    <3>3. ExperimentUpstream(up, h, travel) = ExperimentUpstream(upKnown, h, travel)
      BY Zenon, <2>6, <2>7 DEF ExperimentUpstream
    <3> QED
      BY <3>2, <3>3
  <2> QED
    BY Zenon, <2>8, <2>9 DEF down, up, known, upKnown, lag, travel
<1>2. ReadingsInv => FeaturesSeeNoFuture
  <2> SUFFICES ASSUME ReadingsInv PROVE FeaturesSeeNoFuture
    OBVIOUS
  <2>1. \A s \in Stations : RowsOK(readings[s])
    BY DEF ReadingsInv
  <2>2. OwnFeaturesSeeNoFuture
    BY Zenon, <2>1, FeaturesKnown DEF OwnFeaturesSeeNoFuture
  <2>3. UpstreamSeesNoFuture
    <3> SUFFICES ASSUME NEW s \in Stations, NEW u \in Stations,
                        NEW down \in {Levels(readings[s])}, NEW up \in {Panel(readings[u])},
                        NEW lag \in {DataSetLag(up.level, down)},
                        NEW travel \in {ExperimentLag(up.level, down)},
                        NEW h \in Hours(readings[s]),
                        NEW known \in {Known(readings[s], h)},
                        NEW upKnown \in {Known(readings[u], h)}
                 PROVE  /\ DataSetUpstream(up, h, lag) = DataSetUpstream(upKnown, h, lag)
                        /\ h + 1 >= TrainUntil =>
                             /\ travel = ExperimentLag(upKnown.level, known.level)
                             /\ ExperimentUpstream(up, h, travel) = ExperimentUpstream(upKnown, h, travel)
      BY Zenon DEF UpstreamSeesNoFuture
    <3>1. /\ down = Levels(readings[s]) /\ up = Panel(readings[u])
          /\ known = Known(readings[s], h) /\ upKnown = Known(readings[u], h)
      OBVIOUS
    <3>2. lag = DataSetLag(up.level, down) /\ travel = ExperimentLag(up.level, down)
      OBVIOUS
    <3> QED
      BY Zenon, <1>1, <3>1, <3>2
  <2> QED
    BY <2>2, <2>3 DEF FeaturesSeeNoFuture
<1> QED
  BY <1>2, ReadingsHold, PTL

-----------------------------------------------------------------------------
(* What a run adds to the archive is newer than all of it.                 *)

\* A later page reaches no less deep.
LEMMA PagesGrow ==
  ASSUME NEW j \in Nat, NEW k \in Nat, j <= k
  PROVE  /\ j * PageSize <= k * PageSize
         /\ j * PageSize \in Nat /\ k * PageSize \in Nat
<1>1. PICK d \in Nat : k = j + d
  BY k - j \in Nat
<1>2. PICK p \in Nat : p = PageSize
  BY Sizes
<1>3. k * p = j * p + d * p /\ j * p \in Nat /\ d * p \in Nat
  BY <1>1
<1> QED
  BY <1>2, <1>3

LEMMA PagesReach ==
  ASSUME NEW j \in Nat, NEW k \in Nat, j <= k, NEW n \in Nat
  PROVE  /\ Deepest(j, n) <= Deepest(k, n)
         /\ Deepest(j, n) \in 0..n /\ Deepest(j, n) \in Nat
<1>1. Depth(n) \in Nat /\ Depth(n) <= n
  BY Sizes DEF Depth
<1>2. PICK a \in Nat, b \in Nat : a = j * PageSize /\ b = k * PageSize /\ a <= b
  BY PagesGrow
<1> QED
  BY <1>1, <1>2 DEF Deepest

\* With more published, the oldest place in reach is no lower.
LEMMA LowestGrows ==
  ASSUME NEW m \in Nat, NEW n \in Nat, m <= n
  PROVE  Lowest(m) \in Int /\ Lowest(n) \in Int /\ Lowest(m) <= Lowest(n)
<1>1. PICK most \in Nat : most = MaxPages * PageSize
  BY Sizes
<1> QED
  BY <1>1, Sizes DEF Lowest, Deepest, Depth

\* The rows of a page are those of its places, and no others.
LEMMA PlacesAre ==
  ASSUME SourceInv, NEW seen, AsSeen(seen), NEW k \in 1..MaxPages, Whole(k),
         NEW j \in DOMAIN published, seen[k] \in 0..Len(published)
  PROVE  published[j] \in PageRows(k) <=> j \in Places(k, seen[k])
<1>1. PageRows(k) = {published[i] : i \in Places(k, seen[k])}
  BY DEF AsSeen
<1>2. PICK n \in Nat : n = Len(published) /\ DOMAIN published = 1..n
  BY DEF SourceInv, FeedInv
<1>3. Places(k, seen[k]) \subseteq DOMAIN published
  BY <1>2 DEF Places
<1>4. ASSUME NEW i \in DOMAIN published, published[i] = published[j] PROVE i = j
  <2>1. i \in Int /\ j \in Int
    BY <1>2
  <2>2. published[j] \in Readings /\ published[j].at \in Nat
    BY <1>2 DEF SourceInv, FeedInv, Readings
  <2>3. ~(i < j) /\ ~(j < i)
    BY <1>4, <2>2 DEF SourceInv, FeedInv
  <2> QED
    BY <2>1, <2>3
<1> QED
  BY <1>1, <1>3, <1>4

\* A row that is in a cached page and not in the archive is newer than all that
\* is there: an older one would be in it, as nothing is left out below its newest.
LEMMA AddsNewer ==
  ASSUME SourceInv,
         NEW seen \in [1..MaxPages -> 0..Len(published)], NEW upTo \in 0..Len(published),
         AsSeen(seen), Unbroken(archive.rows, upTo), Since(seen, upTo),
         NEW k \in 1..MaxPages, Whole(k),
         NEW q \in PageRows(k), q \notin archive.rows, NEW r \in archive.rows
  PROVE  r.at < q.at
<1>1. PICK n \in Nat : n = Len(published) /\ DOMAIN published = 1..n
  BY DEF SourceInv, FeedInv
<1>2. PICK j \in DOMAIN published : r = published[j]
  BY DEF SourceInv, RowsOf
<1>3. PICK m \in Nat : m = seen[k] /\ m <= n
  BY <1>1
<1>4. PICK i \in Places(k, m) : q = published[i]
  BY <1>3 DEF AsSeen
<1>5. i \in DOMAIN published /\ m + 1 - i <= Deepest(k, m) /\ i \in Nat
  <2>1. Deepest(k, m) \in 0..m
    <3>1. k \in Nat /\ k <= k
      OBVIOUS
    <3> QED
      BY <3>1, PagesReach
  <2>2. i \in 1..m /\ m + 1 - i \in ((k - 1) * PageSize + 1)..Deepest(k, m)
    BY <1>4 DEF Places
  <2>3. (k - 1) * PageSize \in Nat
    BY Sizes
  <2> QED
    BY <1>1, <1>3, <2>1, <2>2, <2>3
<1>6. upTo <= m /\ upTo \in Nat
  BY <1>1, <1>3 DEF Since
<1>7. Lowest(upTo) <= i
  <2>1. Deepest(k, m) <= Deepest(MaxPages, m) /\ Deepest(k, m) \in Nat /\ Deepest(MaxPages, m) \in Nat
    <3>1. k \in Nat /\ MaxPages \in Nat /\ k <= MaxPages /\ MaxPages <= MaxPages
      BY Sizes
    <3> QED
      BY <3>1, PagesReach
  <2>2. Lowest(upTo) <= Lowest(m) /\ Lowest(m) \in Int /\ Lowest(upTo) \in Int
    BY <1>6, LowestGrows
  <2>3. Lowest(m) <= i
    BY <1>5, <2>1 DEF Lowest
  <2> QED
    BY <1>5, <2>2, <2>3
<1>8. ~(i <= j)
  BY <1>2, <1>4, <1>5, <1>7 DEF Unbroken
<1>9. j < i
  BY <1>1, <1>5, <1>8
<1> QED
  BY <1>2, <1>4, <1>5, <1>9 DEF SourceInv, FeedInv

\* The pages of a run that got through leave nothing out between the oldest
\* place that the last one reaches and the newest that any of them has.
LEMMA PagesTouch ==
  ASSUME SourceInv,
         NEW seen \in [1..MaxPages -> 0..Len(published)], AsSeen(seen),
         NEW last, Through(last), NEW k \in 1..last,
         NEW j \in Places(k, seen[k]), NEW i \in DOMAIN published,
         Lowest(seen[last]) <= i, i <= j
  PROVE  \E m \in 1..last : i \in Places(m, seen[m])
<1>1. PICK n \in Nat : n = Len(published) /\ DOMAIN published = 1..n
  BY DEF SourceInv, FeedInv
<1>2. last \in 1..MaxPages /\ Whole(last) /\ MaxPages \in Nat
  BY Sizes DEF Through
<1>3. \A m \in 1..last : m \in 1..MaxPages /\ Whole(m) /\ seen[m] \in Nat /\ seen[m] \in 0..n
  <2> SUFFICES ASSUME NEW m \in 1..last
               PROVE  m \in 1..MaxPages /\ Whole(m) /\ seen[m] \in Nat /\ seen[m] \in 0..n
    OBVIOUS
  <2>1. m \in 1..MaxPages
    BY <1>2
  <2>2. m = last \/ m \in 1..(last - 1)
    BY <1>2
  <2> QED
    BY <1>1, <1>2, <2>1, <2>2 DEF Through, Full
<1> DEFINE Peak(m) == seen[m] - (m - 1) * PageSize
           S == {m \in 1..last : i <= Peak(m)}
<1>4. S # {} /\ IsFiniteSet(S) /\ S \subseteq Int
  <2>1. seen[k] + 1 - j \in ((k - 1) * PageSize + 1)..Deepest(k, seen[k]) /\ j \in 1..seen[k]
    BY DEF Places
  <2>2. PICK past \in Nat : past = (k - 1) * PageSize
    BY <1>2, Sizes
  <2>3. Deepest(k, seen[k]) \in Int /\ seen[k] \in Nat
    BY <1>3, PagesReach
  <2>4. j <= seen[k] - past
    BY <2>1, <2>2, <2>3
  <2>5. i <= Peak(k)
    BY <1>1, <2>1, <2>2, <2>3, <2>4
  <2>6. S # {}
    BY <2>5
  <2>7. IsFiniteSet(1..last) /\ S \subseteq 1..last /\ 1..last \subseteq Int
    BY <1>2, FS_Interval
  <2>8. IsFiniteSet(S)
    BY <2>7, FS_Subset
  <2> QED
    BY <2>6, <2>7, <2>8
<1>5. PICK m \in S : \A x \in S : x <= m
  BY <1>4, LargestOf
<1>6. m \in 1..last /\ i <= Peak(m) /\ m \in 1..MaxPages /\ Whole(m) /\ seen[m] \in Nat
  BY <1>3, <1>5
<1>7. PICK p \in Nat : p = PageSize
  BY Sizes
<1>8. PICK a \in Nat : a = (m - 1) * p /\ m * p = a + p
  <2>1. (m - 1) * p \in Nat /\ m * p = (m - 1) * p + p
    BY <1>2, <1>6
  <2> QED
    BY <2>1
<1>9. i \in 1..seen[m] /\ a + 1 <= seen[m] + 1 - i
  BY <1>1, <1>6, <1>7, <1>8
<1>10. seen[m] + 1 - i <= Deepest(m, seen[m])
  <2>1. CASE m = last
    <3>1. Deepest(last, seen[last]) = Deepest(MaxPages, seen[last])
      <4>1. CASE last = MaxPages
        BY <4>1
      <4>2. CASE ~Full(last)
        <5>1. ~(last * PageSize <= Depth(seen[last]))
          BY <1>2, <4>2 DEF AsSeen
        <5>2. last * PageSize <= MaxPages * PageSize /\ last * PageSize \in Nat
              /\ MaxPages * PageSize \in Nat
          BY <1>2, PagesGrow
        <5>3. Depth(seen[last]) \in Nat
          BY <1>3, <1>2, Sizes DEF Depth
        <5> QED
          BY <5>1, <5>2, <5>3 DEF Deepest
      <4> QED
        BY <4>1, <4>2 DEF Through
    <3>2. Deepest(MaxPages, seen[last]) \in Nat /\ seen[last] \in Nat
      BY <1>2, <1>3, PagesReach
    <3> QED
      BY <1>1, <2>1, <3>1, <3>2 DEF Lowest
  <2>2. CASE m # last
    <3>1. m + 1 \in 1..last /\ m \in 1..(last - 1) /\ m + 1 \notin S
      BY <1>2, <1>5, <1>6, <2>2
    <3>2. Full(m) /\ m * PageSize <= Depth(seen[m])
      BY <1>6, <3>1 DEF Through, AsSeen
    <3>3. seen[m] <= seen[m + 1] /\ seen[m + 1] \in Nat
      BY <1>3, <1>6, <3>1 DEF AsSeen
    <3>4. Peak(m + 1) = seen[m + 1] - m * p
      BY <1>6, <1>7
    <3>5. ~(i <= seen[m + 1] - m * p)
      BY <3>1, <3>4
    <3>6. Deepest(m, seen[m]) = m * p
      <4>1. Depth(seen[m]) \in Nat /\ m * p \in Nat
        BY <1>6, <1>8, Sizes DEF Depth
      <4> QED
        BY <1>7, <3>2, <4>1 DEF Deepest
    <3>7. m * p \in Nat
      BY <1>8
    <3> QED
      BY <1>1, <1>6, <3>3, <3>5, <3>6, <3>7
  <2> QED
    BY <2>1, <2>2
<1>11. Deepest(m, seen[m]) \in Int
  BY <1>6, PagesReach
<1>12. i \in Places(m, seen[m])
  BY <1>1, <1>6, <1>7, <1>8, <1>9, <1>10, <1>11 DEF Places
<1> QED
  BY <1>6, <1>12

\* Where the pages are as they were, so is what they say.
LEMMA SameCache ==
  ASSUME UNCHANGED cache
  PROVE  /\ \A k : (Whole(k)' <=> Whole(k)) /\ (Full(k)' <=> Full(k)) /\ PageRows(k)' = PageRows(k)
         /\ \A n : Fetched(n)' = Fetched(n)
         /\ \A n : Through(n)' <=> Through(n)
         /\ InTurn' <=> InTurn
BY DEF Whole, Full, PageRows, Fetched, Through, InTurn

\* After an answer the run has the page as well as the ones before it.
LEMMA GotNext ==
  ASSUME SourceInv, RunInv, run.op = "fetch", NEW rows, Got(rows), UNCHANGED archive,
         run.request # 0 =>
           /\ cache'[run.request].kind = "whole" /\ cache'[run.request].rows = rows
           /\ \A k \in 1..(run.request - 1) : cache'[k] = cache[k]
  PROVE  RunInv'
<1>1. CASE run.request = 0
  <2>1. Fetched(0) = {} /\ Fetched(0)' = {} /\ Fetched(run.request - 1) = {}
    BY <1>1 DEF Fetched
  <2>2. run.rows = {}
    BY <2>1 DEF RunInv
  <2>3. CASE run' = Idle
    BY <2>3 DEF Idle, RunInv
  <2>4. CASE run' = [run EXCEPT !.request = 1]
    <3>1. run'.op = "fetch" /\ run'.request = 1 /\ run'.rows = {}
      BY <2>2, <2>4 DEF SourceInv
    <3>2. 1 - 1 = 0 /\ 1..0 = {}
      OBVIOUS
    <3> QED
      BY <2>1, <3>1, <3>2 DEF RunInv
  <2> QED
    BY <1>1, <2>3, <2>4 DEF Got, GotList
<1>2. CASE run.request # 0
  <2>1. PICK k \in 1..MaxPages : k = run.request
    BY <1>2, Sizes DEF SourceInv
  <2>2. k \in Nat /\ k - 1 \in Nat /\ (k - 1) + 1 = k /\ (k + 1) - 1 = k /\ MaxPages \in Nat
    BY <2>1, Sizes
  <2>3. /\ \A j \in 1..(k - 1) : Full(j)' /\ PageRows(j)' = PageRows(j)
        /\ Fetched(k - 1)' = Fetched(k - 1)
    <3>1. \A j \in 1..(k - 1) : cache'[j] = cache[j] /\ Full(j)
      BY <1>2, <2>1 DEF RunInv
    <3>2. \A j \in 1..(k - 1) : Full(j)' /\ PageRows(j)' = PageRows(j)
      BY <3>1 DEF Full, Whole, PageRows
    <3> QED
      BY <3>2 DEF Fetched
  <2>4. Fetched(k)' = Fetched(k - 1)' \cup PageRows(k)'
    <3>1. \A j : j \in 1..k <=> j \in 1..(k - 1) \/ j = k
      BY <2>2
    <3> QED
      BY <3>1 DEF Fetched
  <2>5. rows = cache'[k].rows /\ Whole(k)' /\ RowsOf(rows) = PageRows(k)'
    BY <1>2, <2>1 DEF PageRows, Whole
  <2>6. run.rows = Fetched(k - 1)
    BY <2>1 DEF RunInv
  <2>7. PICK op : /\ op = IF Len(rows) < PageSize \/ k = MaxPages THEN "merge" ELSE "fetch"
                  /\ run' = [run EXCEPT !.rows = @ \cup RowsOf(rows), !.request = @ + 1, !.op = op]
    BY <1>2, <2>1 DEF Got, GotPage
  <2>8. run'.op = op /\ run'.request = k + 1 /\ run'.rows = Fetched(k)'
    BY <2>1, <2>3, <2>4, <2>5, <2>6, <2>7 DEF SourceInv
  <2>9. CASE op = "fetch"
    <3>1. Full(k)'
      BY <2>5, <2>7, <2>9 DEF Full
    <3>2. \A j \in 1..k : j = k \/ j \in 1..(k - 1)
      BY <2>2
    <3>3. \A j \in 1..k : Full(j)'
      BY <2>3, <3>1, <3>2
    <3> QED
      BY <2>2, <2>8, <2>9, <3>3 DEF RunInv
  <2>10. CASE op = "merge"
    <3>1. Through(k)'
      BY <2>1, <2>3, <2>5, <2>7, <2>10 DEF Through, Full
    <3> QED
      BY <2>2, <2>8, <2>10, <3>1 DEF RunInv
  <2> QED
    BY <2>7, <2>9, <2>10
<1> QED
  BY <1>1, <1>2

\* The page asked for now is after all the pages that have come.
LEMMA AskedLast ==
  ASSUME SourceInv, InTurn, RunInv, run.op = "fetch", cache[run.request].kind = "absent",
         NEW k \in 1..MaxPages, cache[k].kind # "absent", run.request # 0
  PROVE  k < run.request
<1>1. run.request \in 1..MaxPages
  BY Sizes DEF SourceInv
<1>2. ~Full(run.request)
  BY DEF Full, Whole
<1>3. ~(run.request < k)
  BY <1>1, <1>2 DEF InTurn
<1>4. k # run.request
  OBVIOUS
<1> QED
  BY <1>1, <1>3, <1>4

\* A page put on disk, whole or cut short, keeps the pages in turn.
LEMMA TurnKept ==
  ASSUME SourceInv, InTurn, RunInv, run.op = "fetch", cache[run.request].kind = "absent",
         NEW entry, cache' = [cache EXCEPT ![run.request] = entry]
  PROVE  /\ InTurn'
         /\ \A k \in 1..MaxPages : k # run.request => cache'[k] = cache[k]
<1>1. \A k \in 1..MaxPages : k # run.request => cache'[k] = cache[k]
  BY Sizes DEF SourceInv
<1>2. ASSUME NEW j \in 1..MaxPages, NEW k \in 1..MaxPages, j < k, cache'[k].kind # "absent"
      PROVE  Full(j)'
  <2>1. j # run.request /\ Full(j)
    <3>1. CASE k = run.request
      <4>1. j \in 1..(run.request - 1)
        BY <1>2, <3>1
      <4> QED
        BY <1>2, <3>1, <4>1 DEF RunInv
    <3>2. CASE k # run.request
      <4>1. cache[k].kind # "absent" /\ Full(j)
        BY <1>1, <1>2, <3>2 DEF InTurn
      <4> QED
        BY <4>1 DEF Full, Whole
    <3> QED
      BY <3>1, <3>2
  <2> QED
    BY <1>1, <2>1 DEF Full, Whole
<1> QED
  BY <1>1, <1>2 DEF InTurn

\* HistoryInv, with its witnesses named.
History(seen, upTo) ==
  /\ seen \in [1..MaxPages -> 0..Len(published)] /\ upTo \in 0..Len(published)
  /\ AsSeen(seen) /\ Unbroken(archive.rows, upTo) /\ Since(seen, upTo)

LEMMA HistoryIs == HistoryInv <=> \E seen, upTo : History(seen, upTo)
BY DEF HistoryInv, History

LEMMA HistoryIsNext == HistoryInv' <=> \E seen, upTo : History(seen, upTo)'
BY DEF HistoryInv, History

\* A new reading changes nothing of what was seen before it.
LEMMA HistoryPublish ==
  ASSUME SourceInv, NEW s \in Stations, NEW m \in Measures, NEW g \in Gaps, Publish(s, m, g),
         HistoryInv
  PROVE  HistoryInv'
<1>1. PICK seen, upTo : History(seen, upTo)
  BY HistoryIs
<1>2. PICK n \in Nat : n = Len(published) /\ DOMAIN published = 1..n
  BY DEF SourceInv, FeedInv
<1>3. /\ FeedInv' /\ Len(published') = n + 1
      /\ \A i \in 1..n : i \in DOMAIN published' /\ published'[i] = published[i]
  BY <1>2, PublishIs DEF SourceInv
<1>4. UNCHANGED <<cache, archive>>
  BY DEF Publish
<1>5. seen \in [1..MaxPages -> 0..Len(published')] /\ upTo \in 0..Len(published')
  BY <1>1, <1>2, <1>3 DEF History
<1>6. AsSeen(seen)'
  <2>1. \A k \in 1..MaxPages : Places(k, seen[k]) \subseteq 1..n
    BY <1>1, <1>2 DEF History, Places
  <2>2. \A k \in 1..MaxPages :
          {published'[i] : i \in Places(k, seen[k])} = {published[i] : i \in Places(k, seen[k])}
    BY <1>3, <2>1
  <2> QED
    BY <1>1, <1>4, <2>2, SameCache DEF History, AsSeen
<1>7. Unbroken(archive.rows, upTo)'
  <2> SUFFICES ASSUME NEW i \in DOMAIN published', NEW j \in DOMAIN published',
                      i <= j, Lowest(upTo) <= i, published'[j] \in archive.rows
               PROVE  published'[i] \in archive.rows
    BY <1>4 DEF Unbroken
  <2>1. DOMAIN published' = 1..(n + 1) /\ i \in Nat /\ j \in Nat
    BY <1>2, <1>3 DEF FeedInv
  <2>2. PICK k \in 1..n : published'[j] = published[k] /\ published'[k] = published[k]
    BY <1>2, <1>3 DEF SourceInv, RowsOf
  <2>3. j = k
    <3>1. published'[j] \in Readings /\ published'[j].at \in Nat
      BY <1>3, <2>1 DEF FeedInv, Readings
    <3>2. ~(j < k) /\ ~(k < j)
      BY <1>3, <2>1, <2>2, <3>1 DEF FeedInv
    <3> QED
      BY <2>1, <3>2
  <2>4. i \in 1..n /\ j \in 1..n
    BY <2>1, <2>3
  <2>5. published[i] \in archive.rows
    BY <1>1, <1>2, <2>2, <2>3, <2>4 DEF History, Unbroken
  <2> QED
    BY <1>3, <2>4, <2>5
<1>8. Since(seen, upTo)'
  BY <1>1, <1>4, SameCache DEF History, Since
<1>9. History(seen, upTo)'
  BY <1>5, <1>6, <1>7, <1>8 DEF History
<1> QED
  BY <1>9, HistoryIsNext

\* A page comes as the view is now.
LEMMA HistoryPage ==
  ASSUME SourceInv, InTurn, RunInv, HistoryInv, run.op = "fetch",
         cache[run.request].kind = "absent", run.request # 0,
         cache' = [cache EXCEPT ![run.request] = [kind |-> "whole", rows |-> Page(run.request)]],
         UNCHANGED <<published, archive>>
  PROVE  HistoryInv'
<1>1. PICK seen, upTo : History(seen, upTo)
  BY HistoryIs
<1>2. PICK n \in Nat : n = Len(published)
  BY DEF SourceInv, FeedInv
<1>3. PICK k \in 1..MaxPages : k = run.request
  BY Sizes DEF SourceInv
<1>4. \A j \in 1..MaxPages : j # k => cache'[j] = cache[j]
  BY <1>3, TurnKept
<1>5. cache'[k] = [kind |-> "whole", rows |-> Page(k)]
  BY <1>3, Sizes DEF SourceInv
<1>6. PICK now : now = [seen EXCEPT ![k] = n]
  OBVIOUS
<1>7. /\ now \in [1..MaxPages -> 0..n] /\ now[k] = n
      /\ \A j \in 1..MaxPages : j # k => now[j] = seen[j]
  BY <1>1, <1>2, <1>6 DEF History
<1>8. ASSUME NEW j \in 1..MaxPages, j # k
      PROVE  (Whole(j)' <=> Whole(j)) /\ (Full(j)' <=> Full(j)) /\ PageRows(j)' = PageRows(j)
  BY <1>4, <1>8 DEF Whole, Full, PageRows
<1>9. Whole(k)' /\ PageRows(k)' = {published[i] : i \in Places(k, n)}
      /\ (Full(k)' <=> k * PageSize <= Depth(n))
  <2>1. Len(Page(k)) \in Nat /\ PageSize \in Nat
    BY PageIs, Sizes DEF SourceInv
  <2>2. Full(k)' <=> Len(Page(k)) >= PageSize
    BY <1>5, <2>1 DEF Full, Whole
  <2> QED
    BY <1>2, <1>5, <2>2, PageIs DEF SourceInv, Whole, PageRows
<1>10. ASSUME NEW j \in 1..MaxPages, Whole(j), j # k
       PROVE  j < k
  BY <1>3, <1>10, AskedLast DEF Whole
<1>11. AsSeen(now)'
  <2>1. ASSUME NEW j \in 1..MaxPages, Whole(j)'
        PROVE  /\ PageRows(j)' = {published[i] : i \in Places(j, now[j])}
               /\ Full(j)' <=> j * PageSize <= Depth(now[j])
    <3>1. CASE j = k
      BY <1>7, <1>9, <3>1
    <3>2. CASE j # k
      BY <1>1, <1>7, <1>8, <2>1, <3>2 DEF History, AsSeen
    <3> QED
      BY <3>1, <3>2
  <2>2. ASSUME NEW i \in 1..MaxPages, NEW j \in 1..MaxPages, Whole(i)', Whole(j)', i <= j
        PROVE  now[i] <= now[j]
    <3>1. CASE j = k
      <4>1. now[i] \in 0..n
        BY <1>7
      <4> QED
        BY <1>7, <3>1, <4>1
    <3>2. CASE j # k
      <4>1. Whole(j) /\ j < k
        BY <1>8, <1>10, <2>2, <3>2
      <4>2. i # k
        BY <2>2, <4>1
      <4>3. Whole(i) /\ seen[i] <= seen[j]
        BY <1>1, <1>8, <2>2, <4>1, <4>2 DEF History, AsSeen
      <4> QED
        BY <1>7, <3>2, <4>2, <4>3
    <3> QED
      BY <3>1, <3>2
  <2> QED
    BY <2>1, <2>2 DEF AsSeen
<1>12. Since(now, upTo)'
  <2> SUFFICES ASSUME NEW j \in 1..MaxPages, Whole(j)'
               PROVE  PageRows(j)' \subseteq archive.rows \/ upTo <= now[j]
    BY DEF Since
  <2>1. CASE j = k
    BY <1>1, <1>2, <1>7, <2>1 DEF History
  <2>2. CASE j # k
    BY <1>1, <1>7, <1>8, <2>2 DEF History, Since
  <2> QED
    BY <2>1, <2>2
<1>13. Unbroken(archive.rows, upTo)'
  BY <1>1 DEF History, Unbroken
<1>14. History(now, upTo)'
  BY <1>1, <1>2, <1>7, <1>11, <1>12, <1>13 DEF History
<1> QED
  BY <1>14, HistoryIsNext

\* Where a page at most is lost, and the archive as well or not, nothing new has
\* to be known.
LEMMA HistoryLoses ==
  ASSUME HistoryInv, UNCHANGED published,
         \A k \in 1..MaxPages : cache'[k] = cache[k] \/ cache'[k].kind # "whole",
         archive' = archive \/ archive'.rows = {}
  PROVE  HistoryInv'
<1>1. PICK seen, upTo : History(seen, upTo)
  BY HistoryIs
<1>2. PICK now : now = IF archive' = archive THEN upTo ELSE 0
  OBVIOUS
<1>3. \A k \in 1..MaxPages : Whole(k)' => /\ Whole(k) /\ PageRows(k)' = PageRows(k)
                                          /\ Full(k)' <=> Full(k)
  BY DEF Whole, PageRows, Full
<1>4. AsSeen(seen)'
  BY <1>1, <1>3 DEF History, AsSeen
<1>5. now \in 0..Len(published)
  BY <1>1, <1>2 DEF History
<1>6. Unbroken(archive.rows, now)'
  BY <1>1, <1>2 DEF History, Unbroken
<1>7. Since(seen, now)'
  <2> SUFFICES ASSUME NEW k \in 1..MaxPages, Whole(k)'
               PROVE  PageRows(k)' \subseteq archive'.rows \/ now <= seen[k]
    BY DEF Since
  <2>1. CASE archive' = archive
    BY <1>1, <1>2, <1>3, <2>1 DEF History, Since
  <2>2. CASE archive' # archive
    <3>1. now = 0 /\ seen[k] \in 0..Len(published)
      BY <1>1, <1>2, <2>2 DEF History
    <3> QED
      BY <3>1
  <2> QED
    BY <2>1, <2>2
<1>8. History(seen, now)'
  BY <1>1, <1>4, <1>5, <1>6, <1>7 DEF History
<1> QED
  BY <1>8, HistoryIsNext

\* A run that got through brings the archive up to its last page.
LEMMA HistoryWrite ==
  ASSUME SourceInv, RunInv, HistoryInv, Write
  PROVE  HistoryInv'
<1>1. PICK seen, upTo : History(seen, upTo)
  BY HistoryIs
<1>2. PICK n \in Nat : n = Len(published) /\ DOMAIN published = 1..n
  BY DEF SourceInv, FeedInv
<1>3. PICK last : last = run.request - 1
  OBVIOUS
<1>4. Through(last) /\ run.rows = archive.rows \cup Fetched(last)
  BY <1>3 DEF Write, RunInv
<1>5. UNCHANGED <<published, cache>> /\ archive'.rows = archive.rows \cup Fetched(last)
  BY <1>4 DEF Write
<1>6. last \in 1..MaxPages /\ seen[last] \in 0..n /\ Whole(last) /\ upTo \in 0..n
  BY <1>1, <1>2, <1>4 DEF Through, History
<1>7. \A k \in 1..last : k \in 1..MaxPages /\ Whole(k) /\ seen[k] <= seen[last] /\ seen[k] \in 0..n
  <2> SUFFICES ASSUME NEW k \in 1..last
               PROVE  k \in 1..MaxPages /\ Whole(k) /\ seen[k] <= seen[last] /\ seen[k] \in 0..n
    OBVIOUS
  <2>1. k \in 1..MaxPages /\ (k = last \/ k \in 1..(last - 1)) /\ k <= last
    BY <1>6, Sizes
  <2>2. Whole(k)
    BY <1>4, <1>6, <2>1 DEF Through, Full
  <2> QED
    BY <1>1, <1>2, <1>6, <2>1, <2>2 DEF History, AsSeen
<1>8. AsSeen(seen)'
  BY <1>1, <1>5, SameCache DEF History, AsSeen
<1>9. CASE Fetched(last) \subseteq archive.rows
  <2>1. archive'.rows = archive.rows
    BY <1>5, <1>9
  <2>2. Unbroken(archive.rows, upTo)' /\ Since(seen, upTo)'
    BY <1>1, <1>5, <2>1, SameCache DEF History, Unbroken, Since
  <2>3. History(seen, upTo)'
    BY <1>1, <1>5, <1>8, <2>2 DEF History
  <2> QED
    BY <2>3, HistoryIsNext
<1>10. CASE ~(Fetched(last) \subseteq archive.rows)
  <2>1. PICK now \in Nat : now = seen[last] /\ now \in 0..n
    BY <1>6
  <2>2. upTo <= now
    <3>1. PICK k \in 1..last : ~(PageRows(k) \subseteq archive.rows)
      BY <1>10 DEF Fetched
    <3>2. upTo <= seen[k]
      BY <1>1, <1>7, <3>1 DEF History, Since
    <3> QED
      BY <1>6, <1>7, <2>1, <3>2
  <2>3. ASSUME NEW i \in DOMAIN published, NEW j \in DOMAIN published,
               i <= j, Lowest(now) <= i, published[j] \in archive'.rows
        PROVE  published[i] \in archive'.rows
    <3>1. CASE published[j] \in archive.rows
      <4>1. Lowest(upTo) <= Lowest(now) /\ Lowest(upTo) \in Int /\ Lowest(now) \in Int
        BY <1>6, <2>1, <2>2, LowestGrows
      <4>2. Lowest(upTo) <= i
        BY <1>2, <2>3, <4>1
      <4> QED
        BY <1>1, <1>5, <2>3, <3>1, <4>2 DEF History, Unbroken
    <3>2. CASE published[j] \in Fetched(last)
      <4>1. PICK k \in 1..last : published[j] \in PageRows(k)
        BY <3>2 DEF Fetched
      <4>2. j \in Places(k, seen[k])
        BY <1>1, <1>2, <1>7, <4>1, PlacesAre DEF History
      <4>3. PICK m \in 1..last : i \in Places(m, seen[m])
        BY <1>1, <1>4, <2>1, <2>3, <4>2, PagesTouch DEF History
      <4>4. published[i] \in PageRows(m)
        BY <1>1, <1>2, <1>7, <2>3, <4>3, PlacesAre DEF History
      <4> QED
        BY <1>5, <4>4 DEF Fetched
    <3> QED
      BY <1>5, <2>3, <3>1, <3>2
  <2>4. Unbroken(archive.rows, now)'
    BY <1>5, <2>3 DEF Unbroken
  <2>5. Since(seen, now)'
    <3> SUFFICES ASSUME NEW k \in 1..MaxPages, Whole(k)
                 PROVE  PageRows(k) \subseteq archive'.rows \/ now <= seen[k]
      BY <1>5, SameCache DEF Since
    <3>1. CASE k \in 1..last
      BY <1>5, <3>1 DEF Fetched
    <3>2. CASE last <= k
      BY <1>1, <1>6, <2>1, <3>2 DEF History, AsSeen
    <3>3. k \in Nat /\ last \in Nat
      BY <1>6
    <3> QED
      BY <3>1, <3>2, <3>3
  <2>6. History(seen, now)'
    BY <1>1, <1>2, <1>5, <1>8, <2>1, <2>4, <2>5 DEF History
  <2> QED
    BY <2>6, HistoryIsNext
<1> QED
  BY <1>9, <1>10

\* An archive that cannot be read is one without rows.
LEMMA MergedIs ==
  ASSUME ~archive.readable => archive.rows = {}, NEW fresh
  PROVE  Merged(fresh) = archive.rows \cup fresh
BY DEF Merged

LEMMA DatasetInit == DataInit => DatasetInv
<1> SUFFICES ASSUME DataInit PROVE DatasetInv
  OBVIOUS
<1>1. SourceInv
  BY SourceInit
<1>2. \A k \in 1..MaxPages : ~Whole(k) /\ cache[k].kind = "absent"
  BY Sizes DEF DataInit, Absent, Whole
<1>3. InTurn /\ RunInv
  BY <1>2 DEF DataInit, InTurn, RunInv, Idle
<1>4. [k \in 1..MaxPages |-> 0] \in [1..MaxPages -> 0..Len(published)] /\ 0 \in 0..Len(published)
  BY DEF DataInit
<1>5. PICK seen : seen = [k \in 1..MaxPages |-> 0]
  OBVIOUS
<1>6. AsSeen(seen) /\ Unbroken(archive.rows, 0) /\ Since(seen, 0)
  BY <1>2, <1>5 DEF DataInit, AsSeen, Unbroken, Since
<1>7. HistoryInv
  BY <1>4, <1>5, <1>6 DEF HistoryInv
<1> QED
  BY <1>1, <1>3, <1>7 DEF DataInit, DatasetInv

LEMMA DatasetStep == DatasetInv /\ [DataNext]_vars => DatasetInv'
<1> SUFFICES ASSUME DatasetInv, [DataNext]_vars PROVE DatasetInv'
  OBVIOUS
<1>0. SourceInv'
  BY SourceStep DEF DatasetInv
<1> USE <1>0 DEF DatasetInv
<1>1. ASSUME NEW s \in Stations, NEW m \in Measures, NEW g \in Gaps, Publish(s, m, g)
      PROVE  DatasetInv'
  <2>1. UNCHANGED <<cache, archive, run>>
    BY <1>1 DEF Publish
  <2>2. InTurn' /\ RunInv'
    BY <2>1, SameCache DEF RunInv
  <2>3. HistoryInv'
    BY <1>1, HistoryPublish
  <2> QED
    BY <2>1, <2>2, <2>3
<1>2. ASSUME NEW offline \in BOOLEAN, StartRun(offline)
      PROVE  DatasetInv'
  <2>1. UNCHANGED <<published, cache, archive>>
    BY <1>2 DEF StartRun
  <2>2. run'.op = "fetch" /\ run'.request = 0 /\ run'.rows = {}
    BY <1>2 DEF StartRun, Idle
  <2>3. 1..(0 - 1) = {}
    OBVIOUS
  <2>4. InTurn' /\ RunInv'
    BY <2>1, <2>2, <2>3, SameCache DEF RunInv, Fetched
  <2>5. HistoryInv'
    BY <2>1, HistoryLoses
  <2> QED
    BY <2>1, <2>4, <2>5
<1>3. CASE FromDisk
  <2>1. UNCHANGED <<published, cache, archive>>
    BY <1>3 DEF FromDisk
  <2>2. PICK rows : rows = cache[run.request].rows
    OBVIOUS
  <2>3. RunInv'
    <3>1. run.op = "fetch" /\ Got(rows) /\ cache[run.request].kind = "whole"
      BY <1>3, <2>2 DEF FromDisk
    <3> QED
      BY <2>1, <2>2, <3>1, GotNext
  <2>4. InTurn'
    BY <2>1, SameCache
  <2>5. HistoryInv'
    BY <2>1, HistoryLoses
  <2> QED
    BY <2>1, <2>3, <2>4, <2>5
<1>4. CASE FromUpstream
  <2>1. PICK rows \in IF run.request = 0 THEN Lists ELSE {Page(run.request)} :
          /\ cache' = [cache EXCEPT ![run.request] = [kind |-> "whole", rows |-> rows]]
          /\ Got(rows)
    BY <1>4 DEF FromUpstream
  <2>2. /\ UNCHANGED <<published, archive>> /\ run.op = "fetch"
        /\ cache[run.request].kind = "absent" /\ run.request \in DOMAIN cache
    BY <1>4 DEF FromUpstream, SourceInv
  <2>3. InTurn' /\ \A k \in 1..MaxPages : k # run.request => cache'[k] = cache[k]
    BY <2>1, <2>2, TurnKept
  <2>4. RunInv'
    <3>1. cache'[run.request].kind = "whole" /\ cache'[run.request].rows = rows
      BY <2>1, <2>2
    <3>2. \A k \in 1..(run.request - 1) : cache'[k] = cache[k]
      <4> SUFFICES ASSUME NEW k \in 1..(run.request - 1) PROVE cache'[k] = cache[k]
        OBVIOUS
      <4>1. run.request \in 0..MaxPages /\ MaxPages \in Nat
        BY <2>2, Sizes DEF SourceInv
      <4>2. k \in 1..MaxPages /\ k # run.request
        BY <4>1
      <4> QED
        BY <2>3, <4>2
    <3> QED
      BY <2>1, <2>2, <3>1, <3>2, GotNext
  <2>5. HistoryInv'
    <3>1. CASE run.request = 0
      <4>1. \A k \in 1..MaxPages : cache'[k] = cache[k]
        BY <2>3, <3>1
      <4> QED
        BY <2>2, <4>1, HistoryLoses
    <3>2. CASE run.request # 0
      BY <2>1, <2>2, <3>2, HistoryPage
    <3> QED
      BY <3>1, <3>2
  <2> QED
    BY <2>2, <2>3, <2>4, <2>5
<1>5. CASE RunFails
  <2>1. UNCHANGED <<published, cache, archive>> /\ run' = Idle
    BY <1>5 DEF RunFails
  <2>2. InTurn' /\ RunInv'
    BY <2>1, SameCache DEF RunInv, Idle
  <2>3. HistoryInv'
    BY <2>1, HistoryLoses
  <2> QED
    BY <2>1, <2>2, <2>3
<1>6. CASE Merge
  <2>1. UNCHANGED <<published, cache, archive>> /\ run.op = "merge"
    BY <1>6 DEF Merge
  <2>2. RunInv'
    <3>1. CASE run' = Idle
      BY <3>1 DEF RunInv, Idle
    <3>2. CASE run' = [run EXCEPT !.op = "write", !.rows = Merged(run.rows)]
      <4>1. run'.op = "write" /\ run'.request = run.request
            /\ run'.rows = archive.rows \cup run.rows
        BY <3>2, MergedIs DEF SourceInv
      <4>2. Through(run.request - 1) /\ run.rows = Fetched(run.request - 1)
        BY <2>1 DEF RunInv
      <4> QED
        BY <2>1, <4>1, <4>2, SameCache DEF RunInv
    <3> QED
      BY <1>6, <3>1, <3>2 DEF Merge
  <2>3. InTurn' /\ HistoryInv'
    BY <2>1, SameCache, HistoryLoses
  <2> QED
    BY <2>1, <2>2, <2>3
<1>7. CASE Write
  <2>1. UNCHANGED cache /\ run' = Idle /\ archive'.readable
    BY <1>7 DEF Write
  <2>2. InTurn' /\ RunInv'
    BY <2>1, SameCache DEF RunInv, Idle
  <2>3. HistoryInv'
    BY <1>7, HistoryWrite
  <2> QED
    BY <2>1, <2>2, <2>3
<1>8. CASE Crash
  <2>1. /\ UNCHANGED published /\ run' = Idle
        /\ archive' = IF run.op = "write" THEN [rows |-> {}, readable |-> FALSE] ELSE archive
    BY <1>8 DEF Crash
  <2>2. RunInv' /\ (~archive.readable => archive.rows = {})'
    BY <2>1 DEF RunInv, Idle
  <2>3. CASE UNCHANGED cache
    <3>1. InTurn' /\ HistoryInv'
      BY <2>1, <2>3, SameCache, HistoryLoses
    <3> QED
      BY <2>2, <3>1
  <2>4. CASE /\ run.op = "fetch" /\ cache[run.request].kind = "absent"
             /\ cache' = [cache EXCEPT ![run.request] = Cut]
    <3>1. InTurn' /\ \A k \in 1..MaxPages : k # run.request => cache'[k] = cache[k]
      BY <2>4, TurnKept
    <3>2. run.request \in DOMAIN cache /\ cache'[run.request].kind # "whole"
      BY <2>4 DEF SourceInv, Cut
    <3>3. HistoryInv'
      BY <2>1, <3>1, <3>2, HistoryLoses
    <3> QED
      BY <2>2, <3>1, <3>3
  <2> QED
    BY <1>8, <2>3, <2>4 DEF Crash
<1>9. CASE ClearCache
  <2>1. UNCHANGED <<published, archive, run>> /\ run.op = "idle"
        /\ cache' = [q \in Requests |-> Absent]
    BY <1>9 DEF ClearCache
  <2>2. \A k \in 1..MaxPages : cache'[k].kind = "absent"
    BY <2>1, Sizes DEF Absent
  <2>3. InTurn' /\ RunInv'
    BY <2>1, <2>2 DEF InTurn, RunInv
  <2>4. HistoryInv'
    BY <2>1, <2>2, HistoryLoses
  <2> QED
    BY <2>1, <2>3, <2>4
<1>10. CASE DataDone \/ UNCHANGED vars
  <2>1. UNCHANGED <<published, cache, archive, run>>
    BY <1>10 DEF DataDone, vars
  <2>2. InTurn' /\ RunInv' /\ HistoryInv'
    BY <2>1, SameCache, HistoryLoses DEF RunInv
  <2> QED
    BY <2>1, <2>2
<1> QED
  BY <1>1, <1>2, <1>3, <1>4, <1>5, <1>6, <1>7, <1>8, <1>9, <1>10 DEF DataNext

\* What a run writes into the archive is newer than all that was there.
LEMMA WriteAddsNewer ==
  ASSUME DatasetInv, Write
  PROVE  /\ archive.rows \subseteq archive'.rows /\ archive'.rows \subseteq RowsOf(published)
         /\ \A q \in archive'.rows \ archive.rows, r \in archive.rows : r.at < q.at
<1>1. PICK seen, upTo : History(seen, upTo)
  BY HistoryIs DEF DatasetInv
<1>2. PICK last : last = run.request - 1
  OBVIOUS
<1>3. Through(last) /\ archive'.rows = archive.rows \cup Fetched(last)
  BY <1>2 DEF Write, DatasetInv, RunInv
<1>4. archive'.rows \subseteq RowsOf(published)
  BY DEF Write, DatasetInv, SourceInv
<1>5. ASSUME NEW q \in archive'.rows \ archive.rows, NEW r \in archive.rows
      PROVE  r.at < q.at
  <2>1. PICK k \in 1..last : q \in PageRows(k)
    BY <1>3, <1>5 DEF Fetched
  <2>2. k \in 1..MaxPages /\ Whole(k)
    <3>1. last \in 1..MaxPages /\ (k = last \/ k \in 1..(last - 1)) /\ MaxPages \in Nat
      BY <1>3, Sizes DEF Through
    <3> QED
      BY <1>3, <3>1 DEF Through, Full
  <2> QED
    BY <1>1, <1>5, <2>1, <2>2, AddsNewer DEF History, DatasetInv
<1> QED
  BY <1>3, <1>4, <1>5

\* The label of an hour whose window ends before the hour of the newest reading
\* is not changed by any run that adds to the archive.
THEOREM SettledLabelsAlwaysStay == DataSpec => SettledLabelsStay
<1>1. DatasetInv /\ [DataNext]_vars =>
        [Write => \A s \in Stations :
           LET old == RowsAt(s, archive.rows)
               new == RowsAt(s, archive'.rows)
           IN  \A h \in Hours(old), horizon \in Horizons :
                 Settled(old, h, horizon) =>
                   FutureMax(Levels(new), h, horizon) = FutureMax(Levels(old), h, horizon)]_archive
  <2> SUFFICES ASSUME DatasetInv, Write, NEW s \in Stations
               PROVE  \A h \in Hours(RowsAt(s, archive.rows)), horizon \in Horizons :
                        Settled(RowsAt(s, archive.rows), h, horizon) =>
                          FutureMax(Levels(RowsAt(s, archive'.rows)), h, horizon)
                            = FutureMax(Levels(RowsAt(s, archive.rows)), h, horizon)
    OBVIOUS
  <2>1. PICK old, new : old = RowsAt(s, archive.rows) /\ new = RowsAt(s, archive'.rows)
    OBVIOUS
  <2>2. RowsOK(old) /\ RowsOK(new)
    BY <2>1, WriteAddsNewer, RowsKnown DEF DatasetInv, SourceInv
  <2>3. old \subseteq new /\ \A q \in new \ old : \A r \in old : r.at < q.at
    BY <2>1, WriteAddsNewer DEF RowsAt
  <2> QED
    BY <2>1, <2>2, <2>3, SettledStay
<1>2. DataSpec => []DatasetInv
  BY DatasetInit, DatasetStep, PTL DEF DataSpec
<1> QED
  BY <1>1, <1>2, PTL DEF DataSpec, SettledLabelsStay
=============================================================================
