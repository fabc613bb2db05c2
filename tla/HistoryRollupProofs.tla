------------------------ MODULE HistoryRollupProofs ------------------------
(***************************************************************************)
(* Proofs about HistoryRollup.  The invariants of the summaries are        *)
(* inductive together with one fact: nothing is summarised or queued for   *)
(* repair at or above the watermark.                                       *)
(***************************************************************************)
EXTENDS HistoryRollup, TLAPS

(* Summaries and repairs exist below the watermark only, so a row written   *)
(* above it needs no trigger (history_rollups.go:65).                       *)
BelowWatermark ==
    /\ \A x \in rolled : x.at.hour < completedBefore
    /\ \A d \in dirty : d[3] < completedBefore

IInv == TypeOK /\ BelowWatermark /\ SummariesCurrent
-----------------------------------------------------------------------------
(* DayStart rounds down and is monotone, historyDayStart's use of it.       *)
LEMMA DayStartBounds ==
    ASSUME NEW h \in Nat
    PROVE  DayStart(h) \in 0..h
BY RollupAssumption DEF DayStart

LEMMA Multiples ==
    ASSUME NEW d \in Nat \ {0}, NEW p \in Int, NEW q \in Int, p < q
    PROVE  d * p + d <= d * q
<1>1. q - p >= 1
  OBVIOUS
<1>2. d * (q - p) >= d
  BY <1>1, Z3
<1>3. d * (q - p) = d * q - d * p
  BY Z3
<1> QED
  BY <1>2, <1>3, Z3

LEMMA DayStartMonotone ==
    ASSUME NEW a \in Nat, NEW b \in Nat, a <= b
    PROVE  DayStart(a) <= DayStart(b)
<1> DEFINE p == a \div DayHours
           q == b \div DayHours
<1>d. DayHours \in Nat \ {0}
  BY RollupAssumption
<1>1. /\ p \in Int /\ q \in Int
      /\ a = DayHours * p + (a % DayHours) /\ a % DayHours \in 0..(DayHours - 1)
      /\ b = DayHours * q + (b % DayHours) /\ b % DayHours \in 0..(DayHours - 1)
  BY <1>d, Z3
<1>2. DayStart(a) = DayHours * p /\ DayStart(b) = DayHours * q
  BY <1>1, <1>d DEF DayStart
<1>3. p <= q
  <2>1. SUFFICES ASSUME q < p PROVE FALSE
    BY <1>1
  <2>2. DayHours * q + DayHours <= DayHours * p
    BY <2>1, <1>1, <1>d, Multiples
  <2> QED
    BY <2>2, <1>1, <1>d
<1>4. CASE p = q
  BY <1>2, <1>4, <1>1, <1>d
<1>5. CASE p < q
  <2>1. DayHours * p + DayHours <= DayHours * q
    BY <1>5, <1>1, <1>d, Multiples
  <2> QED
    BY <2>1, <1>2, <1>1, <1>d
<1> QED
  BY <1>1, <1>3, <1>4, <1>5

LEMMA HorizonHour ==
    ASSUME TypeOK
    PROVE  /\ now.hour \in Nat /\ now.part \in Nat
           /\ Horizon.hour \in Nat /\ Horizon.part \in Nat
           /\ Today \in 0..now.hour
           /\ DayStart(now.hour - Retention) \in 0..Horizon.hour
           /\ DayStart(now.hour - Retention) <= Today
<1>1. now.hour \in Nat /\ now.part \in Nat /\ now.hour >= FirstHour
  BY RollupAssumption DEF TypeOK, Time, Hours
<1>2. now.hour - Retention \in Nat
  BY <1>1, RollupAssumption
<1>3. now.hour - Retention <= now.hour
  BY <1>1, RollupAssumption
<1> QED
  BY <1>1, <1>2, <1>3, DayStartBounds, DayStartMonotone DEF Today, Horizon

(* Where the job resumes: at or after the watermark, by the start of today, *)
(* and everything it skips has expired.                                     *)
LEMMA ResumeBounds ==
    ASSUME TypeOK, NEW r \in Hours, Resume(r)
    PROVE  /\ completedBefore <= r
           /\ r <= Today
           /\ \A x \in raw : /\ completedBefore <= x.at.hour
                             /\ x.at.hour < r
                             => Expired(x)
<1>1. PICK w \in Hours : Watermark(w) /\ r = Greatest(w, DayStart(now.hour - Retention))
  BY DEF Resume
<1> DEFINE oldest == DayStart(now.hour - Retention)
<1>2. /\ oldest \in 0..Horizon.hour /\ oldest <= Today
      /\ Today \in Nat /\ Horizon.hour \in Nat /\ completedBefore \in 0..Today
      /\ w \in Nat
  BY HorizonHour DEF TypeOK, Hours
<1> HIDE DEF oldest
<1>3. w <= Today /\ completedBefore <= w
  <2>1. CASE completedBefore # 0
    BY <2>1, <1>1, <1>2 DEF Watermark
  <2>2. CASE completedBefore = 0
    <3>1. CASE w = Today
      BY <3>1, <2>2, <1>2
    <3>2. CASE \E x \in Recent : w = Least(Today, DayStart(x.at.hour))
      <4>1. PICK x \in Recent : w = Least(Today, DayStart(x.at.hour))
        BY <3>2
      <4>2. x.at.hour \in Nat
        BY <4>1 DEF Recent, TypeOK, Sample, Time, Hours
      <4>3. DayStart(x.at.hour) \in Nat
        BY <4>2, DayStartBounds
      <4> QED
        BY <4>1, <4>3, <1>2, <2>2 DEF Least
    <3> QED
      BY <3>1, <3>2, <2>2, <1>1 DEF Watermark, Earliest
  <2> QED
    BY <2>1, <2>2
<1>4. r = Greatest(w, oldest)
  BY <1>1 DEF oldest
<1>5. ASSUME NEW x \in raw, completedBefore <= x.at.hour, x.at.hour < r
      PROVE  Expired(x)
  <2>1. x.at.hour \in Nat /\ x.at.part \in Nat
    BY RollupAssumption DEF TypeOK, Sample, Time, Hours
  <2>2. CASE x.at.hour < oldest
    BY <2>1, <2>2, <1>2 DEF Expired, Earlier
  <2>3. CASE x.at.hour < w
    <3>1. completedBefore = 0
      BY <2>3, <2>1, <1>5, <1>1, <1>2 DEF Watermark
    <3>2. CASE Recent = {}
      BY <3>2 DEF Recent
    <3>3. CASE \E e \in Recent : /\ \A y \in Recent : e.at.hour <= y.at.hour
                                 /\ w = Least(Today, DayStart(e.at.hour))
      <4>1. PICK e \in Recent : /\ \A y \in Recent : e.at.hour <= y.at.hour
                                /\ w = Least(Today, DayStart(e.at.hour))
        BY <3>3
      <4>2. e.at.hour \in Nat
        BY <4>1 DEF Recent, TypeOK, Sample, Time, Hours
      <4>3. DayStart(e.at.hour) \in 0..e.at.hour
        BY <4>2, DayStartBounds
      <4>4. w <= e.at.hour
        BY <4>1, <4>2, <4>3, <1>2 DEF Least
      <4>5. x \notin Recent
        BY <4>1, <4>2, <4>4, <2>1, <2>3, <1>2
      <4> QED
        BY <4>5 DEF Recent
    <3> QED
      BY <3>1, <3>2, <3>3, <1>1 DEF Watermark, Earliest
  <2> QED
    BY <2>1, <2>2, <2>3, <1>2, <1>4, <1>5 DEF Greatest
<1> QED
  BY <1>2, <1>3, <1>4, <1>5 DEF Greatest

(* A transaction that changes raw rows and fires the triggers keeps every   *)
(* clean summary right.                                                     *)
LEMMA TriggersKeepSummaries ==
    ASSUME SummariesCurrent, TypeOK, raw' \subseteq Sample,
           dirty' = dirty \cup Invalidated(raw, raw'),
           UNCHANGED <<now, rolled, completedBefore>>
    PROVE  SummariesCurrent'
<1> SUFFICES ASSUME NEW n \in Nodes, NEW s \in Series,
                    NEW h \in 0..(completedBefore - 1),
                    <<n, KindOf(s), h>> \notin dirty'
             PROVE  \/ InHourOf(rolled, n, s, h) = InHourOf(raw', n, s, h)
                    \/ /\ InHourOf(rolled, n, s, h) = {}
                       /\ \A x \in InHourOf(raw', n, s, h) : Expired(x)
  BY DEF SummariesCurrent, InHourOf, Expired, Earlier, Horizon
<1>1. InHourOf(raw', n, s, h) = InHourOf(raw, n, s, h)
  <2>1. ASSUME NEW x \in (raw \ raw') \cup (raw' \ raw),
               x.node = n, x.series = s, x.at.hour = h
        PROVE  FALSE
    <3>1. x.at.hour < completedBefore
      BY <2>1 DEF TypeOK
    <3>2. DirtyHour(x) \in Invalidated(raw, raw')
      BY <2>1, <3>1 DEF Invalidated
    <3>3. DirtyHour(x) = <<n, KindOf(s), h>>
      BY <2>1 DEF DirtyHour
    <3> QED
      BY <3>2, <3>3
  <2> QED
    BY <2>1 DEF InHourOf
<1>2. <<n, KindOf(s), h>> \notin dirty
  OBVIOUS
<1> QED
  BY <1>1, <1>2 DEF SummariesCurrent

LEMMA TriggersBelowWatermark ==
    ASSUME BelowWatermark, TypeOK,
           dirty' = dirty \cup Invalidated(raw, raw'),
           raw' \subseteq Sample, rolled' \subseteq rolled,
           UNCHANGED completedBefore
    PROVE  BelowWatermark' /\ dirty' \subseteq Nodes \X Kinds \X Hours
<1>1. ASSUME NEW d \in Invalidated(raw, raw')
      PROVE  d \in Nodes \X Kinds \X Hours /\ d[3] < completedBefore
  <2>1. PICK x \in raw \cup raw' : d = DirtyHour(x) /\ x.at.hour < completedBefore
    BY <1>1 DEF Invalidated
  <2>2. x \in Sample
    BY <2>1 DEF TypeOK
  <2>3. x.node \in Nodes /\ KindOf(x.series) \in Kinds /\ x.at.hour \in Hours
    BY <2>2 DEF Sample, Time, KindOf, Kinds
  <2> QED
    BY <2>1, <2>3 DEF DirtyHour
<1> QED
  BY <1>1 DEF BelowWatermark, TypeOK
-----------------------------------------------------------------------------
LEMMA InitIInv == Init => IInv
<1> SUFFICES ASSUME Init PROVE IInv
  OBVIOUS
<1>1. Today \in Nat
  BY DayStartBounds, RollupAssumption DEF Today, Init
<1>2. TypeOK
  BY <1>1, RollupAssumption DEF Init, TypeOK, Time, Hours
<1> QED
  BY <1>2 DEF Init, IInv, BelowWatermark, SummariesCurrent

LEMMA WriteSampleIInv ==
    ASSUME IInv, NEW s \in Sample, WriteSample(s)
    PROVE  IInv'
<1> DEFINE old == {y \in raw : y.node = s.node /\ y.series = s.series /\ y.at = s.at}
<1>1. /\ raw' = (raw \ old) \cup {s}
      /\ dirty' = dirty \cup Invalidated(raw, raw')
      /\ UNCHANGED <<now, nodes, rolled, completedBefore, cleanup>>
      /\ writes' = writes + 1
  BY DEF WriteSample
<1> HIDE DEF old
<1>2. TypeOK /\ BelowWatermark /\ SummariesCurrent
  BY DEF IInv
<1>3. raw' \subseteq Sample
  BY <1>1, <1>2 DEF TypeOK
<1>4. BelowWatermark' /\ dirty' \subseteq Nodes \X Kinds \X Hours
  BY <1>1, <1>2, <1>3, TriggersBelowWatermark
<1>5. SummariesCurrent'
  BY <1>1, <1>2, <1>3, TriggersKeepSummaries
<1>6. TypeOK'
  <2>1. Today' = Today
    BY <1>1 DEF Today
  <2>2. writes' \in Nat
    BY <1>1, <1>2 DEF TypeOK
  <2> QED
    BY <1>1, <1>2, <1>3, <1>4, <2>1, <2>2 DEF TypeOK
<1> QED
  BY <1>4, <1>5, <1>6 DEF IInv

LEMMA PruneRawIInv ==
    ASSUME IInv, NEW gone, PruneRaw(gone), cleanup' \in {"resource", "rollups"},
           UNCHANGED <<now, nodes, rolled, completedBefore, writes>>
    PROVE  IInv'
<1>2. TypeOK /\ BelowWatermark /\ SummariesCurrent
  BY DEF IInv
<1>3. CASE raw' = raw \ gone /\ dirty' = dirty \cup Invalidated(raw, raw')
  <2>1. raw' \subseteq Sample
    BY <1>2, <1>3 DEF TypeOK
  <2>2. BelowWatermark' /\ dirty' \subseteq Nodes \X Kinds \X Hours
    BY <1>2, <1>3, <2>1, TriggersBelowWatermark
  <2>3. SummariesCurrent'
    BY <1>2, <1>3, <2>1, TriggersKeepSummaries
  <2>4. TypeOK'
    BY <1>2, <2>1, <2>2 DEF TypeOK, Today
  <2> QED
    BY <2>2, <2>3, <2>4 DEF IInv
<1>4. CASE UNCHANGED <<raw, dirty>>
  <2>1. TypeOK'
    BY <1>2, <1>4 DEF TypeOK, Today
  <2>2. BelowWatermark'
    BY <1>2, <1>4 DEF BelowWatermark
  <2>3. SummariesCurrent'
    BY <1>2, <1>4 DEF SummariesCurrent, InHourOf, Expired, Earlier, Horizon
  <2> QED
    BY <2>1, <2>2, <2>3 DEF IInv
<1> QED
  BY <1>3, <1>4 DEF PruneRaw

LEMMA RollupDayIInv ==
    ASSUME IInv, RollupDay
    PROVE  IInv'
<1>1. PICK start \in Hours :
         /\ Resume(start) /\ start < Today
         /\ LET end == Least(start + DayHours, Today)
                day == start..(end - 1)
            IN /\ rolled' = (rolled \ Within(rolled, day)) \cup Within(raw, day)
               /\ dirty' = {d \in dirty : d[3] \notin day}
               /\ completedBefore' = end
  BY DEF RollupDay
<1> DEFINE end == Least(start + DayHours, Today)
           day == start..(end - 1)
<1>2. /\ rolled' = (rolled \ Within(rolled, day)) \cup Within(raw, day)
      /\ dirty' = {d \in dirty : d[3] \notin day}
      /\ completedBefore' = end
      /\ UNCHANGED <<now, nodes, raw, cleanup, writes>>
  BY <1>1 DEF RollupDay
<1>3. TypeOK /\ BelowWatermark /\ SummariesCurrent
  BY DEF IInv
<1>4. /\ completedBefore <= start
      /\ \A x \in raw : completedBefore <= x.at.hour /\ x.at.hour < start => Expired(x)
  BY <1>1, <1>3, ResumeBounds
<1>5. /\ start \in Nat /\ Today \in Nat /\ completedBefore \in Nat
      /\ end \in Nat /\ start < end /\ end <= Today
  BY <1>1, <1>3, HorizonHour, RollupAssumption DEF Hours, Least, TypeOK
<1> HIDE DEF end
<1>6. \A x \in raw \cup rolled : x.at.hour \in Nat
  BY <1>3 DEF TypeOK, Sample, Time, Hours
<1>7. TypeOK'
  <2>1. rolled' \subseteq Sample /\ dirty' \subseteq Nodes \X Kinds \X Hours
    BY <1>2, <1>3 DEF TypeOK, Within
  <2>2. Today' = Today
    BY <1>2 DEF Today
  <2> QED
    BY <1>2, <1>3, <1>5, <2>1, <2>2 DEF TypeOK
<1>8. BelowWatermark'
  <2>1. ASSUME NEW x \in rolled' PROVE x.at.hour < end
    BY <2>1, <1>2, <1>3, <1>4, <1>5, <1>6 DEF BelowWatermark, Within
  <2>2. ASSUME NEW d \in dirty' PROVE d[3] < end
    BY <2>2, <1>2, <1>3, <1>4, <1>5 DEF BelowWatermark, TypeOK, Hours
  <2> QED
    BY <1>2, <2>1, <2>2 DEF BelowWatermark
<1>9. SummariesCurrent'
  <2> SUFFICES ASSUME NEW n \in Nodes, NEW s \in Series, NEW h \in 0..(end - 1),
                      <<n, KindOf(s), h>> \notin dirty'
               PROVE  \/ InHourOf(rolled', n, s, h) = InHourOf(raw, n, s, h)
                      \/ /\ InHourOf(rolled', n, s, h) = {}
                         /\ \A x \in InHourOf(raw, n, s, h) : Expired(x)
    BY <1>2 DEF SummariesCurrent, InHourOf, Expired, Earlier, Horizon
  <2>1. CASE h \in day
    <3>1. InHourOf(rolled', n, s, h) = InHourOf(raw, n, s, h)
      BY <2>1, <1>2 DEF InHourOf, Within
    <3> QED
      BY <3>1
  <2>2. CASE h \notin day
    <3>1. InHourOf(rolled', n, s, h) = InHourOf(rolled, n, s, h)
      BY <2>2, <1>2 DEF InHourOf, Within
    <3>2. <<n, KindOf(s), h>> \notin dirty
      BY <2>2, <1>2
    <3>3. CASE h < completedBefore
      <4>1. h \in 0..(completedBefore - 1)
        BY <3>3, <1>5
      <4> QED
        BY <4>1, <3>1, <3>2, <1>3 DEF SummariesCurrent
    <3>4. CASE ~(h < completedBefore)
      <4>1. h < start /\ completedBefore <= h
        BY <3>4, <2>2, <1>5
      <4>2. InHourOf(rolled, n, s, h) = {}
        BY <3>4, <1>3, <1>5 DEF InHourOf, BelowWatermark
      <4>3. \A x \in InHourOf(raw, n, s, h) : Expired(x)
        BY <4>1, <1>4 DEF InHourOf
      <4> QED
        BY <3>1, <4>2, <4>3
    <3> QED
      BY <3>3, <3>4
  <2> QED
    BY <2>1, <2>2
<1> QED
  BY <1>7, <1>8, <1>9 DEF IInv

(* A watermark that only skips expired hours.                               *)
LEMMA SkippedHours ==
    ASSUME IInv, NEW start \in Hours, Resume(start), start >= Today,
           NEW n \in Nodes, NEW s \in Series, NEW h \in 0..(start - 1),
           <<n, KindOf(s), h>> \notin dirty
    PROVE  \/ InHourOf(rolled, n, s, h) = InHourOf(raw, n, s, h)
           \/ /\ InHourOf(rolled, n, s, h) = {}
              /\ \A x \in InHourOf(raw, n, s, h) : Expired(x)
<1>3. TypeOK /\ BelowWatermark /\ SummariesCurrent
  BY DEF IInv
<1>4. /\ completedBefore <= start
      /\ \A x \in raw : completedBefore <= x.at.hour /\ x.at.hour < start => Expired(x)
  BY <1>3, ResumeBounds
<1>5. completedBefore \in Nat /\ start \in Nat
  BY <1>3, HorizonHour DEF TypeOK, Hours
<1>6. CASE h < completedBefore
  <2>1. h \in 0..(completedBefore - 1)
    BY <1>6, <1>5
  <2> QED
    BY <2>1, <1>3 DEF SummariesCurrent
<1>7. CASE ~(h < completedBefore)
  <2>1. InHourOf(rolled, n, s, h) = {}
    BY <1>7, <1>3, <1>5 DEF InHourOf, BelowWatermark
  <2>2. \A x \in InHourOf(raw, n, s, h) : Expired(x)
    BY <1>7, <1>4, <1>5 DEF InHourOf
  <2> QED
    BY <2>1, <2>2
<1> QED
  BY <1>6, <1>7

LEMMA RepairHourIInv ==
    ASSUME IInv, RepairHour
    PROVE  IInv'
<1>1. PICK start \in Hours : Resume(start) /\ start >= Today /\ completedBefore' = start
  BY DEF RepairHour
<1>2. PICK d \in Due : /\ rolled' = (rolled \ OfRepair(rolled, d)) \cup OfRepair(raw, d)
                       /\ dirty' = dirty \ {d}
  BY DEF RepairHour
<1>0. UNCHANGED <<now, nodes, raw, cleanup, writes>>
  BY DEF RepairHour
<1>3. TypeOK /\ BelowWatermark /\ SummariesCurrent
  BY DEF IInv
<1>4. completedBefore <= start /\ start <= Today
  BY <1>1, <1>3, ResumeBounds
<1>5. start \in Nat /\ Today \in Nat /\ completedBefore \in Nat
  BY <1>1, <1>3, HorizonHour DEF Hours, TypeOK
<1>6. d \in dirty /\ d[3] < completedBefore /\ d[3] \in Nat
  BY <1>3 DEF Due, BelowWatermark, TypeOK, Hours
<1>7. TypeOK'
  <2>1. rolled' \subseteq Sample /\ dirty' \subseteq Nodes \X Kinds \X Hours
    BY <1>2, <1>3 DEF TypeOK, OfRepair
  <2>2. Today' = Today
    BY <1>0 DEF Today
  <2> QED
    BY <1>0, <1>1, <1>3, <1>4, <1>5, <2>1, <2>2 DEF TypeOK
<1>8. BelowWatermark'
  <2>1. ASSUME NEW x \in rolled' PROVE x.at.hour < start
    <3>1. CASE x \in rolled
      <4>1. x.at.hour \in Nat /\ x.at.hour < completedBefore
        BY <3>1, <1>3 DEF BelowWatermark, TypeOK, Sample, Time, Hours
      <4> QED
        BY <4>1, <1>4, <1>5
    <3>2. CASE x \in OfRepair(raw, d)
      <4>1. x.at.hour = d[3]
        BY <3>2 DEF OfRepair, DirtyHour
      <4> QED
        BY <4>1, <1>4, <1>5, <1>6
    <3> QED
      BY <1>2, <2>1, <3>1, <3>2
  <2>2. ASSUME NEW e \in dirty' PROVE e[3] < start
    BY <2>2, <1>2, <1>3, <1>4, <1>5 DEF BelowWatermark, TypeOK, Hours
  <2> QED
    BY <1>1, <2>1, <2>2 DEF BelowWatermark
<1>9. SummariesCurrent'
  <2> SUFFICES ASSUME NEW n \in Nodes, NEW s \in Series, NEW h \in 0..(start - 1),
                      <<n, KindOf(s), h>> \notin dirty'
               PROVE  \/ InHourOf(rolled', n, s, h) = InHourOf(raw, n, s, h)
                      \/ /\ InHourOf(rolled', n, s, h) = {}
                         /\ \A x \in InHourOf(raw, n, s, h) : Expired(x)
    BY <1>0, <1>1 DEF SummariesCurrent, InHourOf, Expired, Earlier, Horizon
  <2>1. CASE <<n, KindOf(s), h>> = d
    <3>1. InHourOf(rolled', n, s, h) = InHourOf(raw, n, s, h)
      BY <2>1, <1>2 DEF InHourOf, OfRepair, DirtyHour
    <3> QED
      BY <3>1
  <2>2. CASE <<n, KindOf(s), h>> # d
    <3>1. InHourOf(rolled', n, s, h) = InHourOf(rolled, n, s, h)
      BY <2>2, <1>2 DEF InHourOf, OfRepair, DirtyHour
    <3>2. <<n, KindOf(s), h>> \notin dirty
      BY <2>2, <1>2
    <3> QED
      BY <3>1, <3>2, <1>1, SkippedHours
  <2> QED
    BY <2>1, <2>2
<1> QED
  BY <1>7, <1>8, <1>9 DEF IInv

LEMMA RollupNothingIInv ==
    ASSUME IInv, RollupNothing
    PROVE  IInv'
<1>1. PICK start \in Hours : Resume(start) /\ start >= Today /\ completedBefore' = start
  BY DEF RollupNothing
<1>0. UNCHANGED <<now, nodes, raw, rolled, dirty, cleanup, writes>>
  BY DEF RollupNothing
<1>3. TypeOK /\ BelowWatermark /\ SummariesCurrent
  BY DEF IInv
<1>4. completedBefore <= start /\ start <= Today
  BY <1>1, <1>3, ResumeBounds
<1>5. start \in Nat /\ Today \in Nat /\ completedBefore \in Nat
  BY <1>1, <1>3, HorizonHour DEF Hours, TypeOK
<1>7. TypeOK'
  BY <1>0, <1>1, <1>3, <1>4, <1>5 DEF TypeOK, Today
<1>8. BelowWatermark'
  BY <1>0, <1>1, <1>3, <1>4, <1>5 DEF BelowWatermark, TypeOK, Sample, Time, Hours
<1>9. SummariesCurrent'
  <2> SUFFICES ASSUME NEW n \in Nodes, NEW s \in Series, NEW h \in 0..(start - 1),
                      <<n, KindOf(s), h>> \notin dirty
               PROVE  \/ InHourOf(rolled, n, s, h) = InHourOf(raw, n, s, h)
                      \/ /\ InHourOf(rolled, n, s, h) = {}
                         /\ \A x \in InHourOf(raw, n, s, h) : Expired(x)
    BY <1>0, <1>1 DEF SummariesCurrent, InHourOf, Expired, Earlier, Horizon
  <2> QED
    BY <1>1, SkippedHours
<1> QED
  BY <1>7, <1>8, <1>9 DEF IInv

LEMMA PruneRollupsIInv ==
    ASSUME IInv, PruneRollups
    PROVE  IInv'
<1>0. UNCHANGED <<now, nodes, raw, completedBefore, writes>> /\ cleanup' = "idle"
  BY DEF PruneRollups
<1>3. TypeOK /\ BelowWatermark /\ SummariesCurrent
  BY DEF IInv
<1>4. CASE /\ rolled' = {x \in rolled : x.at.hour > Horizon.hour - 1}
           /\ dirty' = {d \in dirty : d[3] > Horizon.hour - 1}
  <2>1. TypeOK' /\ BelowWatermark'
    BY <1>0, <1>3, <1>4 DEF TypeOK, BelowWatermark, Today
  <2>2. ASSUME NEW n \in Nodes, NEW s \in Series, NEW h \in 0..(completedBefore - 1),
               <<n, KindOf(s), h>> \notin dirty'
        PROVE  \/ InHourOf(rolled', n, s, h) = InHourOf(raw, n, s, h)
               \/ /\ InHourOf(rolled', n, s, h) = {}
                  /\ \A x \in InHourOf(raw, n, s, h) : Expired(x)
    <3>1. Horizon.hour \in Nat /\ h \in Nat
      BY <1>3, HorizonHour DEF TypeOK
    <3>2. CASE h > Horizon.hour - 1
      <4>1. InHourOf(rolled', n, s, h) = InHourOf(rolled, n, s, h)
        BY <3>2, <1>4 DEF InHourOf
      <4>2. <<n, KindOf(s), h>> \notin dirty
        BY <2>2, <3>2, <1>4
      <4> QED
        BY <4>1, <4>2, <1>3 DEF SummariesCurrent
    <3>3. CASE h < Horizon.hour
      <4>1. InHourOf(rolled', n, s, h) = {}
        BY <3>1, <3>3, <1>4 DEF InHourOf
      <4>2. \A x \in InHourOf(raw, n, s, h) : Expired(x)
        BY <3>3 DEF InHourOf, Expired, Earlier
      <4> QED
        BY <4>1, <4>2
    <3> QED
      BY <3>1, <3>2, <3>3
  <2>3. SummariesCurrent'
    BY <1>0, <2>2 DEF SummariesCurrent, InHourOf, Expired, Earlier, Horizon
  <2> QED
    BY <2>1, <2>3 DEF IInv
<1>5. CASE UNCHANGED <<rolled, dirty>>
  <2>1. TypeOK' /\ BelowWatermark'
    BY <1>0, <1>3, <1>5 DEF TypeOK, BelowWatermark, Today
  <2>2. SummariesCurrent'
    BY <1>0, <1>3, <1>5 DEF SummariesCurrent, InHourOf, Expired, Earlier, Horizon
  <2> QED
    BY <2>1, <2>2 DEF IInv
<1> QED
  BY <1>4, <1>5 DEF PruneRollups

LEMMA DropTargetIInv ==
    ASSUME IInv, NEW n \in Nodes, NEW t \in PingTargets, DropTarget(n, t)
    PROVE  IInv'
<1> DEFINE Dropped(x) == x.node = n /\ x.series = t
<1>1. /\ raw' = {x \in raw : ~Dropped(x)}
      /\ rolled' = {x \in rolled : ~Dropped(x)}
      /\ dirty' = dirty \cup Invalidated(raw, raw')
      /\ UNCHANGED <<now, nodes, completedBefore, cleanup, writes>>
  BY DEF DropTarget
<1>2. TypeOK /\ BelowWatermark /\ SummariesCurrent
  BY DEF IInv
<1>3. raw' \subseteq Sample /\ rolled' \subseteq rolled
  BY <1>1, <1>2 DEF TypeOK
<1>4. BelowWatermark' /\ dirty' \subseteq Nodes \X Kinds \X Hours
  BY <1>1, <1>2, <1>3, TriggersBelowWatermark
<1>5. TypeOK'
  <2>1. Today' = Today
    BY <1>1 DEF Today
  <2> QED
    BY <1>1, <1>2, <1>3, <1>4, <2>1 DEF TypeOK
<1>6. ASSUME NEW m \in Nodes, NEW s \in Series, NEW h \in 0..(completedBefore - 1),
             <<m, KindOf(s), h>> \notin dirty'
      PROVE  \/ InHourOf(rolled', m, s, h) = InHourOf(raw', m, s, h)
             \/ /\ InHourOf(rolled', m, s, h) = {}
                /\ \A x \in InHourOf(raw', m, s, h) : Expired(x)
  <2>1. CASE m = n /\ s = t
    BY <2>1, <1>1 DEF InHourOf
  <2>2. CASE ~(m = n /\ s = t)
    <3>1. /\ InHourOf(rolled', m, s, h) = InHourOf(rolled, m, s, h)
          /\ InHourOf(raw', m, s, h) = InHourOf(raw, m, s, h)
      BY <2>2, <1>1 DEF InHourOf
    <3>2. <<m, KindOf(s), h>> \notin dirty
      BY <1>6, <1>1
    <3> QED
      BY <3>1, <3>2, <1>2 DEF SummariesCurrent
  <2> QED
    BY <2>1, <2>2
<1>7. SummariesCurrent'
  BY <1>1, <1>6 DEF SummariesCurrent, InHourOf, Expired, Earlier, Horizon
<1> QED
  BY <1>4, <1>5, <1>7 DEF IInv

LEMMA DeleteNodeIInv ==
    ASSUME IInv, NEW n \in Nodes, DeleteNode(n)
    PROVE  IInv'
<1>1. /\ nodes' = nodes \ {n}
      /\ raw' = {x \in raw : x.node # n}
      /\ rolled' = {x \in rolled : x.node # n}
      /\ dirty' = {d \in dirty : d[1] # n}
      /\ UNCHANGED <<now, completedBefore, cleanup, writes>>
  BY DEF DeleteNode
<1>2. TypeOK /\ BelowWatermark /\ SummariesCurrent
  BY DEF IInv
<1>3. TypeOK' /\ BelowWatermark'
  BY <1>1, <1>2 DEF TypeOK, BelowWatermark, Today
<1>4. ASSUME NEW m \in Nodes, NEW s \in Series, NEW h \in 0..(completedBefore - 1),
             <<m, KindOf(s), h>> \notin dirty'
      PROVE  \/ InHourOf(rolled', m, s, h) = InHourOf(raw', m, s, h)
             \/ /\ InHourOf(rolled', m, s, h) = {}
                /\ \A x \in InHourOf(raw', m, s, h) : Expired(x)
  <2>1. CASE m = n
    BY <2>1, <1>1 DEF InHourOf
  <2>2. CASE m # n
    <3>1. /\ InHourOf(rolled', m, s, h) = InHourOf(rolled, m, s, h)
          /\ InHourOf(raw', m, s, h) = InHourOf(raw, m, s, h)
      BY <2>2, <1>1 DEF InHourOf
    <3>2. <<m, KindOf(s), h>> \notin dirty
      BY <1>4, <1>1, <2>2
    <3> QED
      BY <3>1, <3>2, <1>2 DEF SummariesCurrent
  <2> QED
    BY <2>1, <2>2
<1>5. SummariesCurrent'
  BY <1>1, <1>4 DEF SummariesCurrent, InHourOf, Expired, Earlier, Horizon
<1> QED
  BY <1>3, <1>5 DEF IInv

LEMMA TickIInv ==
    ASSUME IInv, Tick
    PROVE  IInv'
<1>1. /\ now' \in Time /\ Earlier(now, now')
      /\ UNCHANGED <<nodes, raw, rolled, dirty, completedBefore, cleanup, writes>>
  BY DEF Tick
<1>2. TypeOK /\ BelowWatermark /\ SummariesCurrent
  BY DEF IInv
<1>3. /\ now.hour \in Nat /\ now.part \in Nat /\ now'.hour \in Nat /\ now'.part \in Nat
      /\ now.hour <= now'.hour
  BY <1>1, <1>2, RollupAssumption DEF TypeOK, Time, Hours, Earlier
<1>4. Today \in Nat /\ Today' \in Nat /\ Today <= Today'
  BY <1>3, DayStartBounds, DayStartMonotone DEF Today
<1>5. TypeOK'
  <2>1. completedBefore' \in 0..Today'
    BY <1>1, <1>2, <1>4 DEF TypeOK
  <2>2. FirstHour \in Nat
    BY RollupAssumption
  <2>3. now'.hour >= FirstHour
    BY <1>2, <1>3, <2>2 DEF TypeOK
  <2> QED
    BY <1>1, <1>2, <2>1, <2>3 DEF TypeOK
<1>6. BelowWatermark'
  BY <1>1, <1>2 DEF BelowWatermark
<1>7. ASSUME NEW x \in raw, Expired(x)
      PROVE  Expired(x)'
  <2>1. x.at.hour \in Nat /\ x.at.part \in Nat
    BY <1>2, RollupAssumption DEF TypeOK, Sample, Time, Hours
  <2>2. now.hour < now'.hour \/ (now.hour = now'.hour /\ now.part < now'.part)
    BY <1>1 DEF Earlier
  <2>3. Retention \in Nat
    BY RollupAssumption
  <2> QED
    BY <1>3, <1>7, <2>1, <2>2, <2>3 DEF Expired, Earlier, Horizon
<1>8. SummariesCurrent'
  BY <1>1, <1>2, <1>7 DEF SummariesCurrent, InHourOf
<1> QED
  BY <1>5, <1>6, <1>8 DEF IInv

LEMMA NextIInv == IInv /\ [Next]_vars => IInv'
<1> SUFFICES ASSUME IInv, [Next]_vars PROVE IInv'
  OBVIOUS
<1>1. ASSUME NEW x \in Sample, WriteSample(x) PROVE IInv'
  BY <1>1, WriteSampleIInv
<1>2. CASE RollupDay
  BY <1>2, RollupDayIInv
<1>3. CASE RepairHour
  BY <1>3, RepairHourIInv
<1>4. CASE RollupNothing
  BY <1>4, RollupNothingIInv
<1>5. CASE PrunePing
  <2>1. /\ PruneRaw({x \in raw : x.series \in PingTargets /\ Expired(x)})
        /\ cleanup' = "resource"
        /\ UNCHANGED <<now, nodes, rolled, completedBefore, writes>>
    BY <1>5 DEF PrunePing
  <2> QED
    BY <2>1, PruneRawIInv
<1>6. CASE PruneResource
  <2>1. /\ PruneRaw({x \in raw : x.series = Resource /\ Expired(x)})
        /\ cleanup' = "rollups"
        /\ UNCHANGED <<now, nodes, rolled, completedBefore, writes>>
    BY <1>6 DEF PruneResource
  <2> QED
    BY <2>1, PruneRawIInv
<1>7. CASE PruneRollups
  BY <1>7, PruneRollupsIInv
<1>8. CASE Interrupt \/ UNCHANGED vars
  <2>1. /\ UNCHANGED <<now, nodes, raw, rolled, dirty, completedBefore, writes>>
        /\ cleanup' \in {"idle", cleanup}
    BY <1>8 DEF Interrupt, vars
  <2>2. TypeOK' /\ BelowWatermark'
    BY <2>1 DEF IInv, TypeOK, BelowWatermark, Today
  <2>3. SummariesCurrent'
    BY <2>1 DEF IInv, SummariesCurrent, InHourOf, Expired, Earlier, Horizon
  <2> QED
    BY <2>2, <2>3 DEF IInv
<1>9. ASSUME NEW n \in Nodes, NEW t \in PingTargets, DropTarget(n, t) PROVE IInv'
  BY <1>9, DropTargetIInv
<1>10. ASSUME NEW n \in Nodes, DeleteNode(n) PROVE IInv'
  BY <1>10, DeleteNodeIInv
<1>11. CASE Tick
  BY <1>11, TickIInv
<1> QED
  BY <1>1, <1>2, <1>3, <1>4, <1>5, <1>6, <1>7, <1>8, <1>9, <1>10, <1>11
  DEF Next, Job

THEOREM SummaryInvariant == Spec => []IInv
BY InitIInv, NextIInv, PTL DEF Spec

(* Every variable keeps its type and the watermark never passes the start   *)
(* of the current day, for any retention, day length and clock.             *)
THEOREM RollupTypeCorrect == Spec => []TypeOK
BY SummaryInvariant, PTL DEF IInv

(* However writes, repairs, retention and deletions interleave, a clean     *)
(* summary is computed from exactly the raw rows its hour holds.            *)
THEOREM SummariesAreCurrent == Spec => []SummariesCurrent
BY SummaryInvariant, PTL DEF IInv
-----------------------------------------------------------------------------
(* A clean summary inside a window and below the watermark holds the raw    *)
(* rows of its hour, or there is none.                                      *)
LEMMA CleanHour ==
    ASSUME IInv, NEW n \in Nodes, NEW s \in Series, NEW h \in Hours,
           h < completedBefore, <<n, KindOf(s), h>> \notin dirty
    PROVE  \/ InHourOf(rolled, n, s, h) = InHourOf(raw, n, s, h)
           \/ /\ InHourOf(rolled, n, s, h) = {}
              /\ \A x \in InHourOf(raw, n, s, h) : Expired(x)
<1>1. h \in 0..(completedBefore - 1)
  BY HorizonHour DEF IInv, TypeOK, Hours
<1> QED
  BY <1>1 DEF IInv, SummariesCurrent

(* A row in a full hour of the window is in the window.                     *)
LEMMA FullHours ==
    ASSUME NEW start \in Time, NEW end \in Time, NEW x \in Sample, TypeOK,
           FirstFull(start) <= x.at.hour, x.at.hour < LastFull(end)
    PROVE  /\ ~Earlier(x.at, start) /\ ~Earlier(end, x.at)
           /\ x.at.hour < completedBefore
<1>1. /\ start.hour \in Nat /\ start.part \in Nat /\ end.hour \in Nat /\ end.part \in Nat
      /\ x.at.hour \in Nat /\ x.at.part \in Nat /\ completedBefore \in Nat
  BY HorizonHour, RollupAssumption DEF Time, Hours, Sample, TypeOK
<1> QED
  BY <1>1 DEF FirstFull, LastFull, Least, Earlier

(* A ping query over any window counts every raw row once.                  *)
THEOREM PingQueriesAreExact == Spec => []PingReadExact
<1>1. IInv => PingReadExact
  <2> SUFFICES ASSUME IInv, NEW n \in Nodes, NEW t \in PingTargets,
                      NEW start \in Time, NEW end \in Time
               PROVE  Exact(PingPieces(n, t, start, end), Window(n, t, start, end))
    BY DEF PingReadExact
  <2> DEFINE rows == Window(n, t, start, end)
             summaries == PingSummaries(n, t, start, end)
             between == {x \in rows : \A y \in summaries : y.at.hour # x.at.hour}
  <2>t. TypeOK /\ t \in Series
    BY DEF IInv, Series
  <2>1. ASSUME NEW x \in summaries
        PROVE  /\ x \in rows
               /\ InHourOf(rolled, n, t, x.at.hour) = InHourOf(raw, n, t, x.at.hour)
    <3>1. /\ x \in rolled /\ x.node = n /\ x.series = t /\ Clean(x)
          /\ x.at.hour \in FirstFull(start)..(LastFull(end) - 1)
      BY <2>1 DEF PingSummaries
    <3>2. x \in Sample /\ x.at.hour \in Hours
      BY <3>1, <2>t DEF TypeOK, Sample, Time
    <3>0. FirstFull(start) \in Int /\ LastFull(end) \in Int
      BY <2>t, HorizonHour DEF FirstFull, LastFull, Least, Time, Hours, TypeOK
    <3>3. /\ ~Earlier(x.at, start) /\ ~Earlier(end, x.at) /\ x.at.hour < completedBefore
      BY <3>0, <3>1, <3>2, <2>t, FullHours
    <3>4. <<n, KindOf(t), x.at.hour>> \notin dirty
      BY <3>1 DEF Clean, DirtyHour
    <3>5. x \in InHourOf(rolled, n, t, x.at.hour)
      BY <3>1 DEF InHourOf
    <3>6. InHourOf(rolled, n, t, x.at.hour) = InHourOf(raw, n, t, x.at.hour)
      BY <3>2, <3>3, <3>4, <3>5, <2>t, CleanHour
    <3>7. x \in raw
      BY <3>5, <3>6 DEF InHourOf
    <3> QED
      BY <3>1, <3>3, <3>6, <3>7 DEF Window
  <2>2. ASSUME NEW x \in rows, NEW y \in summaries, y.at.hour = x.at.hour
        PROVE  x \in summaries
    <3>1. x \in InHourOf(raw, n, t, y.at.hour)
      BY <2>2 DEF Window, InHourOf
    <3>2. x \in InHourOf(rolled, n, t, y.at.hour)
      BY <3>1, <2>1
    <3> QED
      BY <3>2, <2>2 DEF InHourOf, PingSummaries, Clean, DirtyHour
  <2>3. summaries \cup between = rows /\ summaries \cap between = {}
    BY <2>1, <2>2
  <2> HIDE DEF rows, summaries, between
  <2>4. Exact([summaries |-> summaries, between |-> between], rows)
    BY <2>3 DEF Exact
  <2> QED
    BY <2>4 DEF PingPieces, rows, summaries, between
<1> QED
  BY <1>1, SummaryInvariant, PTL

(* A resource query over any window the retention keeps counts every raw    *)
(* row once.                                                                *)
THEOREM ResourceQueriesAreExact == Spec => []ResourceReadExact
<1>1. IInv => ResourceReadExact
  <2> SUFFICES ASSUME IInv, NEW n \in Nodes, NEW start \in Time, NEW end \in Time,
                      ~Earlier(start, Horizon)
               PROVE  Exact(ResourcePieces(n, start, end),
                            Window(n, Resource, start, end))
    BY DEF ResourceReadExact
  <2> DEFINE first == FirstFull(start)
             last == LastFull(end)
             rows == Window(n, Resource, start, end)
             summaries == {x \in rolled : /\ x.node = n /\ x.series = Resource
                                          /\ x.at.hour \in first..(last - 1)
                                          /\ Clean(x)}
             head == {x \in rows : x.at.hour < first}
             tail == {x \in rows : x.at.hour >= last}
             repair == {x \in rows : x.at.hour \in first..(last - 1) /\ ~Clean(x)}
  <2>t. TypeOK /\ Resource \in Series
    BY DEF IInv, Series
  <2>0. first \in Int /\ last \in Int
    BY <2>t, HorizonHour DEF FirstFull, LastFull, Least, Time, Hours, TypeOK
  <2>1. \A x \in raw \cup rolled : x \in Sample /\ x.at.hour \in Hours /\ x.at.hour \in Nat
    BY <2>t DEF TypeOK, Sample, Time, Hours
  <2>2. ASSUME NEW x \in Sample, x.node = n, x.series = Resource,
               x.at.hour \in first..(last - 1), Clean(x)
        PROVE  x \in rolled <=> x \in rows
    <3>0. x.at.hour \in Hours /\ x.at.hour \in Nat
      BY DEF Sample, Time, Hours
    <3>1. /\ ~Earlier(x.at, start) /\ ~Earlier(end, x.at) /\ x.at.hour < completedBefore
      BY <2>0, <2>2, <2>t, <3>0, FullHours
    <3>2. <<n, KindOf(Resource), x.at.hour>> \notin dirty
      BY <2>2 DEF Clean, DirtyHour
    <3>3. \/ InHourOf(rolled, n, Resource, x.at.hour) = InHourOf(raw, n, Resource, x.at.hour)
          \/ /\ InHourOf(rolled, n, Resource, x.at.hour) = {}
             /\ \A y \in InHourOf(raw, n, Resource, x.at.hour) : Expired(y)
      BY <3>0, <3>1, <3>2, <2>t, CleanHour
    <3>4. ~Expired(x)
      <4>1. /\ x.at.hour \in Nat /\ x.at.part \in Nat /\ start.hour \in Nat
            /\ start.part \in Nat /\ Horizon.hour \in Nat /\ Horizon.part \in Nat
        BY <2>t, HorizonHour, RollupAssumption DEF Sample, Time, Hours
      <4> QED
        BY <4>1, <3>1 DEF Expired, Earlier
    <3>5. x \in rolled <=> x \in raw
      BY <3>3, <3>4, <2>2 DEF InHourOf
    <3> QED
      BY <3>1, <3>5, <2>2 DEF Window
  <2>3. \A x \in rows : x \in raw /\ x.node = n /\ x.series = Resource
    BY DEF Window
  <2>4. summaries \cup head \cup tail \cup repair = rows
    <3>1. ASSUME NEW x \in summaries PROVE x \in rows
      BY <3>1, <2>1, <2>2
    <3>2. ASSUME NEW x \in rows, x \notin head, x \notin tail, x \notin repair
          PROVE  x \in summaries
      <4>1. x.at.hour \in Nat /\ x \in Sample
        BY <2>1, <2>3
      <4>2. x.at.hour \in first..(last - 1) /\ Clean(x)
        BY <3>2, <4>1, <2>0
      <4> QED
        BY <4>1, <4>2, <2>2, <2>3
    <3> QED
      BY <3>1, <3>2
  <2>5. ASSUME first < last
        PROVE  /\ summaries \cap head = {} /\ summaries \cap tail = {}
               /\ summaries \cap repair = {} /\ head \cap tail = {}
               /\ head \cap repair = {} /\ tail \cap repair = {}
    BY <2>5, <2>0, <2>1, <2>3
  <2> HIDE DEF first, last, rows, summaries, head, tail, repair
  <2>6. CASE first < last
    <3>1. Exact([summaries |-> summaries, head |-> head, tail |-> tail,
                 repair |-> repair], rows)
      <4> DEFINE pieces == [summaries |-> summaries, head |-> head, tail |-> tail,
                            repair |-> repair]
      <4>1. DOMAIN pieces = {"summaries", "head", "tail", "repair"}
        OBVIOUS
      <4>2. /\ pieces["summaries"] = summaries /\ pieces["head"] = head
            /\ pieces["tail"] = tail /\ pieces["repair"] = repair
        OBVIOUS
      <4> HIDE DEF pieces
      <4>3. UNION {pieces[p] : p \in DOMAIN pieces} = rows
        BY <4>1, <4>2, <2>4
      <4>4. \A p, q \in DOMAIN pieces : p # q => pieces[p] \cap pieces[q] = {}
        BY <4>1, <4>2, <2>5, <2>6
      <4>5. Exact(pieces, rows)
        BY <4>3, <4>4 DEF Exact
      <4> QED
        BY <4>5 DEF pieces
    <3> QED
      BY <3>1, <2>6 DEF ResourcePieces, first, last, rows, summaries, head, tail, repair
  <2>7. CASE ~(first < last)
    <3>1. Exact([summaries |-> {}, head |-> rows, tail |-> {}, repair |-> {}], rows)
      BY DEF Exact
    <3> QED
      BY <3>1, <2>7 DEF ResourcePieces, first, last, rows
  <2> QED
    BY <2>6, <2>7
<1> QED
  BY <1>1, SummaryInvariant, PTL
-----------------------------------------------------------------------------
LEMMA TriggersNameOwners ==
    ASSUME NEW before, NEW after, NEW owners,
           \A x \in before \cup after : x.node \in owners
    PROVE  \A d \in Invalidated(before, after) : d[1] \in owners
BY DEF Invalidated, DirtyHour

(* A deleted node leaves no row, summary or repair behind, whatever the job *)
(* and the cleanup were doing.                                              *)
THEOREM DeletionLeavesNothing == Spec => []DeletedLeavesNothing
<1>1. Init => DeletedLeavesNothing
  BY DEF Init, DeletedLeavesNothing
<1>2. DeletedLeavesNothing /\ [Next]_vars => DeletedLeavesNothing'
  <2> SUFFICES ASSUME DeletedLeavesNothing, [Next]_vars PROVE DeletedLeavesNothing'
    OBVIOUS
  <2>d. /\ \A x \in raw \cup rolled : x.node \in nodes
        /\ \A d \in dirty : d[1] \in nodes
    BY DEF DeletedLeavesNothing
  <2>1. ASSUME NEW x \in Sample, WriteSample(x) PROVE DeletedLeavesNothing'
    <3>1. /\ x.node \in nodes /\ raw' \subseteq raw \cup {x} /\ nodes' = nodes
          /\ rolled' = rolled /\ dirty' = dirty \cup Invalidated(raw, raw')
      BY <2>1 DEF WriteSample
    <3>2. \A d \in Invalidated(raw, raw') : d[1] \in nodes
      BY <3>1, <2>d, TriggersNameOwners
    <3> QED
      BY <3>1, <3>2, <2>d DEF DeletedLeavesNothing
  <2>2. ASSUME NEW gone, PruneRaw(gone), UNCHANGED <<nodes, rolled>>
        PROVE  DeletedLeavesNothing'
    <3>1. CASE raw' = raw \ gone /\ dirty' = dirty \cup Invalidated(raw, raw')
      <4>1. \A d \in Invalidated(raw, raw') : d[1] \in nodes
        BY <3>1, <2>d, TriggersNameOwners
      <4> QED
        BY <4>1, <3>1, <2>2, <2>d DEF DeletedLeavesNothing
    <3> QED
      BY <3>1, <2>2, <2>d DEF PruneRaw, DeletedLeavesNothing
  <2>3. CASE PrunePing \/ PruneResource
    BY <2>3, <2>2 DEF PrunePing, PruneResource
  <2>4. ASSUME NEW n \in Nodes, NEW t \in PingTargets, DropTarget(n, t)
        PROVE  DeletedLeavesNothing'
    <3>1. /\ raw' \subseteq raw /\ rolled' \subseteq rolled /\ nodes' = nodes
          /\ dirty' = dirty \cup Invalidated(raw, raw')
      BY <2>4 DEF DropTarget
    <3>2. \A d \in Invalidated(raw, raw') : d[1] \in nodes
      BY <3>1, <2>d, TriggersNameOwners
    <3> QED
      BY <3>1, <3>2, <2>d DEF DeletedLeavesNothing
  <2>5. ASSUME NEW n \in Nodes, DeleteNode(n) PROVE DeletedLeavesNothing'
    BY <2>5, <2>d DEF DeleteNode, DeletedLeavesNothing
  <2>6. CASE Job
    BY <2>6, <2>d DEF Job, RollupDay, RepairHour, RollupNothing, Within, OfRepair,
                      DeletedLeavesNothing
  <2>7. CASE PruneRollups \/ Interrupt \/ Tick \/ UNCHANGED vars
    BY <2>7, <2>d DEF PruneRollups, Interrupt, Tick, vars, DeletedLeavesNothing
  <2> QED
    BY <2>1, <2>3, <2>4, <2>5, <2>6, <2>7 DEF Next
<1> QED
  BY <1>1, <1>2, PTL DEF Spec
=============================================================================
