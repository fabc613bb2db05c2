-------------------------- MODULE NodeHistoryProofs --------------------------
(***************************************************************************)
(* Proofs about what the store remembers of a node: when it was online,    *)
(* and the measurements of its ping targets.                               *)
(***************************************************************************)
EXTENDS OnlineHistory, PingSeries, FiniteSetTheorems, SequenceTheorems,
        WellFoundedInduction, TLAPS
-----------------------------------------------------------------------------
(***************************************************************************)
(* Proofs about OnlineHistory.  OnlineExact is about the past, what is     *)
(* stored is not: Measured says that it is the measure of everything the   *)
(* contacts stand for, the time ahead included, and Ahead that the time    *)
(* ahead is covered without a gap up to onlineUntil and not beyond, which  *)
(* is why the grace can be taken off again.                                *)
(***************************************************************************)

OnlineTypeOK ==
    /\ moment \in Nat /\ onlineUntil \in Nat /\ since \in Nat
    /\ covered \subseteq Int /\ IsFiniteSet(covered)
    /\ dailyOnline = [d \in AllDays |-> dailyOnline[d]]

Ahead == /\ \A m \in covered : m < onlineUntil
         /\ moment..(onlineUntil - 1) \subseteq covered

Remembered(d) == d \in AllDays /\ d >= moment \div OnlineDay - KeptDays

Measured ==
    \A d \in Int : Remembered(d) => dailyOnline[d] = Cardinality(covered \cap Moments(d))

OnlineInv == OnlineTypeOK /\ Ahead /\ Measured
-----------------------------------------------------------------------------
(* Days are intervals that follow each other, and the present lies in one.  *)
LEMMA DayBounds ==
    ASSUME NEW d \in Int
    PROVE  /\ d * OnlineDay \in Int
           /\ (d + 1) * OnlineDay = d * OnlineDay + OnlineDay
           /\ OnlineDay \in Nat \ {0}
           /\ Moments(d) = (d * OnlineDay)..(d * OnlineDay + OnlineDay - 1)
BY OnlineAssumption DEF Moments

LEMMA PresentDay ==
    ASSUME NEW t \in Nat
    PROVE  /\ t \div OnlineDay \in Int
           /\ (t \div OnlineDay) * OnlineDay <= t
           /\ t + 1 \in Nat /\ t \div OnlineDay <= (t + 1) \div OnlineDay
BY OnlineAssumption

LEMMA DaysBegun ==
    ASSUME NEW t \in Nat, NEW d \in Int, d <= t \div OnlineDay
    PROVE  d * OnlineDay <= t
<1>1. d * OnlineDay <= (t \div OnlineDay) * OnlineDay
  BY PresentDay, OnlineAssumption
<1> QED
  BY <1>1, PresentDay, DayBounds, OnlineAssumption

(* What two intervals have in common.                                       *)
LEMMA Overlap ==
    ASSUME NEW a \in Int, NEW b \in Int, NEW c \in Int, NEW e \in Int
    PROVE  /\ (a..(b - 1)) \cap (c..(e - 1)) = Latest(a, c)..(Earliest(b, e) - 1)
           /\ IsFiniteSet((a..(b - 1)) \cap (c..(e - 1)))
           /\ Cardinality((a..(b - 1)) \cap (c..(e - 1)))
                = Latest(0, Earliest(b, e) - Latest(a, c))
<1> DEFINE lo == Latest(a, c)
           hi == Earliest(b, e)
<1>1. lo \in Int /\ hi \in Int /\ hi - 1 \in Int
  BY DEF Latest, Earliest
<1>2. (a..(b - 1)) \cap (c..(e - 1)) = lo..(hi - 1)
  BY DEF Latest, Earliest
<1> HIDE DEF lo, hi
<1>3. /\ IsFiniteSet(lo..(hi - 1))
      /\ Cardinality(lo..(hi - 1)) = IF lo > hi - 1 THEN 0 ELSE (hi - 1) - lo + 1
  BY <1>1, FS_Interval
<1>4. Cardinality(lo..(hi - 1)) = Latest(0, hi - lo)
  BY <1>1, <1>3 DEF Latest
<1> QED
  BY <1>2, <1>3, <1>4 DEF lo, hi

LEMMA DisjointUnion ==
    ASSUME NEW S, NEW T, IsFiniteSet(S), IsFiniteSet(T), S \cap T = {}
    PROVE  /\ IsFiniteSet(S \cup T)
           /\ Cardinality(S) \in Nat /\ Cardinality(T) \in Nat
           /\ Cardinality(S \cup T) = Cardinality(S) + Cardinality(T)
<1>1. Cardinality(S) \in Nat /\ Cardinality(T) \in Nat
  BY FS_CardinalityType
<1>2. /\ IsFiniteSet(S \cup T)
      /\ Cardinality(S \cup T) = Cardinality(S) + Cardinality(T) - Cardinality(S \cap T)
  BY FS_Union
<1>3. Cardinality(S \cap T) = 0
  BY FS_EmptySet
<1> QED
  BY <1>1, <1>2, <1>3

LEMMA OnlineInitInv == OnlineInit => OnlineInv
<1> SUFFICES ASSUME OnlineInit PROVE OnlineInv
  OBVIOUS
<1>1. OnlineTypeOK
  BY OnlineAssumption, FS_EmptySet DEF OnlineInit, OnlineTypeOK
<1>2. Ahead
  BY <1>1 DEF OnlineInit, Ahead, OnlineTypeOK
<1>3. Measured
  <2>1. \A d : covered \cap Moments(d) = {}
    BY DEF OnlineInit
  <2> QED
    BY <2>1, FS_EmptySet DEF OnlineInit, Measured, Remembered
<1> QED
  BY <1>1, <1>2, <1>3 DEF OnlineInv

LEMMA PassingStep == ASSUME OnlineInv, MomentPasses PROVE OnlineInv'
<1>1. /\ moment \in Nat /\ moment' = moment + 1
      /\ UNCHANGED <<threshold, dailyOnline, onlineUntil, since, covered>>
  BY DEF OnlineInv, OnlineTypeOK, MomentPasses
<1>2. OnlineTypeOK'
  BY <1>1 DEF OnlineInv, OnlineTypeOK
<1>3. Ahead'
  BY <1>1 DEF OnlineInv, OnlineTypeOK, Ahead
<1>4. ASSUME NEW d \in Int, Remembered(d)' PROVE Remembered(d)
  BY <1>1, <1>4, PresentDay, OnlineAssumption DEF Remembered
<1>5. Measured'
  BY <1>1, <1>4 DEF OnlineInv, Measured, Moments
<1> QED
  BY <1>2, <1>3, <1>5 DEF OnlineInv

(* A contact covers what lies ahead from its end of the covered time on,    *)
(* and each day gets its part of just that.                                 *)
LEMMA ContactStep == ASSUME OnlineInv, NEW th \in Thresholds, Contact(th) PROVE OnlineInv'
<1> DEFINE start == NewFrom(onlineUntil)
           end   == moment + th
           Share(d) == Latest(0, Earliest(end, (d + 1) * OnlineDay) - Latest(start, d * OnlineDay))
<1>1. /\ moment \in Nat /\ onlineUntil \in Nat /\ th \in Nat \ {0}
      /\ start \in Nat /\ end \in Nat
      /\ moment <= start /\ onlineUntil <= start
      /\ start = moment \/ start = onlineUntil
  BY OnlineAssumption DEF OnlineInv, OnlineTypeOK, NewFrom, Latest
<1> HIDE DEF start, end
<1>2. UNCHANGED <<moment, since>> /\ covered' = covered \cup moment..(end - 1)
  BY DEF Contact, end
<1>3. covered' = covered \cup start..(end - 1) /\ covered \cap start..(end - 1) = {}
  <2>1. \A m \in moment..(end - 1) : m \in covered \/ m \in start..(end - 1)
    BY <1>1 DEF OnlineInv, Ahead
  <2>2. start..(end - 1) \subseteq moment..(end - 1)
    BY <1>1
  <2>3. \A m \in covered : m \in Int /\ m < start
    BY <1>1 DEF OnlineInv, OnlineTypeOK, Ahead
  <2>4. covered \cap start..(end - 1) = {}
    BY <1>1, <2>3
  <2>5. covered \cup moment..(end - 1) = covered \cup start..(end - 1)
    BY <2>1, <2>2
  <2> QED
    BY <1>2, <2>4, <2>5
<1>4. covered' \subseteq Int /\ IsFiniteSet(covered')
  <2>1. end - 1 \in Int /\ start..(end - 1) \subseteq Int
    BY <1>1
  <2>2. IsFiniteSet(start..(end - 1))
    BY <1>1, <2>1, FS_Interval
  <2>3. covered \subseteq Int /\ IsFiniteSet(covered)
    BY DEF OnlineInv, OnlineTypeOK
  <2>4. IsFiniteSet(covered \cup start..(end - 1))
    BY <2>2, <2>3, FS_Union
  <2> QED
    BY <1>3, <2>1, <2>3, <2>4
<1>5. CASE end <= start
  <2>1. UNCHANGED <<dailyOnline, onlineUntil>>
    BY <1>5 DEF Contact, start, end
  <2>2. covered' = covered
    BY <1>1, <1>3, <1>5
  <2> QED
    BY <1>2, <2>1, <2>2 DEF OnlineInv, OnlineTypeOK, Ahead, Measured, Remembered, Moments
<1>6. CASE start < end
  <2>1. /\ onlineUntil' = end
        /\ dailyOnline' = [d \in AllDays |->
                              IF d < moment \div OnlineDay - KeptDays THEN 0
                              ELSE dailyOnline[d] + Share(d)]
    BY <1>1, <1>6 DEF Contact, start, end
  <2>2. OnlineTypeOK'
    BY <1>1, <1>2, <1>4, <2>1 DEF OnlineInv, OnlineTypeOK
  <2>3. Ahead'
    <3>1. \A m \in covered' : m < end
      <4>1. \A m \in covered : m \in Int /\ m < start
        BY <1>1 DEF OnlineInv, OnlineTypeOK, Ahead
      <4> QED
        BY <1>1, <1>3, <1>6, <4>1
    <3>2. moment..(end - 1) \subseteq covered'
      BY <1>2
    <3> QED
      BY <1>2, <2>1, <3>1, <3>2 DEF Ahead
  <2>4. ASSUME NEW d \in Int, Remembered(d)'
        PROVE  dailyOnline'[d] = Cardinality(covered' \cap Moments(d))
    <3>1. Remembered(d) /\ d \in AllDays /\ ~(d < moment \div OnlineDay - KeptDays)
      BY <1>1, <1>2, <2>4, PresentDay, OnlineAssumption DEF Remembered
    <3>2. dailyOnline'[d] = Cardinality(covered \cap Moments(d)) + Share(d)
      BY <2>1, <3>1 DEF OnlineInv, Measured
    <3> DEFINE old == covered \cap Moments(d)
               new == (start..(end - 1)) \cap Moments(d)
    <3>3. IsFiniteSet(new) /\ Cardinality(new) = Share(d)
      <4>1. Moments(d) = (d * OnlineDay)..((d + 1) * OnlineDay - 1)
        BY DEF Moments
      <4>2. d * OnlineDay \in Int /\ (d + 1) * OnlineDay \in Int
        BY DayBounds
      <4>3. /\ IsFiniteSet(new)
            /\ Cardinality(new) =
                 Latest(0, Earliest(end, (d + 1) * OnlineDay) - Latest(start, d * OnlineDay))
        <5>1. \A x, y \in Int :
                 /\ IsFiniteSet((start..(end - 1)) \cap (x..(y - 1)))
                 /\ Cardinality((start..(end - 1)) \cap (x..(y - 1)))
                      = Latest(0, Earliest(end, y) - Latest(start, x))
          BY <1>1, Overlap
        <5> QED
          BY <4>1, <4>2, <5>1
      <4> QED
        BY <4>3
    <3>4. IsFiniteSet(old) /\ old \cap new = {} /\ covered' \cap Moments(d) = old \cup new
      BY <1>3, FS_Intersection DEF OnlineInv, OnlineTypeOK
    <3> QED
      BY <3>2, <3>3, <3>4, DisjointUnion
  <2>5. Measured'
    BY <2>4 DEF Measured, Moments
  <2> QED
    BY <2>2, <2>3, <2>5 DEF OnlineInv
<1> QED
  BY <1>1, <1>5, <1>6

LEMMA OnlineNextInv == OnlineInv /\ [OnlineNext]_onlineVars => OnlineInv'
<1>1. ASSUME OnlineInv, UNCHANGED onlineVars PROVE OnlineInv'
  BY <1>1 DEF onlineVars, OnlineInv, OnlineTypeOK, Ahead, Measured, Remembered, Moments
<1> QED
  BY <1>1, PassingStep, ContactStep DEF OnlineNext

(* Taking off what lies ahead leaves the covered part of the past.          *)
LEMMA PastOfDay ==
    ASSUME OnlineInv, NEW d \in Int, Remembered(d), d <= moment \div OnlineDay
    PROVE  LET past == {m \in Moments(d) : m < moment}
           IN  /\ IsFiniteSet(past) /\ IsFiniteSet(covered \cap past)
               /\ OnlineTime(d) = Cardinality(covered \cap past)
               /\ Cardinality(past) = Earliest(moment, (d + 1) * OnlineDay) - d * OnlineDay
<1> DEFINE first == d * OnlineDay
           last  == (d + 1) * OnlineDay
           past  == {m \in Moments(d) : m < moment}
           ahead == (moment..(onlineUntil - 1)) \cap Moments(d)
<1>1. /\ moment \in Nat /\ onlineUntil \in Nat /\ covered \subseteq Int /\ IsFiniteSet(covered)
      /\ first \in Int /\ last \in Int /\ first < last /\ first <= moment
      /\ Moments(d) = first..(last - 1)
  BY DayBounds, DaysBegun DEF OnlineInv, OnlineTypeOK
<1> HIDE DEF first, last
<1>2. past = first..(Earliest(moment, last) - 1) /\ Earliest(moment, last) \in Int
      /\ first <= Earliest(moment, last)
  BY <1>1 DEF Earliest
<1> DEFINE present == Earliest(moment, last)
<1>3. IsFiniteSet(past) /\ Cardinality(past) = present - first
  <2>1. present \in Int /\ first <= present /\ past = first..(present - 1)
    BY <1>2
  <2> HIDE DEF present, past
  <2>2. present - 1 \in Int
    BY <2>1
  <2>3. /\ IsFiniteSet(first..(present - 1))
        /\ Cardinality(first..(present - 1)) =
             IF first > present - 1 THEN 0 ELSE (present - 1) - first + 1
    BY <1>1, <2>1, <2>2, FS_Interval
  <2> QED
    BY <1>1, <2>1, <2>3
<1>4. /\ IsFiniteSet(ahead)
      /\ Cardinality(ahead) = Latest(0, Earliest(onlineUntil, last) - Latest(moment, first))
  <2>1. ahead = (moment..(onlineUntil - 1)) \cap (first..(last - 1)) /\ moment \in Int /\ onlineUntil \in Int
    BY <1>1
  <2> HIDE DEF ahead
  <2> QED
    <3>1. \A x, y \in Int :
             /\ IsFiniteSet((moment..(onlineUntil - 1)) \cap (x..(y - 1)))
             /\ Cardinality((moment..(onlineUntil - 1)) \cap (x..(y - 1)))
                  = Latest(0, Earliest(onlineUntil, y) - Latest(moment, x))
      BY <2>1, Overlap
    <3> QED
      BY <1>1, <2>1, <3>1
<1>5. IsFiniteSet(covered \cap past) /\ Cardinality(covered \cap past) <= Cardinality(past)
      /\ Cardinality(covered \cap past) \in Nat
  BY <1>3, FS_Intersection, FS_CardinalityType
<1>6. covered \cap Moments(d) = (covered \cap past) \cup ahead
  <2>1. \A m \in covered : m \in Int /\ m < onlineUntil
    BY <1>1 DEF OnlineInv, Ahead
  <2>2. ahead \subseteq covered
    BY DEF OnlineInv, Ahead
  <2>3. ASSUME NEW m \in covered \cap Moments(d), m \notin past PROVE m \in ahead
    BY <1>1, <2>1, <2>3
  <2> QED
    BY <2>2, <2>3
<1>7. (covered \cap past) \cap ahead = {}
  BY <1>1
<1>8. dailyOnline[d] = Cardinality(covered \cap past) + Cardinality(ahead)
  <2>1. dailyOnline[d] = Cardinality(covered \cap Moments(d))
    BY DEF OnlineInv, Measured
  <2> QED
    BY <1>4, <1>5, <1>6, <1>7, <2>1, DisjointUnion
<1>9. OnlineTime(d) = Latest(0, Earliest(dailyOnline[d] - Cardinality(ahead),
                                         Earliest(moment, last) - first))
  BY <1>4 DEF OnlineTime, first, last
<1>10. Cardinality(ahead) \in Nat
  BY <1>4, FS_CardinalityType
<1>11. OnlineTime(d) = Cardinality(covered \cap past)
  BY <1>1, <1>2, <1>3, <1>5, <1>8, <1>9, <1>10 DEF Latest, Earliest
<1> QED
  BY <1>3, <1>5, <1>11 DEF first, last

LEMMA InvGivesExact == OnlineInv => OnlineExact
<1> SUFFICES ASSUME OnlineInv,
                    NEW d \in (moment \div OnlineDay - KeptDays)..(moment \div OnlineDay) \cap AllDays
             PROVE  LET past == {m \in Moments(d) : m < moment}
                    IN  /\ OnlineTime(d) = Cardinality(covered \cap past)
                        /\ OnlineStatus(d) = "online" => past \subseteq covered
                        /\ OnlineStatus(d) = "offline" => covered \cap past = {}
  BY DEF OnlineExact
<1> DEFINE past == {m \in Moments(d) : m < moment}
<1>1. moment \in Nat /\ moment \div OnlineDay \in Int /\ KeptDays \in Nat
  BY PresentDay, OnlineAssumption DEF OnlineInv, OnlineTypeOK
<1>2. d \in Int /\ d <= moment \div OnlineDay /\ Remembered(d)
  BY <1>1 DEF Remembered
<1>3. /\ IsFiniteSet(past) /\ IsFiniteSet(covered \cap past)
      /\ OnlineTime(d) = Cardinality(covered \cap past)
      /\ Cardinality(past) = Earliest(moment, (d + 1) * OnlineDay) - d * OnlineDay
  BY <1>2, PastOfDay
<1> HIDE DEF past
<1>4. ASSUME OnlineStatus(d) = "online" PROVE past \subseteq covered
  <2>1. OnlineTime(d) >= Earliest(moment, (d + 1) * OnlineDay) - d * OnlineDay
    BY <1>4 DEF OnlineStatus
  <2>2. Cardinality(covered \cap past) >= Cardinality(past)
    BY <1>3, <2>1
  <2>3. covered \cap past = past
    <3>1. Cardinality(covered \cap past) \in Nat /\ Cardinality(past) \in Nat
      BY <1>3, FS_CardinalityType
    <3>2. covered \cap past \in SUBSET past
      OBVIOUS
    <3>3. /\ Cardinality(covered \cap past) <= Cardinality(past)
          /\ Cardinality(past) = Cardinality(covered \cap past) => past = covered \cap past
      BY <1>3, <3>2, FS_Subset
    <3> QED
      BY <2>2, <3>1, <3>3
  <2> QED
    BY <2>3
<1>5. ASSUME OnlineStatus(d) = "offline" PROVE covered \cap past = {}
  <2>1. OnlineTime(d) = 0
    BY <1>5 DEF OnlineStatus
  <2> QED
    BY <1>3, <2>1, FS_EmptySet
<1> QED
  BY <1>3, <1>4, <1>5 DEF past

(* For every kept day the panel shows exactly the covered time of its past, *)
(* whatever the thresholds, the length of a day and the days that are kept. *)
THEOREM OnlineTimeIsExact == OnlineSpec => []OnlineExact
<1>1. OnlineSpec => []OnlineInv
  BY OnlineInitInv, OnlineNextInv, PTL DEF OnlineSpec
<1> QED
  BY <1>1, InvGivesExact, PTL
-----------------------------------------------------------------------------
(***************************************************************************)
(* Proofs about PingSeries.  ReloadExact is about a store at rest; while   *)
(* samples wait and a flush is under way, a series is what the last sample *)
(* waiting of its host will make of the row of ping_observations, or that  *)
(* row if none waits (Mirrors), and all that memory shows is in the rows   *)
(* or waits, with nothing later missing from the preview (Shown).  That a  *)
(* flush keeps both rests on what it copied (Underway) and on the order of *)
(* the queue (Ordered); that rows and preview are one set, on no two       *)
(* samples being of one time (Agreed).                                     *)
(***************************************************************************)

(* Induction over the natural numbers, for sets: the least number outside   *)
(* the set would have a predecessor in it.                                  *)
LEMMA NumbersByInduction ==
    ASSUME NEW S, 0 \in S, \A n \in Nat : n \in S => n + 1 \in S
    PROVE  \A n \in Nat : n \in S
<1> DEFINE T == {n \in Nat : n \notin S}
           Less == {ss \in Nat \X Nat : ss[1] < ss[2]}
<1>1. SUFFICES ASSUME T # {} PROVE FALSE
  BY <1>1
<1>2. IsWellFoundedOn(Less, Nat)
  BY NatLessThanWellFounded DEF OpToRel
<1> HIDE DEF Less
<1>3. T \subseteq Nat
  OBVIOUS
<1>4. \E x \in T : \A y \in T : ~(<<y, x>> \in Less)
  <2> HIDE DEF T
  <2> QED
    BY <1>1, <1>2, <1>3, WFMin
<1>5. PICK x \in T : \A y \in T : ~(<<y, x>> \in Less)
  BY <1>4
<1>6. x \in Nat /\ x # 0 /\ x - 1 \in Nat
  OBVIOUS
<1>7. x - 1 \notin T
  <2>1. <<x - 1, x>> \in Less
    BY <1>6, SMT DEF Less
  <2> QED
    BY <1>5, <2>1
<1>8. x - 1 \in S
  BY <1>6, <1>7
<1> QED
  BY <1>6, <1>8
-----------------------------------------------------------------------------
(* A batch is written by a fold, whose value is that of a recursive         *)
(* function on the sets of its positions.                                   *)
Writes(g, b, q) ==
    g = [s \in SUBSET DOMAIN q |->
            IF s = {} THEN b ELSE Filtered(g[s \ {Max(s)}], q[Max(s)])]

Batch(b, q) == FoldLeft(Filtered, b, q)

LEMMA BatchIs ==
    ASSUME NEW b, NEW q
    PROVE  Batch(b, q) = (CHOOSE g : Writes(g, b, q))[DOMAIN q]
BY Zenon DEF Batch, FoldLeft, MapThenFoldSet, Writes

LEMMA LatestIn ==
    \A n \in Nat : \A s \in SUBSET (1..n) :
        s # {} => Max(s) \in s /\ \A y \in s : Max(s) >= y
<1> DEFINE S == {n \in Nat : \A s \in SUBSET (1..n) :
                                s # {} => \E x \in s : \A y \in s : x >= y}
<1>1. 0 \in S
  <2>1. 1..0 = {}
    OBVIOUS
  <2> QED
    BY <2>1
<1>2. ASSUME NEW n \in Nat, n \in S PROVE n + 1 \in S
  <2> SUFFICES ASSUME NEW s \in SUBSET (1..(n + 1)), s # {}
               PROVE  \E x \in s : \A y \in s : x >= y
    BY <1>2
  <2>1. CASE n + 1 \in s
    BY <2>1
  <2>2. CASE n + 1 \notin s
    <3>1. s \in SUBSET (1..n)
      BY <2>2
    <3> QED
      BY <1>2, <3>1
  <2> QED
    BY <2>1, <2>2
<1>3. \A n \in Nat : n \in S
  <2> HIDE DEF S
  <2> QED
    BY <1>1, <1>2, NumbersByInduction
<1>4. SUFFICES ASSUME NEW n \in Nat, NEW s \in SUBSET (1..n), s # {}
               PROVE  Max(s) \in s /\ \A y \in s : Max(s) >= y
  BY Zenon
<1>5. \E x \in s : \A y \in s : x >= y
  BY <1>3, <1>4
<1> QED
  BY <1>5 DEF Max

(* The recursion has a solution: level by level.                            *)
LEMMA BatchExists ==
    ASSUME NEW q, NEW m \in Nat, DOMAIN q = 1..m, NEW b
    PROVE  \E g : Writes(g, b, q)
<1> DEFINE D == DOMAIN q
           Upto(n) == {s \in SUBSET D : Cardinality(s) <= n}
           Step(g, s) == IF s = {} THEN b ELSE Filtered(g[s \ {Max(s)}], q[Max(s)])
           N == {n \in Nat : \E g : g = [s \in Upto(n) |-> Step(g, s)]}
<1>0. IsFiniteSet(D)
  BY FS_Interval
<1>1. \A T \in SUBSET D : IsFiniteSet(T) /\ Cardinality(T) \in Nat
  BY <1>0, FS_Subset, FS_CardinalityType
<1>2. 0 \in N
  <2> DEFINE g == [s \in Upto(0) |-> b]
  <2>1. \A s \in Upto(0) : s = {}
    BY <1>1, FS_EmptySet
  <2>2. g = [s \in Upto(0) |-> Step(g, s)]
    BY <2>1
  <2> QED
    BY <2>2
<1>3. ASSUME NEW n \in Nat, n \in N PROVE n + 1 \in N
  <2>1. PICK g : g = [s \in Upto(n) |-> Step(g, s)]
    BY <1>3
  <2> DEFINE h == [s \in Upto(n + 1) |-> Step(g, s)]
  <2>2. \A s \in Upto(n + 1) : s # {} => s \ {Max(s)} \in Upto(n)
    <3> SUFFICES ASSUME NEW s \in Upto(n + 1), s # {} PROVE s \ {Max(s)} \in Upto(n)
      OBVIOUS
    <3>1. Max(s) \in s /\ IsFiniteSet(s) /\ Cardinality(s) \in Nat
      BY <1>1, LatestIn
    <3>2. Cardinality(s \ {Max(s)}) = Cardinality(s) - 1
      BY <3>1, FS_RemoveElement
    <3> QED
      BY <3>1, <3>2
  <2>3. \A s \in Upto(n) : h[s] = g[s]
    <3>1. \A s \in Upto(n) : s \in Upto(n + 1)
      BY <1>1
    <3>2. ASSUME NEW s \in Upto(n) PROVE h[s] = g[s]
      <4> HIDE DEF Upto, Step
      <4>1. g[s] = Step(g, s)
        BY <2>1, Zenon
      <4>2. h[s] = Step(g, s)
        BY <3>1
      <4> QED
        BY <4>1, <4>2
    <3> QED
      BY <3>2
  <2>4. \A s \in Upto(n + 1) : Step(g, s) = Step(h, s)
    <3> HIDE DEF Upto, h
    <3> QED
      BY <2>2, <2>3
  <2>5. h = [s \in Upto(n + 1) |-> Step(h, s)]
    <3> HIDE DEF Upto, Step
    <3> QED
      BY <2>4
  <2> HIDE DEF h, Upto, Step
  <2> QED
    BY <2>5
<1>4. \A n \in Nat : n \in N
  <2> HIDE DEF N
  <2> QED
    BY <1>2, <1>3, NumbersByInduction
<1>5. Cardinality(D) \in N
  BY <1>1, <1>4
<1>6. SUBSET D = Upto(Cardinality(D))
  <2>1. \A T \in SUBSET D : Cardinality(T) <= Cardinality(D)
    BY <1>0, FS_Subset
  <2> QED
    BY <2>1
<1>7. PICK g : g = [s \in SUBSET D |-> Step(g, s)]
  BY <1>5, <1>6
<1> QED
  BY <1>7 DEF Writes

(* So a batch is written one sample after the other.                        *)
LEMMA BatchSteps ==
    ASSUME NEW q, NEW m \in Nat, DOMAIN q = 1..m, NEW b
    PROVE  \E f : /\ f[0] = b
                  /\ \A k \in 1..m : f[k] = Filtered(f[k - 1], q[k])
                  /\ Batch(b, q) = f[m]
<1>1. \E g : Writes(g, b, q)
  BY BatchExists
<1> DEFINE g == CHOOSE g : Writes(g, b, q)
<1>2. Writes(g, b, q)
  BY <1>1, Zenon
<1> HIDE DEF g
<1> DEFINE f == [k \in 0..m |-> g[1..k]]
           Step(s) == IF s = {} THEN b ELSE Filtered(g[s \ {Max(s)}], q[Max(s)])
<1>3. g = [s \in SUBSET DOMAIN q |-> Step(s)]
  BY <1>2 DEF Writes
<1>4. ASSUME NEW s \in SUBSET DOMAIN q PROVE g[s] = Step(s)
  <2> HIDE DEF Step
  <2> QED
    BY <1>3, Zenon
<1>5. f[0] = b
  <2>1. 1..0 = {} /\ {} \in SUBSET DOMAIN q
    OBVIOUS
  <2>2. g[{}] = b
    BY <1>4, <2>1
  <2> QED
    BY <2>1, <2>2
<1>6. ASSUME NEW k \in 1..m PROVE f[k] = Filtered(f[k - 1], q[k])
  <2>1. 1..k \in SUBSET DOMAIN q /\ 1..k # {} /\ k \in Nat
    OBVIOUS
  <2>2. Max(1..k) = k
    <3>1. Max(1..k) \in 1..k /\ \A y \in 1..k : Max(1..k) >= y
      BY <2>1, LatestIn
    <3> QED
      BY <3>1
  <2>3. (1..k) \ {k} = 1..(k - 1)
    OBVIOUS
  <2>4. g[1..k] = Filtered(g[(1..k) \ {k}], q[k])
    BY <1>4, <2>1, <2>2
  <2>5. g[(1..k) \ {k}] = g[1..(k - 1)]
    BY <2>3
  <2>6. f[k] = g[1..k] /\ f[k - 1] = g[1..(k - 1)]
    OBVIOUS
  <2> HIDE DEF f
  <2> QED
    BY <2>4, <2>5, <2>6
<1>7. Batch(b, q) = f[m]
  <2>1. Batch(b, q) = g[DOMAIN q]
    BY BatchIs, Zenon DEF g
  <2>2. f[m] = g[1..m]
    OBVIOUS
  <2> QED
    BY <2>1, <2>2
<1> HIDE DEF f
<1> QED
  BY <1>5, <1>6, <1>7
-----------------------------------------------------------------------------
HostsToo   == Hosts \cup {Absent}
MethodsToo == Methods \cup {Unmeasured}
Sample     == [host : Hosts, method : Methods, at : Nat]
Series     == [host : HostsToo, method : MethodsToo, start : Nat, last : Nat]
Window     == [host : HostsToo, method : MethodsToo, at : SUBSET Nat]
Probe      == [host : HostsToo, series : Series, preview : SUBSET Sample, window : Window]
Disk       == [host : HostsToo, series : Series, observation : Series, rows : SUBSET Sample]
Entry      == [sample : Sample, start : Nat]

(* What the row of ping_observations says once a sample is written.         *)
ObservationOf(q) == [host |-> q.sample.host, method |-> q.sample.method,
                     start |-> q.start, last |-> q.sample.at]

(* The first k samples of batch q, written to disk b, leave e.              *)
Chosen(q, k) == {i \in 1..k : q[i].sample.host = tx.probe.host}
Samples(q, I) == {q[i].sample : i \in I}
Distinct(S) == \A x, y \in S : x.at = y.at => x = y

Leaves(b, q, k, e) ==
    /\ e \in Disk /\ e.host = b.host /\ e.series = b.series
    /\ e.rows \subseteq b.rows \cup Samples(q, Chosen(q, k))
    /\ IsFiniteSet(b.rows) => IsFiniteSet(e.rows)
    /\ Distinct(b.rows \cup Samples(q, Chosen(q, k)))
          => e.rows = b.rows \cup Samples(q, Chosen(q, k))
    /\ \/ e.observation = b.observation
       \/ \E i \in Chosen(q, k) : e.observation = ObservationOf(q[i])
    /\ b.observation.last <= e.observation.last
    /\ \A i \in Chosen(q, k) : q[i].sample.at <= e.observation.last
    /\ \A i \in Chosen(q, k) :
          /\ b.observation.last <= q[i].sample.at
          /\ \A j \in Chosen(q, k) : j <= i /\ q[j].sample.at <= q[i].sample.at
          => e.observation = ObservationOf(q[i])

LEMMA WrittenIs ==
    ASSUME NEW e \in Disk, NEW q \in Entry
    PROVE  /\ Written(e, q) \in Disk
           /\ Written(e, q).host = e.host /\ Written(e, q).series = e.series
           /\ Written(e, q).rows = {r \in e.rows : r.at # q.sample.at} \cup {q.sample}
           /\ Written(e, q).observation = IF q.sample.at >= e.observation.last
                                          THEN ObservationOf(q) ELSE e.observation
<1> DEFINE R == {r \in e.rows : r.at # q.sample.at} \cup {q.sample}
           o == Upsert(e.observation, ObservationOf(q))
<1>1. Written(e, q) = [e EXCEPT !.rows = R, !.observation = o]
  BY Zenon DEF Written, ObservationOf
<1>2. q.sample \in Sample /\ q.start \in Nat
  BY DEF Entry
<1>3. R \in SUBSET Sample
  BY <1>2 DEF Disk
<1>4. ObservationOf(q) \in Series /\ ObservationOf(q).last = q.sample.at
  BY <1>2 DEF ObservationOf, Sample, Series, HostsToo, MethodsToo
<1>5. o \in Series /\ o = IF q.sample.at >= e.observation.last THEN ObservationOf(q)
                          ELSE e.observation
  BY <1>4 DEF Upsert, Disk
<1> HIDE DEF R, o
<1>6. Written(e, q) = [host |-> e.host, series |-> e.series, observation |-> o, rows |-> R]
  BY <1>1 DEF Disk
<1>7. e.host \in HostsToo /\ e.series \in Series
  BY DEF Disk
<1>8. Written(e, q) \in Disk
  BY <1>3, <1>5, <1>6, <1>7 DEF Disk
<1> QED
  BY <1>5, <1>6, <1>8 DEF R

LEMMA LeavesFirst ==
    ASSUME NEW b \in Disk, NEW q
    PROVE  Leaves(b, q, 0, b)
<1>1. Chosen(q, 0) = {} /\ Samples(q, {}) = {}
  BY DEF Chosen, Samples
<1>2. b.observation.last \in Nat
  BY DEF Disk, Series
<1> QED
  BY <1>1, <1>2 DEF Leaves

LEMMA LeavesNext ==
    ASSUME NEW b \in Disk, NEW q, NEW m \in Nat, q \in [1..m -> Entry],
           NEW k \in 0..m, k < m, NEW e, Leaves(b, q, k, e)
    PROVE  Leaves(b, q, k + 1, Filtered(e, q[k + 1]))
<1> DEFINE C == Chosen(q, k)
           N == Chosen(q, k + 1)
           x == q[k + 1]
           f == Filtered(e, x)
<1>1. x \in Entry /\ x.sample \in Sample /\ x.sample.at \in Nat /\ e \in Disk
  BY DEF Entry, Sample, Leaves
<1>2. /\ b.observation.last \in Nat /\ e.observation.last \in Nat
      /\ \A i \in N : i \in Nat /\ q[i].sample.at \in Nat
  <2>1. \A i \in 1..m : q[i].sample.at \in Nat
    BY DEF Entry, Sample
  <2> QED
    BY <1>1, <2>1 DEF Disk, Series, Chosen
<1>3. CASE x.sample.host # tx.probe.host
  <2>1. f = e
    BY <1>3 DEF Filtered
  <2>2. N = C
    BY <1>3 DEF Chosen
  <2> HIDE DEF f, N, C, x
  <2> QED
    BY <2>1, <2>2 DEF Leaves, f, N, C, x
<1>4. CASE x.sample.host = tx.probe.host
  <2>1. f = Written(e, x)
    BY <1>4 DEF Filtered
  <2>2. N = C \cup {k + 1} /\ \A i \in C : i <= k
    BY <1>4 DEF Chosen
  <2>3. Samples(q, N) = Samples(q, C) \cup {x.sample}
    BY <2>2 DEF Samples
  <2>4. /\ f \in Disk /\ f.host = e.host /\ f.series = e.series
        /\ f.rows = {r \in e.rows : r.at # x.sample.at} \cup {x.sample}
        /\ f.observation = IF x.sample.at >= e.observation.last
                           THEN ObservationOf(x) ELSE e.observation
    <3> HIDE DEF x, f
    <3>1. /\ Written(e, x) \in Disk
          /\ Written(e, x).host = e.host /\ Written(e, x).series = e.series
          /\ Written(e, x).rows = {r \in e.rows : r.at # x.sample.at} \cup {x.sample}
          /\ Written(e, x).observation = IF x.sample.at >= e.observation.last
                                         THEN ObservationOf(x) ELSE e.observation
      BY <1>1, WrittenIs
    <3> QED
      BY <2>1, <3>1
  <2>5. ObservationOf(x).last = x.sample.at
    BY DEF ObservationOf
  <2> HIDE DEF f, N, C
  <2>6. /\ e.host = b.host /\ e.series = b.series
        /\ e.rows \subseteq b.rows \cup Samples(q, C)
        /\ IsFiniteSet(b.rows) => IsFiniteSet(e.rows)
        /\ Distinct(b.rows \cup Samples(q, C)) => e.rows = b.rows \cup Samples(q, C)
    BY DEF Leaves, C
  <2>7. /\ \/ e.observation = b.observation
           \/ \E i \in C : e.observation = ObservationOf(q[i])
        /\ b.observation.last <= e.observation.last
        /\ \A i \in C : q[i].sample.at <= e.observation.last
    BY DEF Leaves, C
  <2>8. \A i \in C :
          /\ b.observation.last <= q[i].sample.at
          /\ \A j \in C : j <= i /\ q[j].sample.at <= q[i].sample.at
          => e.observation = ObservationOf(q[i])
    BY DEF Leaves, C
  <2>9. f.rows \subseteq b.rows \cup Samples(q, N)
    BY <2>3, <2>4, <2>6
  <2>10. IsFiniteSet(b.rows) => IsFiniteSet(f.rows)
    <3> SUFFICES ASSUME IsFiniteSet(b.rows) PROVE IsFiniteSet(f.rows)
      OBVIOUS
    <3> DEFINE R == {r \in e.rows : r.at # x.sample.at}
    <3>1. IsFiniteSet(R)
      BY <2>6, FS_Subset
    <3>2. f.rows = R \cup {x.sample}
      BY <2>4
    <3> HIDE DEF R
    <3> QED
      BY <3>1, <3>2, FS_AddElement
  <2>11. Distinct(b.rows \cup Samples(q, N)) => f.rows = b.rows \cup Samples(q, N)
    <3> SUFFICES ASSUME Distinct(b.rows \cup Samples(q, N))
                 PROVE  f.rows = b.rows \cup Samples(q, N)
      OBVIOUS
    <3>1. Distinct(b.rows \cup Samples(q, C))
      BY <2>3 DEF Distinct
    <3>2. e.rows = b.rows \cup Samples(q, C)
      BY <2>6, <3>1
    <3>3. \A r \in e.rows : r.at = x.sample.at => r = x.sample
      BY <2>3, <3>2 DEF Distinct
    <3> QED
      BY <2>3, <2>4, <3>2, <3>3
  <2>12. f.observation.last = IF x.sample.at >= e.observation.last
                              THEN x.sample.at ELSE e.observation.last
    BY <2>4, <2>5
  <2>13. \/ f.observation = b.observation
         \/ \E i \in N : f.observation = ObservationOf(q[i])
    BY <2>2, <2>4, <2>7 DEF x
  <2>14. b.observation.last <= f.observation.last
    BY <1>1, <1>2, <2>7, <2>12
  <2>15. ASSUME NEW i \in N PROVE q[i].sample.at <= f.observation.last
    <3>1. q[i].sample.at \in Nat
      BY <1>2
    <3>2. CASE i = k + 1
      BY <1>1, <1>2, <2>12, <3>2 DEF x
    <3>3. CASE i \in C
      <4>1. q[i].sample.at <= e.observation.last
        BY <2>7, <3>3
      <4> QED
        BY <1>1, <1>2, <2>12, <3>1, <4>1
    <3> QED
      BY <2>2, <3>2, <3>3
  <2>16. ASSUME NEW i \in N, b.observation.last <= q[i].sample.at,
                \A j \in N : j <= i /\ q[j].sample.at <= q[i].sample.at
         PROVE  f.observation = ObservationOf(q[i])
    <3>1. k + 1 \in N /\ i \in Nat
      BY <1>2, <2>2
    <3>2. i = k + 1
      BY <2>2, <2>16, <3>1
    <3>3. e.observation.last <= x.sample.at
      <4>1. CASE e.observation = b.observation
        BY <2>16, <3>2, <4>1 DEF x
      <4>2. ASSUME NEW j \in C, e.observation = ObservationOf(q[j])
            PROVE  e.observation.last <= x.sample.at
        <5>1. q[j].sample.at <= q[i].sample.at
          BY <2>2, <2>16
        <5>2. e.observation.last = q[j].sample.at
          BY <4>2 DEF ObservationOf
        <5> QED
          BY <3>2, <5>1, <5>2 DEF x
      <4> QED
        BY <2>7, <4>1, <4>2
    <3>4. x.sample.at >= e.observation.last
      BY <1>1, <1>2, <3>3
    <3> QED
      BY <2>4, <3>2, <3>4 DEF x
  <2>17. f.host = b.host /\ f.series = b.series /\ f \in Disk
    BY <2>4, <2>6
  <2> QED
    BY <2>9, <2>10, <2>11, <2>13, <2>14, <2>15, <2>16, <2>17 DEF Leaves, f, N, x
<1> QED
  BY <1>3, <1>4

LEMMA BatchLeaves ==
    ASSUME NEW b \in Disk, NEW q \in Seq(Entry)
    PROVE  Leaves(b, q, Len(q), Batch(b, q))
<1> DEFINE m == Len(q)
<1>1. m \in Nat /\ DOMAIN q = 1..m /\ q \in [1..m -> Entry]
  BY LenProperties
<1> HIDE DEF m
<1>2. PICK f : /\ f[0] = b
               /\ \A k \in 1..m : f[k] = Filtered(f[k - 1], q[k])
               /\ Batch(b, q) = f[m]
  BY <1>1, BatchSteps
<1> DEFINE S == {k \in Nat : k <= m => Leaves(b, q, k, f[k])}
<1>3. 0 \in S
  BY <1>2, LeavesFirst
<1>4. ASSUME NEW k \in Nat, k \in S PROVE k + 1 \in S
  <2> SUFFICES ASSUME k + 1 <= m PROVE Leaves(b, q, k + 1, f[k + 1])
    OBVIOUS
  <2>1. k \in 0..m /\ k < m /\ k + 1 \in 1..m /\ (k + 1) - 1 = k
    BY <1>1
  <2>2. Leaves(b, q, k, f[k])
    BY <1>4, <2>1
  <2>3. Leaves(b, q, k + 1, Filtered(f[k], q[k + 1]))
    BY <1>1, <2>1, <2>2, LeavesNext
  <2>4. f[k + 1] = Filtered(f[k], q[k + 1])
    BY <1>2, <2>1
  <2> QED
    BY <2>3, <2>4
<1>5. m \in S
  <2> HIDE DEF S
  <2> QED
    BY <1>1, <1>3, <1>4, NumbersByInduction
<1>6. Leaves(b, q, m, f[m])
  BY <1>1, <1>5
<1> QED
  BY <1>2, <1>6 DEF m
-----------------------------------------------------------------------------
(* A preview keeps the latest samples.                                      *)
LEMMA PreviewKeeps ==
    ASSUME NEW S \in SUBSET Sample, IsFiniteSet(S)
    PROVE  /\ LastN(S) \subseteq S /\ IsFiniteSet(LastN(S))
           /\ \A x \in LastN(S) : Cardinality({y \in LastN(S) : y.at > x.at}) < PreviewCap
           /\ \A x \in LastN(S), r \in S : x.at < r.at => r \in LastN(S)
           /\ \A x \in S : (\A y \in S : y.at <= x.at) => x \in LastN(S)
<1> DEFINE L == LastN(S)
           After(T, x) == {y \in T : y.at > x.at}
<1>1. L \subseteq S
  BY DEF LastN
<1>2. IsFiniteSet(L)
  BY <1>1, FS_Subset
<1>3. \A x \in S : x \in L <=> Cardinality(After(S, x)) < PreviewCap
  BY DEF LastN
<1>4. \A x : IsFiniteSet(After(S, x)) /\ Cardinality(After(S, x)) \in Nat
  BY FS_Subset, FS_CardinalityType
<1>5. \A x \in S : x.at \in Nat
  BY DEF Sample
<1>6. PreviewCap \in Nat \ {0}
  BY PingAssumption
<1> HIDE DEF L
<1>7. ASSUME NEW x \in S, NEW T, T \subseteq After(S, x)
      PROVE  IsFiniteSet(T) /\ Cardinality(T) \in Nat /\ Cardinality(T) <= Cardinality(After(S, x))
  <2> HIDE DEF After
  <2> QED
    BY <1>4, <1>7, FS_Subset, FS_CardinalityType
<1>8. ASSUME NEW x \in L PROVE Cardinality(After(L, x)) < PreviewCap
  <2>1. After(L, x) \subseteq After(S, x) /\ x \in S
    BY <1>1
  <2>2. Cardinality(After(L, x)) \in Nat /\ Cardinality(After(L, x)) <= Cardinality(After(S, x))
    BY <1>7, <2>1
  <2>3. Cardinality(After(S, x)) < PreviewCap /\ Cardinality(After(S, x)) \in Nat
    BY <1>3, <1>4, <2>1
  <2> HIDE DEF After
  <2> QED
    BY <1>6, <2>2, <2>3
<1>9. ASSUME NEW x \in L, NEW r \in S, x.at < r.at PROVE r \in L
  <2>1. After(S, r) \subseteq After(S, x) /\ x \in S
    BY <1>1, <1>5, <1>9
  <2>2. Cardinality(After(S, r)) \in Nat /\ Cardinality(After(S, r)) <= Cardinality(After(S, x))
    BY <1>7, <2>1
  <2>3. Cardinality(After(S, x)) < PreviewCap /\ Cardinality(After(S, x)) \in Nat
    BY <1>3, <1>4, <2>1
  <2> HIDE DEF After
  <2> QED
    BY <1>3, <1>6, <2>2, <2>3
<1>10. ASSUME NEW x \in S, \A y \in S : y.at <= x.at PROVE x \in L
  <2>1. After(S, x) = {}
    BY <1>5, <1>10
  <2>2. Cardinality(After(S, x)) = 0
    BY <2>1, FS_EmptySet
  <2> HIDE DEF After
  <2> QED
    BY <1>3, <1>6, <2>2
<1>11. \A x \in L : Cardinality({y \in L : y.at > x.at}) < PreviewCap
  BY <1>8
<1> QED
  BY <1>1, <1>2, <1>9, <1>10, <1>11 DEF L

(* What a restart finds, on a disk whose observation is as late as all its  *)
(* rows: the series of the observation and the rows since it began.         *)
Since(d) == {r \in d.rows : r.method = d.observation.method /\ r.at >= d.observation.start}

LEMMA ReloadedIs ==
    ASSUME NEW d \in Disk, d.host # Absent,
           d.observation.host = d.host, d.observation.start >= 1,
           d.observation.method = Unmeasured => d.observation.last = 0,
           d.series.last <= d.observation.last,
           \A r \in d.rows : r.host = d.host /\ 1 <= r.at /\ r.at <= d.observation.last
    PROVE  Reloaded(d) = [host |-> d.host, series |-> d.observation, preview |-> LastN(Since(d)),
                          window |-> [host |-> d.host, method |-> d.observation.method,
                                      at |-> Times(Since(d))]]
<1> DEFINE h      == d.host
           o      == d.observation
           ofHost == {r \in d.rows : r.host = h}
           found  == IF o.host = h /\ o.start > 0 /\ o.last >= d.series.last THEN o ELSE d.series
           known  == found.host = h /\ found.start > 0
           method == IF known /\ found.method # Unmeasured THEN found.method
                     ELSE IF ofHost = {} THEN Unmeasured ELSE LatestOf(ofHost).method
           ofSeries == {r \in ofHost : r.method = method}
           recent == {r \in ofSeries : \A x \in ofHost : x.method # method => r.at > x.at}
           series == IF known /\ found.method = method THEN found
                     ELSE [host |-> h, method |-> method, last |-> 0,
                           start |-> IF recent = {} THEN minute ELSE Min(Times(recent))]
           complete == IF series.last = 0 /\ ofSeries # {}
                       THEN [series EXCEPT !.last = Max(Times(ofSeries))] ELSE series
           recalled  == {r \in IF method = Unmeasured THEN ofHost ELSE ofSeries :
                          r.at >= complete.start}
           whole  == [host |-> h, series |-> complete, preview |-> LastN(recalled),
                      window |-> [host |-> h, method |-> method, at |-> Times(recalled)]]
<1>1. Reloaded(d) = Pruned(whole, h)
  BY Zenon DEF Reloaded
<1>2. /\ o \in Series /\ o.start \in Nat /\ o.last \in Nat /\ d.series.last \in Nat
      /\ d.rows \subseteq Sample /\ \A r \in d.rows : r.at \in Nat /\ r.method \in Methods
  BY DEF Disk, Series, Sample
<1>3. found = o
  BY <1>2
<1>4. known
  BY <1>2, <1>3
<1>5. ofHost = d.rows
  OBVIOUS
<1>6. o.last = 0 => d.rows = {}
  BY <1>2
<1>7. method = o.method
  <2>1. CASE o.method # Unmeasured
    <3> HIDE DEF found, known
    <3> QED
      BY <1>3, <1>4, <2>1
  <2>2. CASE o.method = Unmeasured
    <3>1. ofHost = {}
      BY <1>5, <1>6, <2>2
    <3> HIDE DEF found, known, ofHost
    <3> QED
      BY <1>3, <2>2, <3>1
  <2> QED
    BY <2>1, <2>2
<1>8. series = o
  <2> HIDE DEF found, known, method, recent, ofHost, ofSeries
  <2> QED
    BY <1>3, <1>4, <1>7
<1>9. complete = o
  <2>1. ofSeries \subseteq d.rows
    BY <1>5
  <2> HIDE DEF series, ofSeries
  <2> QED
    BY <1>6, <1>8, <2>1
<1>10. recalled = Since(d)
  <2>1. CASE o.method = Unmeasured
    <3>1. d.rows = {}
      BY <1>6, <2>1
    <3>2. ofHost = {} /\ ofSeries = {}
      BY <1>5, <3>1
    <3> HIDE DEF ofHost, ofSeries, method, complete
    <3> QED
      BY <3>1, <3>2 DEF Since
  <2>2. CASE o.method # Unmeasured
    <3> HIDE DEF complete, method, ofHost
    <3> QED
      BY <1>5, <1>7, <1>9, <2>2 DEF Since
  <2> QED
    BY <2>1, <2>2
<1> HIDE DEF method, complete, recalled
<1> DEFINE S == Since(d)
           p == [host |-> h, series |-> o, preview |-> LastN(S),
                 window |-> [host |-> h, method |-> o.method, at |-> Times(S)]]
<1>11. whole = p
  BY <1>7, <1>9, <1>10
<1>12. Pruned(p, h) = p
  <2>1. LastN(S) \subseteq S
    BY DEF LastN
  <2>2. \A x \in S : x.host = h /\ x.at >= o.start /\ x.method = o.method
    BY DEF Since
  <2>3. p.series = o /\ p.preview = LastN(S) /\ p.window.host = h /\ p.window.method = o.method
    OBVIOUS
  <2>4. {x \in p.preview : /\ x.host = h /\ x.at >= o.start
                           /\ o.method \in {Unmeasured, x.method}} = p.preview
    <3> HIDE DEF S, p
    <3> QED
      BY <2>1, <2>2, <2>3
  <2> DEFINE fits == {x \in p.preview : /\ x.host = h /\ x.at >= o.start
                                        /\ o.method \in {Unmeasured, x.method}}
  <2> HIDE DEF p, S
  <2>5. Pruned(p, h) = [host |-> h, series |-> o, preview |-> fits, window |-> p.window]
    BY <2>3, Zenon DEF Pruned
  <2> QED
    BY <2>3, <2>4, <2>5 DEF p
<1> QED
  BY <1>1, <1>11, <1>12
-----------------------------------------------------------------------------
(* The invariant, of a memory p, a queue q, a transaction t, a disk d and   *)
(* the newest measurement w, as long as none was overtaken.                 *)
Txs == [kind : {"save", "history", "edit"}, probe : Probe, batch : Seq(Entry)]

PingTyped(p, q, t, d, w) ==
    /\ p \in Probe /\ IsFiniteSet(p.preview)
    /\ q \in Seq(Entry)
    /\ t # NoTx => t \in Txs /\ IsFiniteSet(t.probe.preview)
    /\ d \in Disk /\ IsFiniteSet(d.rows)
    /\ w \in [method : MethodsToo, at : Nat]

(* A series has begun and ended by time n, and what else memory shows of a  *)
(* target is of its series.                                                 *)
Sound(s, n) ==
    /\ s.start >= 1 /\ s.last <= n
    /\ s.method = Unmeasured => s.last = 0
    /\ s.method # Unmeasured => s.start <= n

Consistent(p, n) ==
    /\ p.host = Absent => p = Vacant
    /\ p.host # Absent =>
          /\ p.series.host = p.host /\ Sound(p.series, n)
          /\ p.window.host = p.host /\ p.window.method = p.series.method
          /\ \A z \in p.window.at : p.series.start <= z /\ z <= p.series.last
          /\ \A x \in p.preview : /\ x.host = p.host /\ x.method = p.series.method
                                  /\ p.series.start <= x.at /\ x.at <= p.series.last
          /\ \A x \in p.preview : Cardinality({y \in p.preview : y.at > x.at}) < PreviewCap

(* The disk is about the same host, and its observation is as late as all   *)
(* its rows.                                                                *)
OnDisk(d, h, n) ==
    /\ d.host = h
    /\ d.host = Absent => d.rows = {} /\ d.observation = NoSeries /\ d.series.last = 0
    /\ d.host # Absent =>
          /\ d.observation.host = d.host /\ Sound(d.observation, n)
          /\ d.series.last <= d.observation.last
          /\ \A r \in d.rows : r.host = d.host /\ 1 <= r.at /\ r.at <= d.observation.last

(* The queue is in the order of time and later than the observation.        *)
Ordered(q, o, n) ==
    /\ \A i, j \in DOMAIN q : i <= j => q[i].sample.at <= q[j].sample.at
    /\ \A i \in DOMAIN q : /\ 1 <= q[i].start /\ q[i].start <= n
                           /\ 1 <= q[i].sample.at /\ q[i].sample.at <= n
                           /\ o.last <= q[i].sample.at

(* A series with a sample is what the last sample waiting for its host will *)
(* make of the observation, or what the observation is.                     *)
Mine(q, h) == {i \in DOMAIN q : q[i].sample.host = h}
Mirrors(s, q, h, o) ==
    s.last > 0 =>
        /\ Mine(q, h) = {} => o = s
        /\ \A i \in Mine(q, h) : (\A j \in Mine(q, h) : j <= i) => ObservationOf(q[i]) = s

(* A flush copied the beginning of the queue and the memory of its time.    *)
Underway(t, p, q, o, n) ==
    /\ Consistent(t.probe, n)
    /\ t.kind = "edit" =>
          t.batch = <<>> /\ t.probe.series.last = 0 /\ t.probe.host # p.host
    /\ t.kind # "edit" => /\ t.probe.host = p.host /\ Len(t.batch) <= Len(q)
                          /\ \A i \in 1..Len(t.batch) : t.batch[i] = q[i]
    /\ t.kind = "save" =>
          /\ Mirrors(t.probe.series, t.batch, p.host, o)
          /\ \A i \in DOMAIN q : i > Len(t.batch) => t.probe.series.last <= q[i].sample.at

(* Samples of one time are of one method.                                   *)
Copied(t) == IF t.kind = "save" THEN t.probe.preview ELSE {}
Taken(p, q, t, d) == d.rows \cup Samples(q, DOMAIN q) \cup p.preview \cup Copied(t)
Agreed(T, w) == \A x \in T : /\ \A y \in T : x.at = y.at => x.method = y.method
                             /\ x.at = w.at => x.method = w.method

(* What memory shows is on the way to the disk (K), and the preview has all *)
(* of its series that is later than anything it has.                        *)
Kept(d, q, h) == d.rows \cup Samples(q, Mine(q, h))
Shown(p, K, C) ==
    /\ p.preview \subseteq K
    /\ \A z \in p.window.at : [host |-> p.host, method |-> p.series.method, at |-> z] \in K
    /\ \A r \in K \cup C : \A x \in p.preview :
          r.method = p.series.method /\ p.series.start <= r.at /\ x.at < r.at => r \in p.preview

Sane(p, q, t, d, w) ==
    /\ PingTyped(p, q, t, d, w)
    /\ Consistent(p, w.at)
    /\ OnDisk(d, p.host, w.at)
    /\ Ordered(q, d.observation, w.at)
    /\ t # NoTx => Underway(t, p, q, d.observation, w.at)
    /\ Agreed(Taken(p, q, t, d), w)
    /\ Mirrors(p.series, q, p.host, d.observation)
    /\ Shown(p, Kept(d, q, p.host), Copied(t))

SeriesInv ==
    /\ minute \in Nat /\ minute >= 1
    /\ ~overtaken => Sane(probe, queue, tx, stored, newest)

LEMMA EntryAt ==
    ASSUME NEW q \in Seq(Entry), NEW i \in DOMAIN q
    PROVE  /\ q[i] \in Entry /\ q[i].sample \in Sample /\ q[i].start \in Nat
           /\ q[i].sample.at \in Nat /\ q[i].sample.host \in Hosts /\ q[i].sample.method \in Methods
<1>1. i \in 1..Len(q)
  BY LenProperties
<1>2. q[i] \in Entry
  BY <1>1, ElementOfSeq
<1> QED
  BY <1>2 DEF Entry, Sample

(* All samples there are were taken by the time of the newest.              *)
LEMMA TakenBound ==
    ASSUME NEW p, NEW q, NEW t, NEW d, NEW w, Sane(p, q, t, d, w)
    PROVE  \A x \in Taken(p, q, t, d) : x \in Sample /\ 1 <= x.at /\ x.at <= w.at
<1>1. /\ PingTyped(p, q, t, d, w) /\ Consistent(p, w.at) /\ OnDisk(d, p.host, w.at)
      /\ Ordered(q, d.observation, w.at) /\ (t # NoTx => Consistent(t.probe, w.at))
  BY DEF Sane, Underway
<1>2. w.at \in Nat
  BY <1>1 DEF PingTyped
<1>3. ASSUME NEW x \in d.rows PROVE x \in Sample /\ 1 <= x.at /\ x.at <= w.at
  <2>1. x \in Sample /\ x.at \in Nat
    BY <1>1 DEF PingTyped, Disk, Sample
  <2>2. d.host # Absent
    BY <1>1 DEF OnDisk
  <2>3. 1 <= x.at /\ x.at <= d.observation.last /\ d.observation.last <= w.at
    BY <1>1, <2>2 DEF OnDisk, Sound
  <2>4. d.observation.last \in Nat
    BY <1>1 DEF PingTyped, Disk, Series
  <2> QED
    BY <1>2, <2>1, <2>3, <2>4
<1>4. ASSUME NEW i \in DOMAIN q
      PROVE  q[i].sample \in Sample /\ 1 <= q[i].sample.at /\ q[i].sample.at <= w.at
  BY <1>1, EntryAt DEF PingTyped, Ordered
<1>5. ASSUME NEW m \in Probe, Consistent(m, w.at), NEW x \in m.preview
      PROVE  x \in Sample /\ 1 <= x.at /\ x.at <= w.at
  <2>1. x \in Sample /\ x.at \in Nat
    BY DEF Probe, Sample
  <2>2. m.host # Absent
    BY <1>5 DEF Consistent, Vacant
  <2>3. /\ m.series.start <= x.at /\ x.at <= m.series.last
        /\ m.series.start >= 1 /\ m.series.last <= w.at
    BY <1>5, <2>2 DEF Consistent, Sound
  <2>4. m.series.start \in Nat /\ m.series.last \in Nat
    BY DEF Probe, Series
  <2> QED
    BY <1>2, <2>1, <2>3, <2>4
<1>6. \A x \in p.preview : x \in Sample /\ 1 <= x.at /\ x.at <= w.at
  <2>1. p \in Probe
    BY <1>1 DEF PingTyped
  <2> QED
    BY <1>1, <1>5, <2>1
<1>7. \A x \in Copied(t) : x \in Sample /\ 1 <= x.at /\ x.at <= w.at
  <2>1. CASE t = NoTx
    BY <2>1 DEF Copied, NoTx
  <2>2. CASE t # NoTx
    <3>1. t.probe \in Probe /\ Consistent(t.probe, w.at)
      BY <1>1, <2>2 DEF PingTyped, Txs
    <3>2. Copied(t) \subseteq t.probe.preview
      BY DEF Copied
    <3> QED
      BY <1>5, <3>1, <3>2
  <2> QED
    BY <2>1, <2>2
<1> QED
  BY <1>3, <1>4, <1>6, <1>7 DEF Taken, Samples

(* What was sound stays so.                                                 *)
LEMMA StillSound ==
    ASSUME NEW s \in Series, NEW n \in Nat, NEW k \in Nat, n <= k, Sound(s, n)
    PROVE  Sound(s, k)
BY DEF Sound, Series

LEMMA StillConsistent ==
    ASSUME NEW p \in Probe, NEW n \in Nat, NEW k \in Nat, n <= k, Consistent(p, n)
    PROVE  Consistent(p, k)
<1>1. p.series \in Series
  BY DEF Probe
<1>2. p.host # Absent => Sound(p.series, k)
  BY <1>1, StillSound DEF Consistent
<1> QED
  BY <1>2 DEF Consistent

(* A new host begins with nothing.                                          *)
LEMMA PrunedFresh ==
    ASSUME minute \in Nat, minute >= 1,
           NEW p \in Probe, NEW n \in Nat, Consistent(p, n), NEW h \in HostsToo, h # p.host
    PROVE  /\ Pruned(p, h) \in Probe /\ Pruned(p, h).host = h
           /\ Pruned(p, h).series.last = 0
           /\ Pruned(p, h).preview = {} /\ Pruned(p, h).window.at = {}
           /\ Consistent(Pruned(p, h), n)
<1> DEFINE f == Pruned(p, h)
<1>0. NoSeries \in Series /\ NoSeries.last = 0
  BY DEF NoSeries, Series, HostsToo, MethodsToo
<1>1. CASE h = Absent
  <2>1. f = Vacant
    BY <1>1 DEF Pruned, Vacant
  <2>2. /\ Vacant \in Probe /\ Vacant.host = Absent /\ Vacant.series.last = 0
        /\ Vacant.preview = {} /\ Vacant.window.at = {}
    BY <1>0 DEF Vacant, Probe, Window, Blank, HostsToo, MethodsToo
  <2> HIDE DEF f
  <2>3. Consistent(f, n)
    BY <2>1, <2>2 DEF Consistent
  <2> QED
    BY <1>1, <2>1, <2>2, <2>3 DEF f
<1>2. CASE h # Absent
  <2>1. /\ p.series.host # h /\ p.window.host # h /\ \A x \in p.preview : x.host # h
    <3>1. CASE p.host = Absent
      BY <1>2, <3>1 DEF Consistent, Vacant, NoSeries, Blank
    <3>2. CASE p.host # Absent
      BY <3>2 DEF Consistent
    <3> QED
      BY <3>1, <3>2
  <2> DEFINE s == Begun(h)
             w == Blank(h, Unmeasured)
             g == [host |-> h, series |-> s, preview |-> {}, window |-> w]
  <2>2. s \in Series /\ s.host = h /\ s.method = Unmeasured /\ s.start = minute /\ s.last = 0
    BY DEF Begun, Series, MethodsToo
  <2>3. w \in Window /\ w.host = h /\ w.method = Unmeasured /\ w.at = {}
    BY DEF Blank, Window, MethodsToo
  <2>4. f = g
    <3>1. {x \in p.preview : /\ x.host = h /\ x.at >= s.start
                             /\ s.method \in {Unmeasured, x.method}} = {}
      BY <2>1
    <3> HIDE DEF s
    <3>2. f = [host |-> h, series |-> s,
               preview |-> {x \in p.preview : /\ x.host = h /\ x.at >= s.start
                                              /\ s.method \in {Unmeasured, x.method}},
               window |-> Blank(h, s.method)]
      BY <1>2, <2>1 DEF Pruned, s
    <3> QED
      BY <2>2, <3>1, <3>2
  <2> HIDE DEF s, w
  <2>5. g \in Probe /\ g.host = h /\ g.series = s /\ g.preview = {} /\ g.window = w
    BY <2>2, <2>3 DEF Probe
  <2> HIDE DEF g, f
  <2>6. Consistent(g, n)
    BY <1>2, <2>2, <2>3, <2>5 DEF Consistent, Sound
  <2> QED
    BY <2>2, <2>3, <2>4, <2>5, <2>6 DEF f
<1> QED
  BY <1>1, <1>2
-----------------------------------------------------------------------------
LEMMA SeriesInit == PingInit => SeriesInv
<1> SUFFICES ASSUME PingInit PROVE SeriesInv
  OBVIOUS
<1>1. /\ minute = 1 /\ queue = <<>> /\ tx = NoTx
      /\ newest = [method |-> Unmeasured, at |-> 0]
  BY DEF PingInit
<1>2. PICK h \in Hosts :
         /\ probe = Pruned(Vacant, h)
         /\ stored = [host |-> h, series |-> Begun(h), observation |-> Begun(h), rows |-> {}]
  BY DEF PingInit
<1>3. Vacant \in Probe /\ Vacant.host = Absent /\ Consistent(Vacant, 0)
  BY DEF Vacant, Probe, Window, Blank, NoSeries, Series, HostsToo, MethodsToo, Consistent
<1>4. h \in HostsToo /\ h # Absent
  BY PingAssumption DEF HostsToo
<1>5. /\ probe \in Probe /\ probe.host = h /\ probe.series.last = 0
      /\ probe.preview = {} /\ probe.window.at = {} /\ Consistent(probe, 0)
  BY <1>1, <1>2, <1>3, <1>4, PrunedFresh
<1> DEFINE s == Begun(h)
<1>6. s \in Series /\ s.host = h /\ s.method = Unmeasured /\ s.start = 1 /\ s.last = 0
  BY <1>1, <1>4 DEF Begun, Series, MethodsToo
<1> HIDE DEF s
<1>7. /\ stored \in Disk /\ stored.host = h /\ stored.series = s /\ stored.observation = s
      /\ stored.rows = {}
  BY <1>2, <1>4, <1>6 DEF Disk, s
<1>8. queue \in Seq(Entry) /\ DOMAIN queue = {}
  BY <1>1
<1>9. newest \in [method : MethodsToo, at : Nat] /\ newest.at = 0
  BY <1>1 DEF MethodsToo
<1>10. PingTyped(probe, queue, tx, stored, newest)
  BY <1>1, <1>5, <1>7, <1>8, <1>9, FS_EmptySet DEF PingTyped
<1>11. OnDisk(stored, probe.host, 0)
  BY <1>4, <1>5, <1>6, <1>7 DEF OnDisk, Sound
<1>12. Ordered(queue, stored.observation, 0)
  BY <1>8 DEF Ordered
<1>13. Taken(probe, queue, tx, stored) = {} /\ Copied(tx) = {}
  BY <1>1, <1>5, <1>7, <1>8 DEF Taken, Samples, Copied, NoTx
<1>14. Agreed(Taken(probe, queue, tx, stored), newest)
  BY <1>13 DEF Agreed
<1>15. Mirrors(probe.series, queue, probe.host, stored.observation)
  BY <1>5 DEF Mirrors
<1>16. Shown(probe, Kept(stored, queue, probe.host), Copied(tx))
  BY <1>5 DEF Shown
<1>17. Sane(probe, queue, tx, stored, newest)
  BY <1>1, <1>5, <1>9, <1>10, <1>11, <1>12, <1>14, <1>15, <1>16 DEF Sane
<1> QED
  BY <1>1, <1>17 DEF SeriesInv
-----------------------------------------------------------------------------
(* Copies of the memory and of the queue.                                   *)
LEMMA FlushBegins ==
    ASSUME Sane(probe, queue, tx, stored, newest), NEW kind \in {"save", "history"},
           BeginFlush(kind)
    PROVE  Sane(probe, queue, tx', stored, newest)
<1> DEFINE t == [kind |-> kind, probe |-> probe, batch |-> queue]
<1>1. tx = NoTx /\ tx' = t
  BY DEF BeginFlush
<1>2. PingTyped(probe, queue, tx, stored, newest) /\ Consistent(probe, newest.at)
      /\ Mirrors(probe.series, queue, probe.host, stored.observation)
  BY DEF Sane
<1>3. t \in Txs /\ t.kind = kind /\ t.probe = probe /\ t.batch = queue
  BY <1>2 DEF PingTyped, Txs
<1> HIDE DEF t
<1>4. PingTyped(probe, queue, t, stored, newest)
  BY <1>2, <1>3 DEF PingTyped
<1>5. Underway(t, probe, queue, stored.observation, newest.at)
  <2>1. kind # "edit"
    OBVIOUS
  <2>2. Len(queue) \in Nat /\ DOMAIN queue = 1..Len(queue)
    BY <1>2, LenProperties DEF PingTyped
  <2>3. \A i \in DOMAIN queue : ~(i > Len(queue))
    BY <2>2
  <2> QED
    BY <1>2, <1>3, <2>1, <2>2, <2>3 DEF Underway
<1>6. Copied(tx) = {} /\ Copied(t) \subseteq probe.preview
  BY <1>1, <1>3 DEF Copied, NoTx
<1>7. Taken(probe, queue, t, stored) = Taken(probe, queue, tx, stored)
  BY <1>6 DEF Taken
<1>8. Shown(probe, Kept(stored, queue, probe.host), Copied(t))
  <2>1. Shown(probe, Kept(stored, queue, probe.host), Copied(tx))
    BY DEF Sane
  <2> QED
    BY <1>6, <2>1 DEF Shown
<1> QED
  BY <1>1, <1>4, <1>5, <1>7, <1>8 DEF Sane

LEMMA EditBegins ==
    ASSUME minute \in Nat, minute >= 1, Sane(probe, queue, tx, stored, newest),
           NEW h \in HostsToo, BeginTargetEdit(h)
    PROVE  Sane(probe, queue, tx', stored, newest)
<1> DEFINE f == Pruned(probe, h)
           t == [kind |-> "edit", probe |-> f, batch |-> <<>>]
<1>1. tx = NoTx /\ tx' = t /\ h # probe.host
  BY DEF BeginTargetEdit
<1>2. PingTyped(probe, queue, tx, stored, newest) /\ Consistent(probe, newest.at)
  BY DEF Sane
<1>3. probe \in Probe /\ newest.at \in Nat
  BY <1>2 DEF PingTyped
<1>4. /\ f \in Probe /\ f.host = h /\ f.series.last = 0 /\ f.preview = {}
      /\ Consistent(f, newest.at)
  BY <1>1, <1>2, <1>3, PrunedFresh
<1> HIDE DEF f
<1>5. t \in Txs /\ t.kind = "edit" /\ t.probe = f /\ t.batch = <<>>
  BY <1>4 DEF Txs
<1> HIDE DEF t
<1>6. PingTyped(probe, queue, t, stored, newest)
  BY <1>2, <1>4, <1>5, FS_EmptySet DEF PingTyped
<1>7. Underway(t, probe, queue, stored.observation, newest.at)
  BY <1>1, <1>4, <1>5 DEF Underway
<1>8. Copied(tx) = {} /\ Copied(t) = {}
  BY <1>1, <1>5 DEF Copied, NoTx
<1>9. Taken(probe, queue, t, stored) = Taken(probe, queue, tx, stored)
  BY <1>8 DEF Taken
<1> QED
  BY <1>1, <1>6, <1>7, <1>8, <1>9 DEF Sane

LEMMA NothingUnderway ==
    ASSUME NEW p, NEW q, NEW t, NEW d, NEW w, Sane(p, q, t, d, w)
    PROVE  Sane(p, q, NoTx, d, w)
<1>1. Copied(NoTx) = {}
  BY DEF Copied, NoTx
<1>2. PingTyped(p, q, NoTx, d, w)
  BY DEF Sane, PingTyped
<1>3. Taken(p, q, NoTx, d) \subseteq Taken(p, q, t, d)
  BY <1>1 DEF Taken
<1>4. Agreed(Taken(p, q, NoTx, d), w)
  BY <1>3 DEF Sane, Agreed
<1>5. Shown(p, Kept(d, q, p.host), Copied(NoTx))
  BY <1>1 DEF Sane, Shown
<1> QED
  BY <1>2, <1>4, <1>5 DEF Sane
-----------------------------------------------------------------------------
(* A result of the series goes on with it; one of another method, or the    *)
(* first one, begins a series.                                              *)
LEMMA ObservedIs ==
    ASSUME NEW p \in Probe, NEW n \in Nat, Consistent(p, n), p.host # Absent,
           NEW m \in Methods, NEW at \in Nat
    PROVE  \/ Observed(p, m, at) = p /\ p.series.method = m
           \/ Observed(p, m, at) =
                 [host |-> p.host,
                  series |-> [host |-> p.host, method |-> m, start |-> at, last |-> 0],
                  preview |-> {}, window |-> Blank(p.host, m)]
<1> DEFINE s == [host |-> p.host, method |-> m, start |-> at, last |-> 0]
           w == Blank(p.host, m)
           o == Observed(p, m, at)
           g == [host |-> p.host, series |-> s, preview |-> {}, window |-> w]
<1>1. m # Unmeasured
  BY PingAssumption
<1>2. /\ p.series \in Series /\ p.window \in Window
      /\ p = [host |-> p.host, series |-> p.series, preview |-> p.preview, window |-> p.window]
  BY DEF Probe
<1>3. CASE p.series.method \notin {Unmeasured, m}
  <2>1. o = [p EXCEPT !.series = s, !.preview = {}, !.window = w]
    BY <1>3 DEF Observed
  <2> HIDE DEF s, w, o
  <2>2. o = [host |-> p.host, series |-> s, preview |-> {}, window |-> w]
    BY <1>2, <2>1
  <2> QED
    BY <2>2 DEF o, s, w
<1>4. CASE p.series.method = m
  BY <1>1, <1>4 DEF Observed
<1>5. CASE p.series.method = Unmeasured
  <2>1. p.series.last = 0 /\ p.series.host = p.host /\ p.series.start >= 1
    BY <1>5 DEF Consistent, Sound
  <2>2. p.preview = {}
    <3>1. \A x \in p.preview : x.at \in Nat /\ p.series.start <= x.at /\ x.at <= p.series.last
      BY DEF Consistent, Probe, Sample
    <3>2. p.series.start \in Nat
      BY <1>2 DEF Series
    <3> QED
      BY <2>1, <3>1, <3>2
  <2>3. p.window.at = {} /\ p.window.host = p.host
    <3>1. /\ p.window.host = p.host
          /\ \A z \in p.window.at : z \in Nat /\ p.series.start <= z /\ z <= p.series.last
      BY <1>2 DEF Consistent, Window
    <3>2. p.series.start \in Nat
      BY <1>2 DEF Series
    <3> QED
      BY <2>1, <3>1, <3>2
  <2>4. o = [[[p EXCEPT !.series.method = m] EXCEPT !.series.start = at] EXCEPT !.window.method = m]
    BY <1>1, <1>5 DEF Observed
  <2>5. o = [host |-> p.host, series |-> [[p.series EXCEPT !.method = m] EXCEPT !.start = at],
             preview |-> p.preview, window |-> [p.window EXCEPT !.method = m]]
    BY <1>2, <2>4
  <2>6. [[p.series EXCEPT !.method = m] EXCEPT !.start = at] = s
    <3> DEFINE r == p.series
    <3>1. r \in Series /\ r.host = p.host /\ r.last = 0
      BY <1>2, <2>1
    <3> HIDE DEF r
    <3> DEFINE a == [r EXCEPT !.method = m]
    <3>2. a = [host |-> p.host, method |-> m, start |-> r.start, last |-> 0]
      BY <3>1 DEF Series
    <3> HIDE DEF a
    <3>3. [a EXCEPT !.start = at] = s
      BY <3>2
    <3> QED
      BY <3>3 DEF a, r
  <2>7. [p.window EXCEPT !.method = m] = w
    BY <1>2, <2>3 DEF Window, Blank
  <2> HIDE DEF s, w, o
  <2>8. o = [host |-> p.host, series |-> s, preview |-> {}, window |-> w]
    BY <2>2, <2>5, <2>6, <2>7
  <2> QED
    BY <2>8 DEF o, s, w
<1> QED
  BY <1>3, <1>4, <1>5

LEMMA ResultSeen ==
    ASSUME NEW p, NEW q, NEW t, NEW d, NEW w, Sane(p, q, t, d, w), p.host # Absent,
           NEW m \in Methods, NEW at \in Nat, at >= 1, at >= w.at, at = w.at => w.method = m
    PROVE  LET o == Observed(p, m, at)
           IN  /\ Sane(o, q, t, d, [method |-> m, at |-> at])
               /\ o.host = p.host /\ o.series.method = m /\ o.series.last <= at
<1> DEFINE o == Observed(p, m, at)
           v == [method |-> m, at |-> at]
           s == [host |-> p.host, method |-> m, start |-> at, last |-> 0]
           g == [host |-> p.host, series |-> s, preview |-> {}, window |-> Blank(p.host, m)]
<1>1. /\ PingTyped(p, q, t, d, w) /\ Consistent(p, w.at) /\ OnDisk(d, p.host, w.at)
      /\ Ordered(q, d.observation, w.at)
      /\ (t # NoTx => Underway(t, p, q, d.observation, w.at))
      /\ Agreed(Taken(p, q, t, d), w)
      /\ Mirrors(p.series, q, p.host, d.observation)
      /\ Shown(p, Kept(d, q, p.host), Copied(t))
  BY DEF Sane
<1>2. /\ p \in Probe /\ w.at \in Nat /\ p.host \in HostsToo /\ p.series \in Series
      /\ d \in Disk /\ q \in Seq(Entry) /\ IsFiniteSet(p.preview)
  BY <1>1 DEF PingTyped, Probe
<1>3. (o = p /\ p.series.method = m) \/ o = g
  BY <1>1, <1>2, ObservedIs
<1>4. s \in Series /\ s.host = p.host /\ s.method = m /\ s.start = at /\ s.last = 0
  BY <1>2 DEF Series, MethodsToo
<1>5. Blank(p.host, m) \in Window /\ Blank(p.host, m).host = p.host
      /\ Blank(p.host, m).method = m /\ Blank(p.host, m).at = {}
  BY <1>2 DEF Blank, Window, MethodsToo
<1>6. m # Unmeasured
  BY PingAssumption
<1> HIDE DEF s, o
<1>7. g \in Probe /\ IsFiniteSet(g.preview) /\ Consistent(g, at)
  <2>1. g \in Probe
    BY <1>2, <1>4, <1>5 DEF Probe
  <2>2. g.preview = {} /\ g.host = p.host /\ g.series = s /\ g.window = Blank(p.host, m)
    OBVIOUS
  <2> HIDE DEF g
  <2>3. Sound(s, at)
    BY <1>4, <1>6 DEF Sound
  <2>4. Consistent(g, at)
    BY <1>4, <1>5, <2>2, <2>3 DEF Consistent
  <2> QED
    BY <2>1, <2>2, <2>4, FS_EmptySet
<1>8. g.host = p.host /\ g.series = s /\ g.preview = {} /\ g.window.at = {}
  BY <1>5
<1> HIDE DEF g
<1>9. Consistent(p, at)
  BY <1>1, <1>2, StillConsistent
<1>10. o \in Probe /\ IsFiniteSet(o.preview) /\ Consistent(o, at) /\ o.host = p.host
       /\ o.series.method = m /\ o.preview \subseteq p.preview
  BY <1>2, <1>3, <1>4, <1>7, <1>8, <1>9
<1>11. o.series.last <= at
  BY <1>10, Zenon DEF Consistent, Sound
<1>12. v \in [method : MethodsToo, at : Nat] /\ v.at = at /\ v.method = m
  BY DEF MethodsToo
<1> HIDE DEF v
<1>13. PingTyped(o, q, t, d, v)
  BY <1>1, <1>10, <1>12 DEF PingTyped
<1>14. OnDisk(d, o.host, at)
  <2>1. d.observation \in Series
    BY <1>2 DEF Disk
  <2>2. d.host # Absent => Sound(d.observation, at)
    BY <1>1, <1>2, <2>1, StillSound DEF OnDisk
  <2> QED
    BY <1>1, <1>10, <2>2 DEF OnDisk
<1>15. Ordered(q, d.observation, at)
  <2>1. ASSUME NEW i \in DOMAIN q
        PROVE  q[i].start <= at /\ q[i].sample.at <= at
    <3>1. q[i].start \in Nat /\ q[i].sample.at \in Nat
      BY <1>2, EntryAt
    <3>2. q[i].start <= w.at /\ q[i].sample.at <= w.at
      BY <1>1 DEF Ordered
    <3> QED
      BY <1>2, <3>1, <3>2
  <2> QED
    BY <1>1, <2>1 DEF Ordered
<1>16. ASSUME t # NoTx PROVE Underway(t, o, q, d.observation, at)
  <2>1. t.probe \in Probe
    BY <1>1, <1>16 DEF PingTyped, Txs
  <2>2. Consistent(t.probe, at)
    BY <1>1, <1>2, <1>16, <2>1, StillConsistent DEF Underway
  <2> QED
    BY <1>1, <1>10, <1>16, <2>2 DEF Underway
<1>17. Agreed(Taken(o, q, t, d), v)
  <2>1. Taken(o, q, t, d) \subseteq Taken(p, q, t, d)
    BY <1>10 DEF Taken
  <2>2. ASSUME NEW x \in Taken(p, q, t, d), x.at = at PROVE x.method = m
    <3>1. x.at <= w.at /\ x.at \in Nat
      BY TakenBound DEF Sample
    <3>2. w.at = at
      BY <1>2, <2>2, <3>1
    <3> QED
      BY <1>1, <2>2, <3>2 DEF Agreed
  <2> QED
    BY <1>1, <1>12, <2>1, <2>2 DEF Agreed
<1>18. Mirrors(o.series, q, o.host, d.observation)
  BY <1>1, <1>3, <1>4, <1>8, <1>10 DEF Mirrors
<1>19. Shown(o, Kept(d, q, o.host), Copied(t))
  <2>1. CASE o = p
    BY <1>1, <2>1
  <2>2. CASE o = g
    BY <1>8, <2>2 DEF Shown
  <2> QED
    BY <1>3, <2>1, <2>2
<1>20. Sane(o, q, t, d, v)
  BY <1>10, <1>12, <1>13, <1>14, <1>15, <1>16, <1>17, <1>18, <1>19 DEF Sane
<1> QED
  BY <1>10, <1>11, <1>20 DEF o, v

(* A sample that is kept: the last of its series, and of the queue.         *)
LEMMA ResultKept ==
    ASSUME NEW p, NEW q, NEW t, NEW d, NEW w, Sane(p, q, t, d, w), p.host # Absent,
           w.method \in Methods, p.series.method = w.method, p.series.last <= w.at, w.at >= 1,
           NEW x, x = [host |-> p.host, method |-> w.method, at |-> w.at],
           NEW z, z \in {p.window.at, p.window.at \cup {w.at}},
           NEW s, s = [p.series EXCEPT !.last = w.at],
           NEW v, v = [p.window EXCEPT !.at = z],
           NEW c, c = [host |-> p.host, series |-> s, preview |-> LastN(p.preview \cup {x}),
                       window |-> v]
    PROVE  Sane(c, Append(q, [sample |-> x, start |-> p.series.start]), t, d, w)
<1> DEFINE e == [sample |-> x, start |-> p.series.start]
           r == Append(q, e)
           S == p.preview \cup {x}
           k == Len(q) + 1
           at == w.at
<1>1. /\ PingTyped(p, q, t, d, w) /\ Consistent(p, at) /\ OnDisk(d, p.host, at)
      /\ Ordered(q, d.observation, at)
      /\ (t # NoTx => Underway(t, p, q, d.observation, at))
      /\ Agreed(Taken(p, q, t, d), w)
      /\ Mirrors(p.series, q, p.host, d.observation)
      /\ Shown(p, Kept(d, q, p.host), Copied(t))
  BY DEF Sane
<1>2. /\ p \in Probe /\ at \in Nat /\ d \in Disk /\ q \in Seq(Entry) /\ IsFiniteSet(p.preview)
      /\ p.series \in Series /\ p.window \in Window /\ p.host \in HostsToo
      /\ p.preview \in SUBSET Sample
  BY <1>1 DEF PingTyped, Probe
<1>3. /\ p.series.start \in Nat /\ p.series.last \in Nat /\ p.window.at \in SUBSET Nat
      /\ p.window.host \in HostsToo /\ p.window.method \in MethodsToo
      /\ p.series.host \in HostsToo /\ p.series.method \in MethodsToo
  BY <1>2 DEF Series, Window
<1>4. x \in Sample /\ x.host = p.host /\ x.method = w.method /\ x.at = at
  BY <1>2 DEF Sample, HostsToo
<1>5. /\ p.series.host = p.host /\ Sound(p.series, at)
      /\ p.window.host = p.host /\ p.window.method = w.method
      /\ \A y \in p.window.at : p.series.start <= y /\ y <= p.series.last
      /\ \A y \in p.preview : /\ y.host = p.host /\ y.method = w.method
                              /\ p.series.start <= y.at /\ y.at <= p.series.last
  BY <1>1 DEF Consistent
<1>6. w.method # Unmeasured
  BY PingAssumption
<1>7. p.series.start >= 1 /\ p.series.start <= at
  BY <1>5, <1>6 DEF Sound
<1>8. /\ s \in Series /\ s.host = p.host /\ s.method = w.method /\ s.start = p.series.start
      /\ s.last = at
  BY <1>2, <1>3, <1>5 DEF Series
<1>9. /\ v \in Window /\ v.host = p.host /\ v.method = w.method /\ v.at = z /\ z \in SUBSET Nat
  <2>1. z \in SUBSET Nat
    BY <1>2, <1>3
  <2> QED
    BY <1>2, <1>3, <1>5, <2>1 DEF Window
<1>10. S \in SUBSET Sample /\ IsFiniteSet(S)
  <2>1. S \in SUBSET Sample
    BY <1>2, <1>4
  <2>2. IsFiniteSet(S)
    <3> DEFINE T == p.preview
    <3>1. IsFiniteSet(T)
      BY <1>2
    <3> HIDE DEF T
    <3>2. IsFiniteSet(T \cup {x})
      BY <3>1, FS_AddElement
    <3> QED
      BY <3>2 DEF T
  <2> QED
    BY <2>1, <2>2
<1> DEFINE L == LastN(S)
<1>11. /\ L \subseteq S /\ IsFiniteSet(L)
       /\ \A y \in L : Cardinality({u \in L : u.at > y.at}) < PreviewCap
       /\ \A y \in L, u \in S : y.at < u.at => u \in L
       /\ \A y \in S : (\A u \in S : u.at <= y.at) => y \in L
  BY <1>10, PreviewKeeps
<1>12. c = [host |-> p.host, series |-> s, preview |-> L, window |-> v]
  OBVIOUS
<1> HIDE DEF L, S
<1>13. c \in Probe /\ c.host = p.host /\ c.series = s /\ c.preview = L /\ c.window = v
  <2>1. s \in Series /\ v \in Window /\ L \in SUBSET Sample /\ p.host \in HostsToo
    BY <1>2, <1>8, <1>9, <1>10, <1>11
  <2>2. c \in Probe
    BY <1>12, <2>1 DEF Probe
  <2> QED
    BY <1>12, <2>2
<1>14. \A y \in S : y.at \in Nat /\ y.at <= at
  BY <1>2, <1>3, <1>4, <1>5 DEF S, Sample
<1>15. x \in L
  BY <1>4, <1>11, <1>14 DEF S
<1>16. Consistent(c, at)
  <2>1. Sound(s, at)
    BY <1>2, <1>6, <1>7, <1>8 DEF Sound
  <2>2. \A y \in z : p.series.start <= y /\ y <= at
    BY <1>2, <1>3, <1>5, <1>7
  <2>3. \A y \in L : /\ y.host = p.host /\ y.method = w.method
                     /\ p.series.start <= y.at /\ y.at <= at
    BY <1>4, <1>5, <1>7, <1>11, <1>14 DEF S
  <2> QED
    BY <1>8, <1>9, <1>11, <1>13, <2>1, <2>2, <2>3 DEF Consistent
<1>17. e \in Entry /\ e.sample = x /\ e.start = p.series.start
  BY <1>3, <1>4 DEF Entry
<1> HIDE DEF e
<1>18. Len(q) \in Nat /\ DOMAIN q = 1..Len(q)
  BY <1>2, LenProperties
<1>19. /\ r \in Seq(Entry) /\ Len(r) = k /\ DOMAIN r = 1..k /\ r[k] = e
       /\ \A i \in DOMAIN q : i \in DOMAIN r /\ r[i] = q[i] /\ i < k
  BY <1>2, <1>17, <1>18
<1>20. \A i \in DOMAIN r : i \in DOMAIN q \/ i = k
  BY <1>18, <1>19
<1> HIDE DEF r
<1>21. \A i \in DOMAIN q : /\ q[i].sample.at \in Nat /\ q[i].start \in Nat
  BY <1>2, EntryAt
<1>22. PingTyped(c, r, t, d, w)
  BY <1>1, <1>11, <1>13, <1>19 DEF PingTyped
<1>23. OnDisk(d, c.host, at)
  BY <1>1, <1>13
<1>24. d.observation.last \in Nat /\ d.observation.last <= at
  <2>1. d.observation \in Series
    BY <1>2 DEF Disk
  <2>2. d.observation.last <= at
    BY <1>1, <2>1 DEF OnDisk, Sound, NoSeries
  <2> QED
    BY <2>1, <2>2 DEF Series
<1>25. Ordered(r, d.observation, at)
  <2>1. ASSUME NEW i \in DOMAIN r, NEW j \in DOMAIN r, i <= j
        PROVE  r[i].sample.at <= r[j].sample.at
    <3>1. CASE j = k
      <4>1. r[i].sample.at \in Nat /\ r[i].sample.at <= at
        BY <1>1, <1>2, <1>4, <1>17, <1>19, <1>20, <1>21 DEF Ordered
      <4> QED
        BY <1>4, <1>17, <1>19, <3>1, <4>1
    <3>2. CASE j # k
      <4>1. j \in DOMAIN q /\ i \in DOMAIN q
        BY <1>18, <1>19, <1>20, <2>1, <3>2
      <4> QED
        BY <1>1, <1>19, <2>1, <4>1 DEF Ordered
    <3> QED
      BY <3>1, <3>2
  <2>2. ASSUME NEW i \in DOMAIN r
        PROVE  /\ 1 <= r[i].start /\ r[i].start <= at
               /\ 1 <= r[i].sample.at /\ r[i].sample.at <= at
               /\ d.observation.last <= r[i].sample.at
    <3>1. CASE i = k
      BY <1>2, <1>4, <1>7, <1>17, <1>19, <1>24, <3>1
    <3>2. CASE i \in DOMAIN q
      BY <1>1, <1>19, <3>2 DEF Ordered
    <3> QED
      BY <1>20, <3>1, <3>2
  <2> QED
    BY <2>1, <2>2 DEF Ordered
<1>26. ASSUME t # NoTx PROVE Underway(t, c, r, d.observation, at)
  <2>1. t \in Txs
    BY <1>1, <1>26 DEF PingTyped
  <2>2. t.probe \in Probe /\ t.batch \in Seq(Entry)
    BY <2>1 DEF Txs
  <2>3. Len(t.batch) \in Nat
    BY <2>2, LenProperties
  <2>4. Consistent(t.probe, at)
    BY <1>1, <1>26 DEF Underway
  <2>5. t.kind = "edit" => t.batch = <<>> /\ t.probe.series.last = 0 /\ t.probe.host # c.host
    BY <1>1, <1>13, <1>26 DEF Underway
  <2>6. ASSUME t.kind # "edit"
        PROVE  /\ t.probe.host = c.host /\ Len(t.batch) <= Len(r)
               /\ \A i \in 1..Len(t.batch) : t.batch[i] = r[i]
    <3>1. /\ t.probe.host = p.host /\ Len(t.batch) <= Len(q)
          /\ \A i \in 1..Len(t.batch) : t.batch[i] = q[i]
      BY <1>1, <1>26, <2>6 DEF Underway
    <3>2. \A i \in 1..Len(t.batch) : i \in DOMAIN q
      BY <1>18, <2>3, <3>1
    <3> QED
      BY <1>13, <1>18, <1>19, <2>3, <3>1, <3>2
  <2>7. ASSUME t.kind = "save"
        PROVE  /\ Mirrors(t.probe.series, t.batch, c.host, d.observation)
               /\ \A i \in DOMAIN r :
                     i > Len(t.batch) => t.probe.series.last <= r[i].sample.at
    <3>1. /\ Mirrors(t.probe.series, t.batch, p.host, d.observation)
          /\ \A i \in DOMAIN q :
                i > Len(t.batch) => t.probe.series.last <= q[i].sample.at
      BY <1>1, <1>26, <2>7 DEF Underway
    <3>2. t.probe.series.last <= at
      <4>1. CASE t.probe.host = Absent
        BY <1>2, <2>4, <4>1 DEF Consistent, Vacant, NoSeries
      <4>2. CASE t.probe.host # Absent
        BY <2>4, <4>2 DEF Consistent, Sound
      <4> QED
        BY <4>1, <4>2
    <3> QED
      BY <1>4, <1>13, <1>17, <1>19, <1>20, <3>1, <3>2
  <2> QED
    BY <2>4, <2>5, <2>6, <2>7 DEF Underway
<1>27. Samples(r, DOMAIN r) = Samples(q, DOMAIN q) \cup {x}
  <2>1. k \in DOMAIN r
    BY <1>18, <1>19
  <2> QED
    BY <1>17, <1>19, <1>20, <2>1 DEF Samples
<1>28. Agreed(Taken(c, r, t, d), w)
  <2>1. Taken(c, r, t, d) \subseteq Taken(p, q, t, d) \cup {x}
    BY <1>11, <1>13, <1>27 DEF Taken, S
  <2> QED
    BY <1>1, <1>4, <2>1 DEF Agreed
<1>29. Mine(r, p.host) = Mine(q, p.host) \cup {k}
  <2>1. k \in DOMAIN r /\ r[k].sample.host = p.host
    BY <1>4, <1>17, <1>18, <1>19
  <2> QED
    BY <1>19, <1>20, <2>1 DEF Mine
<1>30. Mirrors(c.series, r, c.host, d.observation)
  <2>1. ObservationOf(r[k]) = s
    <3>1. ObservationOf(e) = [host |-> p.host, method |-> w.method,
                              start |-> p.series.start, last |-> at]
      BY <1>4, <1>17 DEF ObservationOf
    <3>2. s = [host |-> p.host, method |-> w.method, start |-> p.series.start, last |-> at]
      BY <1>8 DEF Series
    <3> QED
      BY <1>19, <3>1, <3>2
  <2>2. ASSUME NEW i \in Mine(r, p.host), \A j \in Mine(r, p.host) : j <= i
        PROVE  i = k
    <3>1. k <= i /\ i \in 1..k
      BY <1>19, <1>29, <2>2 DEF Mine
    <3> QED
      BY <1>18, <3>1
  <2> QED
    BY <1>13, <1>29, <2>1, <2>2 DEF Mirrors
<1>31. Kept(d, r, p.host) = Kept(d, q, p.host) \cup {x}
  <2>1. Samples(r, Mine(r, p.host)) = Samples(q, Mine(q, p.host)) \cup {x}
    BY <1>17, <1>19, <1>29 DEF Samples, Mine
  <2> QED
    BY <2>1 DEF Kept
<1>32. \A y \in Kept(d, q, p.host) \cup Copied(t) : y.at \in Nat /\ y.at <= at
  <2>1. Kept(d, q, p.host) \cup Copied(t) \subseteq Taken(p, q, t, d)
    BY DEF Kept, Taken, Samples, Mine
  <2> QED
    BY <2>1, TakenBound DEF Sample
<1>33. Shown(c, Kept(d, r, c.host), Copied(t))
  <2> DEFINE K == Kept(d, q, p.host)
             C == Copied(t)
  <2>1. Shown(p, K, C) /\ \A y \in K \cup C : y.at \in Nat /\ y.at <= at
    BY <1>1, <1>32
  <2>2. Kept(d, r, c.host) = K \cup {x}
    BY <1>13, <1>31
  <2> HIDE DEF K, C
  <2>3. L \subseteq K \cup {x}
    BY <1>11, <2>1 DEF Shown, S
  <2>4. ASSUME NEW y \in z
        PROVE  [host |-> p.host, method |-> w.method, at |-> y] \in K \cup {x}
    <3>1. CASE y \in p.window.at
      BY <2>1, <3>1 DEF Shown
    <3>2. CASE y = at
      BY <3>2
    <3> QED
      BY <3>1, <3>2
  <2>5. ASSUME NEW u \in (K \cup {x}) \cup C, NEW y \in L,
               u.method = w.method, p.series.start <= u.at, y.at < u.at
        PROVE  u \in L
    <3>1. CASE u = x
      BY <1>15, <3>1
    <3>2. CASE u \in K \cup C
      <4>1. y.at \in Nat /\ u.at \in Nat /\ u.at <= at
        BY <1>11, <1>14, <2>1, <3>2
      <4>2. y # x
        BY <1>2, <1>4, <2>5, <4>1
      <4>3. y \in p.preview
        BY <1>11, <4>2 DEF S
      <4>4. u \in p.preview
        BY <2>1, <2>5, <3>2, <4>3 DEF Shown
      <4>5. u \in S
        BY <4>4 DEF S
      <4> QED
        BY <1>11, <2>5, <4>5
    <3> QED
      BY <3>1, <3>2
  <2>6. c.series.method = w.method /\ c.series.start = p.series.start /\ c.window.at = z
    BY <1>8, <1>9, <1>13
  <2> QED
    BY <1>13, <2>2, <2>3, <2>4, <2>5, <2>6 DEF Shown, C
<1> QED
  BY <1>16, <1>22, <1>23, <1>25, <1>26, <1>28, <1>30, <1>33 DEF Sane, r, e

LEMMA PlaceLate ==
    ASSUME minute \in Nat, minute >= 1, NEW at \in Max({1, minute - FreshFor})..minute
    PROVE  at \in Nat /\ at >= 1
<1> DEFINE S == {1, minute - FreshFor}
<1>1. minute - FreshFor \in Int
  BY PingAssumption
<1>2. \E x \in S : \A y \in S : x >= y
  BY <1>1
<1>3. Max(S) \in S /\ \A y \in S : Max(S) >= y
  BY <1>2, Zenon DEF Max
<1>4. Max(S) \in Int /\ Max(S) >= 1
  BY <1>1, <1>3
<1> HIDE DEF S
<1>5. at \in Max(S)..minute
  BY DEF S
<1> QED
  BY <1>4, <1>5

LEMMA ResultKeeps ==
    ASSUME minute \in Nat, minute >= 1, Sane(probe, queue, tx, stored, newest),
           NEW m \in Methods, NEW at \in Max({1, minute - FreshFor})..minute,
           Result(m, at), ~(at < newest.at)
    PROVE  Sane(probe', queue', tx, stored, newest')
<1> DEFINE p == Observed(probe, m, at)
           x == [host |-> p.host, method |-> m, at |-> at]
           z == IF \A t \in p.window.at : t < at THEN p.window.at \cup {at} ELSE p.window.at
           w == [method |-> m, at |-> at]
           due == \A y \in probe.preview : y.at + Interval <= at
           place == due /\ Len(queue) < Pending
<1>1. at \in Nat /\ at >= 1
  BY PlaceLate
<1>2. PingTyped(probe, queue, tx, stored, newest) /\ probe.host # Absent
  BY DEF Sane, Result
<1>3. newest \in [method : MethodsToo, at : Nat]
  BY <1>2 DEF PingTyped
<1>4. at >= newest.at /\ (at = newest.at => newest.method = m)
  BY <1>1, <1>3 DEF Result
<1>5. newest' = w
  <2>1. newest' = IF at > newest.at THEN [method |-> m, at |-> at] ELSE newest
    BY DEF Result
  <2>2. CASE at > newest.at
    BY <2>1, <2>2
  <2>3. CASE at = newest.at
    BY <1>3, <1>4, <2>1, <2>3
  <2> QED
    BY <1>1, <1>3, <1>4, <2>2, <2>3
<1>6. /\ Sane(p, queue, tx, stored, w) /\ p.host = probe.host
      /\ p.series.method = m /\ p.series.last <= at
  BY <1>1, <1>2, <1>4, ResultSeen
<1>7. w.method = m /\ w.at = at
  OBVIOUS
<1> HIDE DEF w
<1>8. CASE UNCHANGED queue /\ probe' = p
  BY <1>5, <1>6, <1>8
<1>9. CASE /\ probe' = [p EXCEPT !.preview = LastN(@ \cup {x}),
                                 !.window.at = IF \A t \in @ : t < at THEN @ \cup {at} ELSE @,
                                 !.series.last = at]
           /\ queue' = Append(queue, [sample |-> x, start |-> p.series.start])
  <2>1. p \in Probe /\ p.series \in Series /\ p.window \in Window
    BY <1>6 DEF Sane, PingTyped, Probe
  <2> HIDE DEF p
  <2> DEFINE M == LastN(p.preview \cup {x})
             a == [p EXCEPT !.preview = M]
             b == [a EXCEPT !.window.at = z]
             s == [p.series EXCEPT !.last = at]
             v == [p.window EXCEPT !.at = z]
  <2>2. probe' = [b EXCEPT !.series.last = at]
    BY <1>9
  <2> HIDE DEF M
  <2>3. a = [host |-> p.host, series |-> p.series, preview |-> M, window |-> p.window]
    BY <2>1 DEF Probe
  <2> HIDE DEF a, z
  <2>4. b = [host |-> p.host, series |-> p.series, preview |-> M, window |-> v]
    BY <2>3
  <2> HIDE DEF b, v
  <2>5. probe' = [host |-> p.host, series |-> s, preview |-> M, window |-> v]
    BY <2>2, <2>4
  <2>6. z \in {p.window.at, p.window.at \cup {at}}
    BY DEF z
  <2>7. p.host # Absent
    BY <1>2, <1>6
  <2>8. \E y : y = probe'
    OBVIOUS
  <2>9. PICK c : c = probe'
    BY <2>8
  <2> HIDE DEF s, x
  <2>10. /\ x = [host |-> p.host, method |-> w.method, at |-> w.at]
         /\ s = [p.series EXCEPT !.last = w.at] /\ v = [p.window EXCEPT !.at = z]
         /\ c = [host |-> p.host, series |-> s, preview |-> LastN(p.preview \cup {x}),
                 window |-> v]
         /\ z \in {p.window.at, p.window.at \cup {w.at}}
    BY <1>7, <2>5, <2>6, <2>9 DEF s, x, v, M
  <2>11. Sane(c, Append(queue, [sample |-> x, start |-> p.series.start]), tx, stored, w)
    BY <1>1, <1>6, <1>7, <2>7, <2>10, ResultKept
  <2> QED
    BY <1>5, <1>9, <2>9, <2>11
<1> QED
  BY <1>8, <1>9 DEF Result
-----------------------------------------------------------------------------
(* What is left of a queue once its first k samples are written.            *)
Rest(q, k) == SubSeq(q, k + 1, Len(q))

LEMMA QueueRest ==
    ASSUME NEW q \in Seq(Entry), NEW k \in Nat, k <= Len(q), NEW r, r = Rest(q, k)
    PROVE  /\ r \in Seq(Entry)
           /\ \A i \in DOMAIN r : i \in Nat /\ i >= 1 /\ i + k \in DOMAIN q /\ r[i] = q[i + k]
           /\ \A i \in DOMAIN q : i > k => i - k \in DOMAIN r /\ r[i - k] = q[i]
<1>1. Len(q) \in Nat /\ DOMAIN q = 1..Len(q)
  BY LenProperties
<1>2. r = [i \in 1..(Len(q) - k) |-> q[i + k]]
  BY <1>1 DEF Rest
<1>3. \A i \in 1..(Len(q) - k) : i + k \in 1..Len(q) /\ q[i + k] \in Entry
  BY <1>1, ElementOfSeq
<1>4. r \in Seq(Entry)
  BY <1>1, <1>2, <1>3
<1>5. DOMAIN r = 1..(Len(q) - k)
  BY <1>2
<1>6. ASSUME NEW i \in DOMAIN q, i > k PROVE i - k \in DOMAIN r /\ r[i - k] = q[i]
  <2>1. i - k \in 1..(Len(q) - k) /\ (i - k) + k = i
    BY <1>1, <1>6
  <2> QED
    BY <1>2, <2>1
<1> QED
  BY <1>1, <1>2, <1>3, <1>4, <1>5, <1>6

(* A changed target is stored without a sample.                             *)
LEMMA SnapshotOfEdit ==
    ASSUME NEW d \in Disk, NEW n \in Nat, NEW h, OnDisk(d, h, n),
           NEW p \in Probe, Consistent(p, n), p.series.last = 0, p.host # d.host
    PROVE  /\ SnapshotRows(d, p) \in Disk
           /\ SnapshotRows(d, p).rows = {}
           /\ SnapshotRows(d, p).observation.last = 0
           /\ OnDisk(SnapshotRows(d, p), p.host, n)
<1> DEFINE s == p.series
           e == [d EXCEPT !.rows = {r \in @ : r.host = p.host},
                          !.observation = IF @.host = p.host THEN @ ELSE NoSeries]
           o == IF p.host = Absent THEN NoSeries ELSE s
           b == [host |-> p.host, series |-> s, observation |-> o, rows |-> {}]
<1>1. s \in Series /\ p.host \in HostsToo /\ NoSeries \in Series /\ NoSeries.last = 0
  BY DEF Probe, NoSeries, Series, HostsToo, MethodsToo
<1>2. p.host # Absent => s.host = p.host /\ Sound(s, n) /\ s.start >= 1
  BY DEF Consistent, Sound
<1>3. p.preview = {}
  <2>1. CASE p.host = Absent
    BY <2>1 DEF Consistent, Vacant
  <2>2. CASE p.host # Absent
    <3>1. \A x \in p.preview : x.at \in Nat /\ s.start <= x.at /\ x.at <= 0
      BY <2>2 DEF Consistent, Probe, Sample
    <3> QED
      BY <1>1, <1>2, <2>2, <3>1 DEF Series
  <2> QED
    BY <2>1, <2>2
<1>4. {r \in d.rows : r.host = p.host} = {}
  BY DEF OnDisk
<1>5. d.observation.host # p.host
  <2>1. d.host = Absent => d.observation.host = Absent
    BY DEF OnDisk, NoSeries
  <2> QED
    BY <2>1 DEF OnDisk
<1>6. e.rows = {} /\ e.observation = NoSeries
  <2> DEFINE R == {r \in d.rows : r.host = p.host}
             v == IF d.observation.host = p.host THEN d.observation ELSE NoSeries
  <2>1. e = [d EXCEPT !.rows = R, !.observation = v]
    BY Zenon
  <2>2. R = {} /\ v = NoSeries
    BY <1>4, <1>5
  <2> HIDE DEF R, v, e
  <2>3. e = [host |-> d.host, series |-> d.series, observation |-> v, rows |-> R]
    BY <2>1 DEF Disk
  <2> QED
    BY <2>2, <2>3
<1>7. SnapshotRows(d, p) =
         [host |-> p.host, series |-> s,
          observation |-> IF p.host = Absent THEN e.observation ELSE Upsert(e.observation, s),
          rows |-> {r \in e.rows : \A x \in p.preview : x.at # r.at} \cup p.preview]
  <2> DEFINE K == IF p.host = d.host THEN d ELSE e
  <2>1. SnapshotRows(d, p) =
           [host |-> p.host, series |-> s,
            observation |-> IF p.host = Absent THEN K.observation ELSE Upsert(K.observation, s),
            rows |-> {r \in K.rows : \A x \in p.preview : x.at # r.at} \cup p.preview]
    BY Zenon DEF SnapshotRows
  <2>2. K = e
    BY Zenon
  <2> HIDE DEF K, e, s
  <2> QED
    BY <2>1, <2>2
<1> HIDE DEF e
<1>8. Upsert(NoSeries, s) = s
  BY <1>1 DEF Upsert
<1>9. SnapshotRows(d, p) = b
  <2>1. {r \in e.rows : \A x \in p.preview : x.at # r.at} \cup p.preview = {}
    BY <1>3, <1>6
  <2> HIDE DEF s
  <2> QED
    BY <1>6, <1>7, <1>8, <2>1
<1> HIDE DEF s
<1>10. o \in Series /\ o.last = 0
  BY <1>1 DEF s
<1>11. p.host = Absent => o = NoSeries /\ s.last = 0
  BY DEF s
<1>12. p.host # Absent => o = s
  OBVIOUS
<1> HIDE DEF o
<1>13. b \in Disk /\ b.host = p.host /\ b.series = s /\ b.observation = o /\ b.rows = {}
  BY <1>1, <1>10 DEF Disk
<1> HIDE DEF b
<1>14. OnDisk(b, p.host, n)
  BY <1>1, <1>2, <1>10, <1>11, <1>12, <1>13 DEF OnDisk, s
<1> QED
  BY <1>9, <1>10, <1>13, <1>14

(* The same target is stored with its preview.                              *)
LEMMA SnapshotOfSame ==
    ASSUME NEW d \in Disk, IsFiniteSet(d.rows), NEW n \in Nat,
           NEW p \in Probe, IsFiniteSet(p.preview), Consistent(p, n), OnDisk(d, p.host, n),
           Distinct(d.rows \cup p.preview)
    PROVE  LET b == SnapshotRows(d, p) IN
           /\ b \in Disk
           /\ b.rows = d.rows \cup p.preview /\ IsFiniteSet(b.rows)
           /\ b.observation = IF p.host = Absent THEN d.observation
                              ELSE Upsert(d.observation, p.series)
           /\ OnDisk(b, p.host, n)
<1> DEFINE s == p.series
           o == IF p.host = Absent THEN d.observation ELSE Upsert(d.observation, s)
           R == {r \in d.rows : \A x \in p.preview : x.at # r.at} \cup p.preview
           U == d.rows \cup p.preview
           b == [host |-> p.host, series |-> s, observation |-> o, rows |-> U]
<1>1. /\ s \in Series /\ p.host \in HostsToo /\ d.observation \in Series
      /\ d.host = p.host /\ U \subseteq Sample
  BY DEF Probe, Disk, OnDisk
<1>2. R = U
  BY DEF Distinct
<1>3. IsFiniteSet(U)
  BY FS_Union
<1>4. SnapshotRows(d, p) = [host |-> p.host, series |-> s, observation |-> o, rows |-> R]
  <2> HIDE DEF s
  <2> QED
    BY <1>1, Zenon DEF SnapshotRows, s
<1>5. SnapshotRows(d, p) = b
  BY <1>2, <1>4
<1>6. o \in Series
  BY <1>1 DEF Upsert
<1>7. /\ s.last \in Nat /\ d.observation.last \in Nat /\ o.last \in Nat
      /\ p.host # Absent => s.last <= o.last /\ d.observation.last <= o.last
  BY <1>1 DEF Upsert, Series
<1>8. CASE p.host = Absent
  <2>1. s.last = 0 /\ U = {} /\ o = NoSeries
    BY <1>1, <1>8 DEF Consistent, Vacant, NoSeries, OnDisk
  <2> HIDE DEF o, U, s, R
  <2>2. b \in Disk /\ b.host = p.host /\ b.series = s /\ b.observation = o /\ b.rows = U
    BY <1>1, <1>6 DEF Disk
  <2> HIDE DEF b
  <2>3. OnDisk(b, p.host, n)
    BY <1>8, <2>1, <2>2 DEF OnDisk
  <2> QED
    BY <1>3, <1>5, <2>2, <2>3 DEF o, U, s
<1>9. CASE p.host # Absent
  <2>1. s.host = p.host /\ Sound(s, n) /\ d.observation.host = p.host /\ Sound(d.observation, n)
    BY <1>1, <1>9 DEF Consistent, OnDisk
  <2>2. o.host = p.host /\ Sound(o, n)
    BY <1>9, <2>1 DEF Upsert
  <2>3. ASSUME NEW r \in U PROVE r.host = p.host /\ 1 <= r.at /\ r.at <= o.last
    <3>1. r.at \in Nat
      BY <1>1 DEF Sample
    <3>2. CASE r \in d.rows
      <4>1. r.host = p.host /\ 1 <= r.at /\ r.at <= d.observation.last
        BY <1>1, <1>9, <3>2 DEF OnDisk
      <4> QED
        BY <1>7, <1>9, <3>1, <4>1
    <3>3. CASE r \in p.preview
      <4>1. r.host = p.host /\ s.start <= r.at /\ r.at <= s.last /\ s.start >= 1
        BY <1>9, <3>3 DEF Consistent, Sound
      <4>2. s.start \in Nat
        BY <1>1 DEF Series
      <4> QED
        BY <1>7, <1>9, <3>1, <4>1, <4>2
    <3> QED
      BY <3>2, <3>3
  <2> HIDE DEF o, U, s, R
  <2>4. b \in Disk /\ b.host = p.host /\ b.series = s /\ b.observation = o /\ b.rows = U
    BY <1>1, <1>6 DEF Disk
  <2> HIDE DEF b
  <2>5. OnDisk(b, p.host, n)
    BY <1>7, <1>9, <2>2, <2>3, <2>4 DEF OnDisk
  <2> QED
    BY <1>3, <1>5, <2>4, <2>5 DEF o, U, s
<1> QED
  BY <1>8, <1>9

(* Samples of one host and one time are the same.                           *)
LEMMA Alike ==
    ASSUME NEW T \in SUBSET Sample, NEW w, Agreed(T, w), NEW S \in SUBSET T,
           \A x, y \in S : x.host = y.host
    PROVE  Distinct(S)
<1> SUFFICES ASSUME NEW x \in S, NEW y \in S, x.at = y.at PROVE x = y
  BY DEF Distinct
<1>1. x \in Sample /\ y \in Sample
  OBVIOUS
<1>2. x.host = y.host /\ x.method = y.method
  BY DEF Agreed
<1> QED
  BY <1>1, <1>2 DEF Sample

(* The copy a flush made, compared with the queue as it is now.             *)
LEMMA BatchOf ==
    ASSUME NEW p, NEW q, NEW t, NEW d, NEW w, Sane(p, q, t, d, w), t # NoTx, t.kind # "edit"
    PROVE  /\ t.probe \in Probe /\ t.probe.host = p.host
           /\ t.batch \in Seq(Entry) /\ Len(t.batch) \in Nat /\ Len(t.batch) <= Len(q)
           /\ DOMAIN t.batch = 1..Len(t.batch)
           /\ \A i \in DOMAIN t.batch : i \in DOMAIN q /\ t.batch[i] = q[i]
           /\ Mine(t.batch, p.host) = {i \in Mine(q, p.host) : i <= Len(t.batch)}
<1>1. /\ t \in Txs /\ q \in Seq(Entry) /\ Underway(t, p, q, d.observation, w.at)
  BY DEF Sane, PingTyped
<1>2. t.probe \in Probe /\ t.batch \in Seq(Entry)
  BY <1>1 DEF Txs
<1>3. /\ t.probe.host = p.host /\ Len(t.batch) <= Len(q)
      /\ \A i \in 1..Len(t.batch) : t.batch[i] = q[i]
  BY <1>1 DEF Underway
<1>4. /\ Len(t.batch) \in Nat /\ DOMAIN t.batch = 1..Len(t.batch)
      /\ Len(q) \in Nat /\ DOMAIN q = 1..Len(q)
  BY <1>1, <1>2, LenProperties
<1>5. \A i \in DOMAIN t.batch : i \in DOMAIN q /\ t.batch[i] = q[i]
  BY <1>3, <1>4
<1>6. \A i : i \in DOMAIN t.batch <=> i \in DOMAIN q /\ i <= Len(t.batch)
  BY <1>3, <1>4
<1>7. Mine(t.batch, p.host) = {i \in Mine(q, p.host) : i <= Len(t.batch)}
  BY <1>5, <1>6 DEF Mine
<1> QED
  BY <1>2, <1>3, <1>4, <1>5, <1>7

(* The disk a flush writes its batch to.                                    *)
Base(t, d) == IF t.kind = "history" THEN d ELSE SnapshotRows(d, t.probe)

Based(p, q, t, d, w, b) ==
    /\ b \in Disk /\ IsFiniteSet(b.rows)
    /\ b.rows = d.rows \cup Copied(t)
    /\ OnDisk(b, p.host, w.at)
    /\ \A i \in DOMAIN q : i > Len(t.batch) => b.observation.last <= q[i].sample.at
    /\ \A i \in Mine(t.batch, p.host) :
          (\A j \in Mine(t.batch, p.host) : j <= i)
             => b.observation.last <= t.batch[i].sample.at
    /\ Mine(t.batch, p.host) = {} /\ d.observation.last > 0 => b.observation = d.observation
    /\ Distinct(b.rows \cup Samples(t.batch, Mine(t.batch, p.host)))

LEMMA BaseIs ==
    ASSUME NEW p, NEW q, NEW t, NEW d, NEW w, Sane(p, q, t, d, w), t # NoTx, t.kind # "edit",
           NEW b, b = Base(t, d)
    PROVE  Based(p, q, t, d, w, b)
<1> DEFINE h == p.host
           m == t.probe
           s == m.series
           M == Mine(t.batch, h)
<1>1. /\ PingTyped(p, q, t, d, w) /\ OnDisk(d, h, w.at)
      /\ Ordered(q, d.observation, w.at)
      /\ Underway(t, p, q, d.observation, w.at)
      /\ Agreed(Taken(p, q, t, d), w)
  BY DEF Sane
<1>2. /\ t \in Txs /\ d \in Disk /\ IsFiniteSet(d.rows) /\ IsFiniteSet(m.preview)
      /\ w.at \in Nat /\ q \in Seq(Entry) /\ d.observation \in Series /\ d.observation.last \in Nat
  BY <1>1 DEF PingTyped, Disk, Series
<1>3. /\ m \in Probe /\ m.host = h
      /\ t.batch \in Seq(Entry) /\ Len(t.batch) \in Nat /\ Len(t.batch) <= Len(q)
      /\ DOMAIN t.batch = 1..Len(t.batch)
      /\ \A i \in DOMAIN t.batch : i \in DOMAIN q /\ t.batch[i] = q[i]
  BY BatchOf
<1>4. s \in Series /\ s.last \in Nat /\ Consistent(m, w.at)
  BY <1>1, <1>3 DEF Probe, Series, Underway
<1>5. \A i \in M : i \in DOMAIN t.batch /\ t.batch[i].sample.host = h
  BY DEF Mine
<1>6. Distinct(d.rows \cup Copied(t) \cup Samples(t.batch, M))
  <2> DEFINE T == Taken(p, q, t, d)
             S == d.rows \cup Copied(t) \cup Samples(t.batch, M)
  <2>1. T \in SUBSET Sample
    BY TakenBound
  <2>2. Samples(t.batch, M) \subseteq Samples(q, DOMAIN q)
    BY <1>3, <1>5 DEF Samples
  <2>3. S \in SUBSET T
    BY <2>2 DEF Taken
  <2>4. \A x \in d.rows : x.host = h
    BY <1>1 DEF OnDisk
  <2>5. \A x \in Copied(t) : x.host = h
    BY <1>3, <1>4 DEF Copied, Consistent, Vacant
  <2>6. \A x \in Samples(t.batch, M) : x.host = h
    BY <1>5 DEF Samples
  <2>7. \A x, y \in S : x.host = y.host
    BY <2>4, <2>5, <2>6
  <2> HIDE DEF S, T
  <2>8. Distinct(S)
    BY <1>1, <2>1, <2>3, <2>7, Alike DEF T
  <2> QED
    BY <2>8 DEF S
<1>7. \A i \in DOMAIN q : q[i].sample.at \in Nat /\ d.observation.last <= q[i].sample.at
  BY <1>1, <1>2, EntryAt DEF Ordered
<1>8. CASE t.kind = "history"
  <2>1. b = d /\ Copied(t) = {}
    BY <1>8 DEF Base, Copied
  <2> HIDE DEF M
  <2>2. \A i \in M : b.observation.last <= t.batch[i].sample.at
    BY <1>3, <1>5, <1>7, <2>1
  <2> QED
    BY <1>1, <1>2, <1>6, <1>7, <2>1, <2>2 DEF M, Based
<1>9. CASE t.kind = "save"
  <2>1. b = SnapshotRows(d, m) /\ Copied(t) = m.preview
    BY <1>9 DEF Base, Copied
  <2>2. Distinct(d.rows \cup m.preview)
    BY <1>6, <2>1 DEF Distinct
  <2>3. /\ b \in Disk /\ b.rows = d.rows \cup m.preview /\ IsFiniteSet(b.rows)
        /\ b.observation = IF h = Absent THEN d.observation ELSE Upsert(d.observation, s)
        /\ OnDisk(b, h, w.at)
    BY <1>1, <1>2, <1>3, <1>4, <2>1, <2>2, SnapshotOfSame
  <2>4. /\ Mirrors(s, t.batch, h, d.observation)
        /\ \A i \in DOMAIN q : i > Len(t.batch) => s.last <= q[i].sample.at
    BY <1>1, <1>9 DEF Underway
  <2>5. b.observation \in {d.observation, s} /\ (b.observation = s => s.last >= d.observation.last)
    BY <1>2, <1>4, <2>3 DEF Upsert
  <2> HIDE DEF s, M
  <2>6. \A i \in DOMAIN q : i > Len(t.batch) => b.observation.last <= q[i].sample.at
    BY <1>7, <2>4, <2>5
  <2>7. ASSUME NEW i \in M, \A j \in M : j <= i
        PROVE  b.observation.last <= t.batch[i].sample.at
    <3>1. d.observation.last <= t.batch[i].sample.at /\ t.batch[i].sample.at \in Nat
      BY <1>3, <1>5, <1>7
    <3>2. CASE s.last > 0
      <4>1. ObservationOf(t.batch[i]) = s
        BY <2>4, <2>7, <3>2 DEF Mirrors, M
      <4>2. s.last = t.batch[i].sample.at
        BY <4>1 DEF ObservationOf
      <4> QED
        BY <2>5, <3>1, <4>2
    <3>3. CASE s.last = 0
      BY <2>5, <3>1, <3>3
    <3> QED
      BY <1>4, <3>2, <3>3
  <2>8. ASSUME M = {}, d.observation.last > 0 PROVE b.observation = d.observation
    <3>1. s.last > 0 => d.observation = s
      BY <2>4, <2>8 DEF Mirrors, M
    <3> QED
      BY <1>2, <1>4, <2>5, <2>8, <3>1
  <2> QED
    BY <1>6, <2>1, <2>3, <2>6, <2>7, <2>8 DEF M, Based
<1> QED
  BY <1>2, <1>8, <1>9 DEF Txs

(* A flush that goes through.                                               *)
LEMMA FlushCommits ==
    ASSUME NEW p, NEW q, NEW d, NEW w, Sane(p, q, tx, d, w), tx # NoTx, tx.kind # "edit",
           NEW b, b = Base(tx, d), NEW e, e = Batch(b, tx.batch),
           NEW k, k = Len(tx.batch), NEW r, r = Rest(q, k)
    PROVE  Sane(p, r, NoTx, e, w)
<1> DEFINE h == p.host
           M == Mine(tx.batch, h)
           A == Samples(tx.batch, M)
           at == w.at
<1>1. /\ PingTyped(p, q, tx, d, w) /\ Consistent(p, at) /\ OnDisk(d, h, at)
      /\ Ordered(q, d.observation, at)
      /\ Agreed(Taken(p, q, tx, d), w)
      /\ Mirrors(p.series, q, h, d.observation)
      /\ Shown(p, Kept(d, q, h), Copied(tx))
  BY DEF Sane
<1>2. /\ p \in Probe /\ q \in Seq(Entry) /\ at \in Nat /\ d \in Disk
      /\ p.series.last \in Nat
  BY <1>1 DEF PingTyped, Probe, Series
<1>3. /\ tx.probe \in Probe /\ tx.probe.host = h
      /\ tx.batch \in Seq(Entry) /\ k \in Nat /\ k <= Len(q)
      /\ DOMAIN tx.batch = 1..k
      /\ \A i \in DOMAIN tx.batch : i \in DOMAIN q /\ tx.batch[i] = q[i]
      /\ M = {i \in Mine(q, h) : i <= k}
  BY BatchOf
<1>5. /\ b \in Disk /\ IsFiniteSet(b.rows) /\ b.rows = d.rows \cup Copied(tx)
      /\ OnDisk(b, h, at)
      /\ \A i \in DOMAIN q : i > k => b.observation.last <= q[i].sample.at
      /\ \A i \in M : (\A j \in M : j <= i) => b.observation.last <= tx.batch[i].sample.at
      /\ M = {} /\ d.observation.last > 0 => b.observation = d.observation
      /\ Distinct(b.rows \cup A)
  <2>1. Based(p, q, tx, d, w, b)
    BY BaseIs
  <2> QED
    BY <2>1 DEF Based
<1>6. Chosen(tx.batch, k) = M
  BY <1>3 DEF Chosen, Mine
<1>7. Leaves(b, tx.batch, k, e)
  BY <1>3, <1>5, BatchLeaves
<1>8. /\ e \in Disk /\ e.host = b.host /\ e.series = b.series
      /\ e.rows = b.rows \cup A /\ IsFiniteSet(e.rows)
      /\ \/ e.observation = b.observation
         \/ \E i \in M : e.observation = ObservationOf(tx.batch[i])
      /\ b.observation.last <= e.observation.last
      /\ \A i \in M : tx.batch[i].sample.at <= e.observation.last
      /\ \A i \in M :
            /\ b.observation.last <= tx.batch[i].sample.at
            /\ \A j \in M : j <= i /\ tx.batch[j].sample.at <= tx.batch[i].sample.at
            => e.observation = ObservationOf(tx.batch[i])
  BY <1>5, <1>6, <1>7, Zenon DEF Leaves
<1>9. /\ r \in Seq(Entry)
      /\ \A i \in DOMAIN r : i \in Nat /\ i >= 1 /\ i + k \in DOMAIN q /\ r[i] = q[i + k]
      /\ \A i \in DOMAIN q : i > k => i - k \in DOMAIN r /\ r[i - k] = q[i]
  BY <1>2, <1>3, QueueRest
<1>10. \A i \in DOMAIN q : i \in Nat /\ q[i].sample.at \in Nat /\ q[i].start \in Nat
                           /\ q[i].sample \in Sample
  BY <1>2, EntryAt, LenProperties
<1>11. \A i \in M : /\ i \in DOMAIN q /\ tx.batch[i] = q[i] /\ q[i].sample.host = h /\ i <= k
  BY <1>3 DEF Mine
<1>12. /\ e.observation \in Series /\ e.observation.last \in Nat
       /\ b.observation \in Series /\ b.observation.last \in Nat
       /\ e.series.last \in Nat /\ d.observation.last \in Nat
  BY <1>2, <1>5, <1>8 DEF Disk, Series
<1>13. h = Absent => M = {}
  BY <1>2, <1>11, EntryAt, PingAssumption
<1> HIDE DEF M
<1>14. A = {q[i].sample : i \in M}
  BY <1>11 DEF Samples
<1>15. /\ \A i, j \in DOMAIN q : i <= j => q[i].sample.at <= q[j].sample.at
       /\ \A i \in DOMAIN q : /\ 1 <= q[i].start /\ q[i].start <= at
                              /\ 1 <= q[i].sample.at /\ q[i].sample.at <= at
  BY <1>1 DEF Ordered
<1>16. PingTyped(p, r, NoTx, e, w)
  BY <1>1, <1>8, <1>9 DEF PingTyped
<1>17. OnDisk(e, h, at)
  <2>1. CASE h = Absent
    <3>1. A = {} /\ e.observation = b.observation
      BY <1>8, <1>13, <1>14, <2>1
    <3> HIDE DEF A
    <3> QED
      BY <1>5, <1>8, <2>1, <3>1 DEF OnDisk
  <2>2. CASE h # Absent
    <3>1. /\ b.host = h /\ b.observation.host = h /\ Sound(b.observation, at)
          /\ b.series.last <= b.observation.last
          /\ \A x \in b.rows : x.host = h /\ 1 <= x.at /\ x.at <= b.observation.last
      BY <1>5, <2>2 DEF OnDisk
    <3>2. e.observation.host = h /\ Sound(e.observation, at)
      <4>1. ASSUME NEW i \in M, e.observation = ObservationOf(q[i])
            PROVE  e.observation.host = h /\ Sound(e.observation, at)
        <5>1. /\ e.observation.host = h /\ e.observation.method = q[i].sample.method
              /\ e.observation.start = q[i].start /\ e.observation.last = q[i].sample.at
          BY <1>11, <4>1 DEF ObservationOf
        <5>2. q[i].sample.method # Unmeasured
          BY <1>2, <1>11, EntryAt, PingAssumption
        <5> QED
          BY <1>11, <1>15, <5>1, <5>2 DEF Sound
      <4> QED
        BY <1>8, <1>11, <3>1, <4>1
    <3>3. ASSUME NEW x \in e.rows PROVE x.host = h /\ 1 <= x.at /\ x.at <= e.observation.last
      <4>1. CASE x \in b.rows
        <5>1. x.at \in Nat
          BY <1>5, <4>1 DEF Disk, Sample
        <5> QED
          BY <1>8, <1>12, <3>1, <4>1, <5>1
      <4>2. CASE x \in A
        BY <1>8, <1>11, <1>14, <1>15, <4>2
      <4> QED
        BY <1>8, <4>1, <4>2
    <3>4. b.series.last <= e.observation.last
      BY <1>8, <1>12, <3>1
    <3> HIDE DEF A
    <3> QED
      BY <1>8, <2>2, <3>1, <3>2, <3>3, <3>4 DEF OnDisk
  <2> QED
    BY <2>1, <2>2
<1>18. Ordered(r, e.observation, at)
  <2>1. ASSUME NEW i \in DOMAIN r PROVE e.observation.last <= r[i].sample.at
    <3>1. i + k \in DOMAIN q /\ r[i] = q[i + k] /\ i + k > k /\ q[i + k].sample.at \in Nat
      BY <1>3, <1>9, <1>10
    <3>2. CASE e.observation = b.observation
      BY <1>5, <3>1, <3>2
    <3>3. ASSUME NEW j \in M, e.observation = ObservationOf(q[j])
          PROVE  e.observation.last <= r[i].sample.at
      <4>1. j \in DOMAIN q /\ j <= i + k /\ e.observation.last = q[j].sample.at
        BY <1>3, <1>10, <1>11, <3>1, <3>3 DEF ObservationOf
      <4> QED
        BY <1>15, <3>1, <4>1
    <3> QED
      BY <1>8, <1>11, <3>2, <3>3
  <2>2. ASSUME NEW i \in DOMAIN r, NEW j \in DOMAIN r, i <= j
        PROVE  r[i].sample.at <= r[j].sample.at
    <3>1. i + k \in DOMAIN q /\ j + k \in DOMAIN q /\ i + k <= j + k
      BY <1>3, <1>9, <2>2
    <3> QED
      BY <1>9, <1>15, <3>1
  <2>3. ASSUME NEW i \in DOMAIN r
        PROVE  /\ 1 <= r[i].start /\ r[i].start <= at
               /\ 1 <= r[i].sample.at /\ r[i].sample.at <= at
    BY <1>9, <1>15
  <2> QED
    BY <2>1, <2>2, <2>3 DEF Ordered
<1>19. /\ \A i \in Mine(r, h) : i \in Nat /\ i >= 1 /\ i + k \in Mine(q, h) /\ r[i] = q[i + k]
       /\ \A i \in Mine(q, h) : i > k => i - k \in Mine(r, h) /\ r[i - k] = q[i]
       /\ \A i \in Mine(q, h) : i \in M \/ i > k
       /\ \A i \in Mine(q, h) : i \in Nat /\ i \in DOMAIN q
  BY <1>3, <1>9, <1>10 DEF Mine
<1>20. Mirrors(p.series, r, h, e.observation)
  <2> SUFFICES ASSUME p.series.last > 0
               PROVE  /\ Mine(r, h) = {} => e.observation = p.series
                      /\ \A i \in Mine(r, h) : (\A j \in Mine(r, h) : j <= i)
                                                   => ObservationOf(r[i]) = p.series
    BY DEF Mirrors
  <2>1. /\ Mine(q, h) = {} => d.observation = p.series
        /\ \A i \in Mine(q, h) : (\A j \in Mine(q, h) : j <= i) => ObservationOf(q[i]) = p.series
    BY <1>1 DEF Mirrors
  <2>2. ASSUME Mine(r, h) = {} PROVE e.observation = p.series
    <3>1. Mine(q, h) = M
      BY <1>3, <1>19, <2>2
    <3>2. CASE M = {}
      <4>1. d.observation = p.series
        BY <2>1, <3>1, <3>2
      <4> QED
        BY <1>5, <1>8, <3>2, <4>1
    <3>3. CASE M # {}
      <4>1. M \in SUBSET (1..k)
        BY <1>3 DEF M, Mine
      <4>2. Max(M) \in M /\ \A j \in M : Max(M) >= j
        BY <1>3, <3>3, <4>1, LatestIn
      <4>3. PICK i \in M : \A j \in M : i >= j
        BY <4>2
      <4>4. \A j \in M : j <= i
        BY <1>10, <1>11, <4>3
      <4>5. ObservationOf(q[i]) = p.series
        BY <2>1, <3>1, <4>4
      <4>6. \A j \in M : j <= i /\ tx.batch[j].sample.at <= tx.batch[i].sample.at
        BY <1>11, <1>15, <4>4
      <4>7. b.observation.last <= tx.batch[i].sample.at
        BY <1>5, <4>4
      <4>8. e.observation = ObservationOf(tx.batch[i])
        BY <1>8, <4>6, <4>7
      <4> QED
        BY <1>11, <4>5, <4>8
    <3> QED
      BY <3>2, <3>3
  <2>3. ASSUME NEW i \in Mine(r, h), \A j \in Mine(r, h) : j <= i
        PROVE  ObservationOf(r[i]) = p.series
    <3>1. i \in Nat /\ i >= 1 /\ i + k \in Mine(q, h) /\ r[i] = q[i + k]
      BY <1>19
    <3>2. ASSUME NEW j \in Mine(q, h) PROVE j <= i + k
      <4>1. CASE j \in M
        BY <1>3, <1>11, <1>19, <3>1, <4>1
      <4>2. CASE j > k
        <5>1. j - k \in Mine(r, h)
          BY <1>19, <4>2
        <5>2. j - k <= i
          BY <2>3, <5>1
        <5> QED
          BY <1>3, <1>19, <3>1, <5>2
      <4> QED
        BY <1>19, <4>1, <4>2
    <3> QED
      BY <2>1, <3>1, <3>2
  <2> QED
    BY <2>2, <2>3
<1>21. Samples(q, Mine(q, h)) = A \cup Samples(r, Mine(r, h))
  <2>1. Samples(q, Mine(q, h)) = {q[i].sample : i \in Mine(q, h)}
        /\ Samples(r, Mine(r, h)) = {r[i].sample : i \in Mine(r, h)}
    BY DEF Samples
  <2>2. \A i \in M : i \in Mine(q, h)
    BY <1>3
  <2>3. ASSUME NEW i \in Mine(q, h) PROVE q[i].sample \in A \cup Samples(r, Mine(r, h))
    <3>1. CASE i \in M
      BY <1>14, <3>1
    <3>2. CASE i > k
      <4>1. i - k \in Mine(r, h) /\ r[i - k] = q[i]
        BY <1>19, <3>2
      <4> QED
        BY <2>1, <4>1
    <3> QED
      BY <1>19, <3>1, <3>2
  <2>4. \A x \in A : x \in Samples(q, Mine(q, h))
    BY <1>14, <2>1, <2>2
  <2>5. \A i \in Mine(r, h) : r[i].sample \in Samples(q, Mine(q, h))
    BY <1>19, <2>1
  <2> HIDE DEF A
  <2> QED
    BY <2>1, <2>3, <2>4, <2>5
<1> HIDE DEF A
<1>22. Kept(e, r, h) = Kept(d, q, h) \cup Copied(tx)
  BY <1>5, <1>8, <1>21 DEF Kept
<1>23. Copied(NoTx) = {}
  BY DEF Copied, NoTx
<1>24. Agreed(Taken(p, r, NoTx, e), w)
  <2>1. Samples(r, DOMAIN r) \subseteq Samples(q, DOMAIN q)
    BY <1>9 DEF Samples
  <2>2. A \subseteq Samples(q, DOMAIN q)
    BY <1>11, <1>14 DEF Samples
  <2>3. Taken(p, r, NoTx, e) \subseteq Taken(p, q, tx, d)
    BY <1>5, <1>8, <1>23, <2>1, <2>2 DEF Taken
  <2> QED
    BY <1>1, <2>3 DEF Agreed
<1>25. Shown(p, Kept(e, r, h), Copied(NoTx))
  <2> DEFINE K == Kept(d, q, h)
             C == Copied(tx)
  <2>1. Kept(e, r, h) = K \cup C /\ Shown(p, K, C)
    BY <1>1, <1>22
  <2> HIDE DEF K, C
  <2> QED
    BY <1>23, <2>1 DEF Shown
<1> QED
  BY <1>1, <1>16, <1>17, <1>18, <1>20, <1>24, <1>25 DEF Sane

(* An edit that goes through: the samples of the old target that still wait *)
(* are of another host.                                                     *)
LEMMA EditCommits ==
    ASSUME minute \in Nat, minute >= 1,
           NEW p, NEW q, NEW d, NEW w, Sane(p, q, tx, d, w), tx # NoTx, tx.kind = "edit",
           NEW b, b = Base(tx, d), NEW e, e = Batch(b, tx.batch),
           NEW r, r = Rest(q, Len(tx.batch)), NEW c, c = Pruned(p, tx.probe.host)
    PROVE  Sane(c, r, NoTx, e, w)
<1> DEFINE m == tx.probe
           at == w.at
<1>1. /\ PingTyped(p, q, tx, d, w) /\ Consistent(p, at) /\ OnDisk(d, p.host, at)
      /\ Ordered(q, d.observation, at)
      /\ Underway(tx, p, q, d.observation, at)
      /\ Agreed(Taken(p, q, tx, d), w)
  BY DEF Sane
<1>2. /\ p \in Probe /\ q \in Seq(Entry) /\ at \in Nat /\ d \in Disk /\ tx \in Txs
  BY <1>1 DEF PingTyped
<1>3. /\ m \in Probe /\ m.host \in HostsToo /\ m.series.last = 0 /\ m.host # p.host
      /\ Consistent(m, at) /\ tx.batch = <<>>
  BY <1>1, <1>2 DEF Txs, Underway, Probe
<1>4. d.host = p.host
  BY <1>1 DEF OnDisk
<1>5. b = SnapshotRows(d, m)
  BY DEF Base
<1>6. b \in Disk /\ b.rows = {} /\ b.observation.last = 0 /\ OnDisk(b, m.host, at)
  <2>1. m.host # d.host
    BY <1>3, <1>4
  <2> HIDE DEF m
  <2> QED
    BY <1>1, <1>2, <1>3, <1>5, <2>1, SnapshotOfEdit
<1>7. Len(tx.batch) = 0 /\ tx.batch \in Seq(Entry)
  BY <1>3
<1>8. Leaves(b, tx.batch, 0, e)
  <2>1. Leaves(b, tx.batch, Len(tx.batch), e)
    BY <1>6, <1>7, BatchLeaves
  <2> QED
    BY <1>7, <2>1
<1>9. Chosen(tx.batch, 0) = {} /\ Samples(tx.batch, {}) = {}
  BY DEF Chosen, Samples
<1>10. /\ e \in Disk /\ e.host = b.host /\ e.series = b.series /\ e.rows = {}
       /\ e.observation = b.observation
  <2>1. /\ e \in Disk /\ e.host = b.host /\ e.series = b.series
        /\ e.rows \subseteq b.rows \cup Samples(tx.batch, Chosen(tx.batch, 0))
        /\ \/ e.observation = b.observation
           \/ \E i \in Chosen(tx.batch, 0) : e.observation = ObservationOf(tx.batch[i])
    BY <1>8, Zenon DEF Leaves
  <2> QED
    BY <1>6, <1>9, <2>1
<1>11. r = q
  <2>1. r = SubSeq(q, 1, Len(q))
    BY <1>7 DEF Rest
  <2>2. r = [i \in 1..Len(q) |-> q[i]]
    BY <1>2, <2>1
  <2> QED
    BY <1>2, <2>2
<1>12. /\ c \in Probe /\ c.host = m.host /\ c.series.last = 0
       /\ c.preview = {} /\ c.window.at = {} /\ Consistent(c, at)
  BY <1>1, <1>2, <1>3, PrunedFresh
<1>13. PingTyped(c, q, NoTx, e, w)
  BY <1>1, <1>10, <1>12, FS_EmptySet DEF PingTyped
<1>14. OnDisk(e, c.host, at)
  BY <1>6, <1>10, <1>12 DEF OnDisk
<1>15. Ordered(q, e.observation, at)
  <2>1. \A i \in DOMAIN q : 0 <= q[i].sample.at
    BY <1>2, EntryAt
  <2> QED
    BY <1>1, <1>6, <1>10, <2>1 DEF Ordered
<1>16. Copied(NoTx) = {}
  BY DEF Copied, NoTx
<1>17. Agreed(Taken(c, q, NoTx, e), w)
  <2>1. Taken(c, q, NoTx, e) \subseteq Taken(p, q, tx, d)
    BY <1>10, <1>12, <1>16 DEF Taken
  <2> QED
    BY <1>1, <2>1 DEF Agreed
<1>18. Mirrors(c.series, q, c.host, e.observation)
  BY <1>12 DEF Mirrors
<1>19. Shown(c, Kept(e, q, c.host), Copied(NoTx))
  BY <1>12 DEF Shown
<1> QED
  BY <1>11, <1>12, <1>13, <1>14, <1>15, <1>17, <1>18, <1>19 DEF Sane

LEMMA CommitKeeps ==
    ASSUME minute \in Nat, minute >= 1, Sane(probe, queue, tx, stored, newest), Commit
    PROVE  Sane(probe', queue', tx', stored', newest)
<1> DEFINE b == Base(tx, stored)
           r == Rest(queue, Len(tx.batch))
<1>1. /\ tx # NoTx /\ tx' = NoTx
      /\ probe' = IF tx.kind = "edit" THEN Pruned(probe, tx.probe.host) ELSE probe
      /\ queue' = r
  BY DEF Commit, Rest
<1>2. stored' = Batch(b, tx.batch)
  BY Zenon DEF Commit, Batch, Base
<1> HIDE DEF b, r
<1>3. CASE tx.kind = "edit"
  <2>1. Sane(Pruned(probe, tx.probe.host), r, NoTx, Batch(b, tx.batch), newest)
    BY <1>1, <1>3, EditCommits DEF b, r
  <2> QED
    BY <1>1, <1>2, <1>3, <2>1
<1>4. CASE tx.kind # "edit"
  <2>1. Sane(probe, r, NoTx, Batch(b, tx.batch), newest)
    BY <1>1, <1>4, FlushCommits DEF b, r
  <2> QED
    BY <1>1, <1>2, <1>4, <2>1
<1> QED
  BY <1>3, <1>4
-----------------------------------------------------------------------------
(* What a crash loses waited; what a restart finds is what the disk has.    *)
LEMMA CrashKeeps ==
    ASSUME NEW p, NEW q, NEW t, NEW d, NEW w, Sane(p, q, t, d, w), NEW c, c = Reloaded(d)
    PROVE  Sane(c, <<>>, NoTx, d, w)
<1> DEFINE h == d.host
           o == d.observation
           S == Since(d)
           at == w.at
<1>1. /\ PingTyped(p, q, t, d, w) /\ OnDisk(d, p.host, at) /\ Agreed(Taken(p, q, t, d), w)
  BY DEF Sane
<1>2. /\ d \in Disk /\ IsFiniteSet(d.rows) /\ at \in Nat
      /\ o \in Series /\ o.last \in Nat /\ o.start \in Nat /\ h \in HostsToo
  BY <1>1 DEF PingTyped, Disk, Series
<1>3. OnDisk(d, h, at)
  BY <1>1 DEF OnDisk
<1>4. <<>> \in Seq(Entry) /\ DOMAIN <<>> = {}
  OBVIOUS
<1>5. Copied(NoTx) = {}
  BY DEF Copied, NoTx
<1>6. Ordered(<<>>, o, at)
  BY <1>4 DEF Ordered
<1>7. Mine(<<>>, h) = {} /\ Samples(<<>>, {}) = {}
  BY <1>4 DEF Mine, Samples
<1>8. Kept(d, <<>>, h) = d.rows
  BY <1>7 DEF Kept
<1>9. CASE h = Absent
  <2>1. c = Vacant
    BY <1>9 DEF Reloaded
  <2>2. NoSeries \in Series
    BY DEF NoSeries, Series, HostsToo, MethodsToo
  <2>3. /\ Vacant \in Probe /\ Vacant.host = Absent /\ Vacant.series.last = 0
        /\ Vacant.preview = {} /\ Vacant.window.at = {}
    BY <2>2 DEF Vacant, NoSeries, Probe, Window, Blank, HostsToo, MethodsToo
  <2>4. Consistent(c, at)
    BY <2>1, <2>3 DEF Consistent
  <2>5. PingTyped(c, <<>>, NoTx, d, w)
    BY <1>1, <1>4, <2>1, <2>3, FS_EmptySet DEF PingTyped
  <2>6. Taken(c, <<>>, NoTx, d) \subseteq Taken(p, q, t, d)
    BY <1>4, <1>5, <1>7, <2>1, <2>3 DEF Taken
  <2>7. Agreed(Taken(c, <<>>, NoTx, d), w)
    BY <1>1, <2>6 DEF Agreed
  <2>8. Mirrors(c.series, <<>>, c.host, o)
    BY <2>1, <2>3 DEF Mirrors
  <2>9. Shown(c, Kept(d, <<>>, c.host), Copied(NoTx))
    BY <2>1, <2>3 DEF Shown
  <2> QED
    BY <1>3, <1>6, <1>9, <2>1, <2>3, <2>4, <2>5, <2>7, <2>8, <2>9 DEF Sane
<1>10. CASE h # Absent
  <2> DEFINE v == [host |-> h, method |-> o.method, at |-> Times(S)]
             g == [host |-> h, series |-> o, preview |-> LastN(S), window |-> v]
  <2>1. /\ o.host = h /\ Sound(o, at) /\ d.series.last <= o.last
        /\ \A x \in d.rows : x.host = h /\ 1 <= x.at /\ x.at <= o.last
    BY <1>3, <1>10 DEF OnDisk
  <2>2. c = g
    BY <1>2, <1>10, <2>1, ReloadedIs DEF Sound
  <2>3. /\ S \subseteq d.rows /\ S \in SUBSET Sample /\ IsFiniteSet(S)
        /\ \A x \in S : x.method = o.method /\ x.at >= o.start
    <3>1. S \subseteq d.rows
      BY DEF Since
    <3>2. IsFiniteSet(S)
      BY <1>2, <3>1, FS_Subset
    <3> QED
      BY <1>2, <3>1, <3>2 DEF Since, Disk
  <2> DEFINE L == LastN(S)
  <2>4. /\ L \subseteq S /\ IsFiniteSet(L)
        /\ \A x \in L : Cardinality({y \in L : y.at > x.at}) < PreviewCap
        /\ \A x \in L, y \in S : x.at < y.at => y \in L
    BY <2>3, PreviewKeeps
  <2>5. Times(S) \in SUBSET Nat /\ \A z \in Times(S) : \E x \in S : x.at = z
    BY <2>3 DEF Times, Sample
  <2>6. v \in Window /\ v.host = h /\ v.method = o.method /\ v.at = Times(S)
    BY <1>2, <2>5 DEF Window, Series
  <2> HIDE DEF v, L, S
  <2>7. g \in Probe /\ g.host = h /\ g.series = o /\ g.preview = L /\ g.window = v
    <3>1. L \in SUBSET Sample
      BY <2>3, <2>4
    <3> QED
      BY <1>2, <2>6, <3>1 DEF Probe, L
  <2> HIDE DEF g
  <2>8. \A x \in S : x.host = h /\ o.start <= x.at /\ x.at <= o.last
    BY <1>2, <2>1, <2>3 DEF Sample
  <2>9. Consistent(g, at)
    <3>1. \A z \in Times(S) : o.start <= z /\ z <= o.last
      BY <2>5, <2>8
    <3> QED
      BY <1>10, <2>1, <2>3, <2>4, <2>6, <2>7, <2>8, <3>1 DEF Consistent
  <2>10. PingTyped(g, <<>>, NoTx, d, w)
    BY <1>1, <1>4, <2>4, <2>7 DEF PingTyped
  <2>11. Taken(g, <<>>, NoTx, d) \subseteq Taken(p, q, t, d)
    BY <1>4, <1>5, <1>7, <2>3, <2>4, <2>7 DEF Taken
  <2>12. Agreed(Taken(g, <<>>, NoTx, d), w)
    BY <1>1, <2>11 DEF Agreed
  <2>13. Mirrors(g.series, <<>>, g.host, o)
    BY <1>7, <2>7 DEF Mirrors
  <2>14. Shown(g, Kept(d, <<>>, g.host), Copied(NoTx))
    <3>1. ASSUME NEW z \in Times(S)
          PROVE  [host |-> h, method |-> o.method, at |-> z] \in d.rows
      <4>1. PICK x \in S : x.at = z
        BY <2>5
      <4>2. x \in Sample /\ x.host = h /\ x.method = o.method /\ x \in d.rows
        BY <2>3, <2>8
      <4>3. x = [host |-> h, method |-> o.method, at |-> z]
        BY <4>1, <4>2 DEF Sample
      <4> QED
        BY <4>2, <4>3
    <3>2. ASSUME NEW y \in d.rows, NEW x \in L, y.method = o.method, o.start <= y.at,
                 x.at < y.at
          PROVE  y \in L
      <4>1. y \in S
        BY <1>2, <3>2 DEF S, Since, Disk, Sample
      <4> QED
        BY <2>4, <3>2, <4>1
    <3>3. L \subseteq d.rows
      BY <2>3, <2>4
    <3> QED
      BY <1>5, <1>8, <2>6, <2>7, <3>1, <3>2, <3>3 DEF Shown
  <2> QED
    BY <1>3, <1>6, <2>2, <2>7, <2>9, <2>10, <2>12, <2>13, <2>14 DEF Sane
<1> QED
  BY <1>9, <1>10

LEMMA SeriesNext == SeriesInv /\ [PingNext]_pingVars => SeriesInv'
<1> SUFFICES ASSUME SeriesInv, [PingNext]_pingVars PROVE SeriesInv'
  OBVIOUS
<1>1. minute \in Nat /\ minute >= 1 /\ (~overtaken => Sane(probe, queue, tx, stored, newest))
  BY DEF SeriesInv
<1>2. CASE UNCHANGED pingVars
  BY <1>1, <1>2 DEF pingVars, SeriesInv
<1>3. CASE MinutePasses
  BY <1>1, <1>3 DEF MinutePasses, SeriesInv
<1>4. ASSUME NEW m \in Methods, NEW at \in Max({1, minute - FreshFor})..minute, Result(m, at)
      PROVE  SeriesInv'
  <2>1. /\ UNCHANGED <<minute, tx, stored>>
        /\ overtaken' = (overtaken \/ at < newest.at)
    BY <1>4, Zenon DEF Result
  <2>2. ASSUME ~overtaken' PROVE Sane(probe', queue', tx', stored', newest')
    <3>1. ~overtaken /\ ~(at < newest.at)
      BY <2>1, <2>2, Zenon
    <3>2. Sane(probe', queue', tx, stored, newest')
      BY <1>1, <1>4, <3>1, ResultKeeps
    <3> QED
      BY <2>1, <3>2
  <2> QED
    BY <1>1, <2>1, <2>2, Zenon DEF SeriesInv
<1>5. ASSUME NEW kind \in {"save", "history"}, BeginFlush(kind) PROVE SeriesInv'
  <2>1. UNCHANGED <<minute, probe, queue, stored, newest, overtaken>>
    BY <1>5 DEF BeginFlush
  <2>2. ASSUME ~overtaken PROVE Sane(probe, queue, tx', stored, newest)
    BY <1>1, <1>5, <2>2, FlushBegins
  <2> QED
    BY <1>1, <2>1, <2>2 DEF SeriesInv
<1>6. ASSUME NEW h \in HostsToo, BeginTargetEdit(h) PROVE SeriesInv'
  <2>1. UNCHANGED <<minute, probe, queue, stored, newest, overtaken>>
    BY <1>6 DEF BeginTargetEdit
  <2>2. ASSUME ~overtaken PROVE Sane(probe, queue, tx', stored, newest)
    BY <1>1, <1>6, <2>2, EditBegins
  <2> QED
    BY <1>1, <2>1, <2>2 DEF SeriesInv
<1>7. CASE Commit
  <2>1. UNCHANGED <<minute, newest, overtaken>>
    BY <1>7 DEF Commit
  <2>2. ASSUME ~overtaken PROVE Sane(probe', queue', tx', stored', newest)
    BY <1>1, <1>7, <2>2, CommitKeeps
  <2> QED
    BY <1>1, <2>1, <2>2 DEF SeriesInv
<1>8. CASE TxFails
  <2>1. UNCHANGED <<minute, probe, queue, stored, newest, overtaken>> /\ tx' = NoTx
    BY <1>8 DEF TxFails
  <2>2. ASSUME ~overtaken PROVE Sane(probe, queue, NoTx, stored, newest)
    BY <1>1, <2>2, NothingUnderway
  <2> QED
    BY <1>1, <2>1, <2>2 DEF SeriesInv
<1>9. CASE PingCrash
  <2>1. /\ UNCHANGED <<minute, stored, newest, overtaken>>
        /\ probe' = Reloaded(stored) /\ queue' = <<>> /\ tx' = NoTx
    BY <1>9 DEF PingCrash
  <2>2. ASSUME ~overtaken PROVE Sane(Reloaded(stored), <<>>, NoTx, stored, newest)
    BY <1>1, <2>2, CrashKeeps
  <2> QED
    BY <1>1, <2>1, <2>2 DEF SeriesInv
<1> QED
  BY <1>2, <1>3, <1>4, <1>5, <1>6, <1>7, <1>8, <1>9 DEF PingNext, HostsToo

LEMMA SeriesAlways == PingSpec => []SeriesInv
BY SeriesInit, SeriesNext, PTL DEF PingSpec
-----------------------------------------------------------------------------
(* With nothing waiting, the observation is the series; what is shown is on *)
(* the disk, and of the rows since the series began none is later than a    *)
(* sample of the preview that the preview has not.                          *)
LEMMA QuietIsExact == SeriesInv => ReloadExact
<1> SUFFICES ASSUME SeriesInv, tx = NoTx, queue = <<>>, probe.series.last > 0, ~overtaken
             PROVE  /\ Reloaded(stored).series = probe.series
                    /\ probe.preview \subseteq Reloaded(stored).preview
                    /\ probe.window.at \subseteq Reloaded(stored).window.at
  BY DEF ReloadExact
<1> DEFINE p == probe
           d == stored
           o == d.observation
           S == Since(d)
           at == newest.at
<1>1. /\ PingTyped(p, queue, tx, d, newest) /\ Consistent(p, at) /\ OnDisk(d, p.host, at)
      /\ Mirrors(p.series, queue, p.host, o)
      /\ Shown(p, Kept(d, queue, p.host), Copied(tx))
  BY Zenon DEF SeriesInv, Sane
<1>2. /\ d \in Disk /\ o.start \in Nat /\ p \in Probe /\ IsFiniteSet(p.preview)
  BY <1>1 DEF PingTyped, Disk, Series
<1>3. DOMAIN queue = {} /\ Mine(queue, p.host) = {}
  BY DEF Mine
<1>4. p.host # Absent /\ d.host = p.host
  BY <1>1 DEF Consistent, Vacant, NoSeries, OnDisk
<1>5. o = p.series
  BY <1>1, <1>3 DEF Mirrors
<1>6. Kept(d, queue, p.host) = d.rows
  BY <1>3 DEF Kept, Samples
<1>7. /\ o.host = p.host /\ Sound(o, at) /\ d.series.last <= o.last
      /\ \A x \in d.rows : x.host = d.host /\ 1 <= x.at /\ x.at <= o.last
      /\ \A z \in p.window.at : o.start <= z
      /\ \A x \in p.preview : x.method = o.method /\ o.start <= x.at
      /\ \A x \in p.preview : Cardinality({y \in p.preview : y.at > x.at}) < PreviewCap
  BY <1>1, <1>4, <1>5 DEF OnDisk, Consistent
<1>8. /\ p.preview \subseteq d.rows
      /\ \A z \in p.window.at : [host |-> p.host, method |-> o.method, at |-> z] \in d.rows
      /\ \A y \in d.rows, x \in p.preview :
            y.method = o.method /\ o.start <= y.at /\ x.at < y.at => y \in p.preview
  BY <1>1, <1>5, <1>6 DEF Shown
<1>9. Reloaded(d) = [host |-> d.host, series |-> o, preview |-> LastN(S),
                     window |-> [host |-> d.host, method |-> o.method, at |-> Times(S)]]
  BY <1>2, <1>4, <1>7, ReloadedIs DEF Sound
<1>10. p.preview \subseteq LastN(S)
  <2> SUFFICES ASSUME NEW x \in p.preview PROVE x \in LastN(S)
    OBVIOUS
  <2>1. x \in S
    BY <1>2, <1>7, <1>8 DEF Since, Disk, Sample
  <2>2. {y \in S : y.at > x.at} = {y \in p.preview : y.at > x.at}
    <3>1. \A y \in S : y.at \in Nat /\ y.at >= o.start /\ y.method = o.method /\ y \in d.rows
      BY <1>2 DEF Since, Disk, Sample
    <3>2. \A y \in p.preview : y \in S
      BY <1>2, <1>7, <1>8 DEF Since, Disk, Sample
    <3>3. x.at \in Nat
      BY <1>2 DEF Probe, Sample
    <3> HIDE DEF S
    <3>4. \A y \in S : y.at > x.at => y \in p.preview
      BY <1>2, <1>8, <3>1, <3>3
    <3> QED
      BY <3>2, <3>4
  <2>3. Cardinality({y \in S : y.at > x.at}) < PreviewCap
    BY <1>7, <2>2
  <2> HIDE DEF S
  <2> QED
    BY <2>1, <2>3 DEF LastN
<1>11. p.window.at \subseteq Times(S)
  <2> SUFFICES ASSUME NEW z \in p.window.at PROVE z \in Times(S)
    OBVIOUS
  <2> DEFINE x == [host |-> p.host, method |-> o.method, at |-> z]
  <2>1. x \in d.rows /\ x.method = o.method /\ x.at = z /\ o.start <= z /\ z \in Nat
    BY <1>2, <1>7, <1>8 DEF Probe, Window
  <2> HIDE DEF x
  <2>2. x \in S
    BY <1>2, <2>1 DEF Since
  <2> QED
    BY <2>1, <2>2 DEF Times
<1> HIDE DEF S
<1> QED
  BY <1>5, <1>9, <1>10, <1>11

(* Property ReloadExact, for any hosts, methods, queue, preview and number  *)
(* of edits and crashes: unless a result was overtaken, a restart finds the *)
(* series and all samples of it that memory shows, once they are written.   *)
THEOREM RestartsFindTheSeries == PingSpec => []ReloadExact
BY SeriesAlways, QuietIsExact, PTL
=============================================================================
