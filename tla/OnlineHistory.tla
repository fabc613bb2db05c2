---------------------------- MODULE OnlineHistory ----------------------------
(***************************************************************************)
(* The time a node was online, by day (recordDailyOnline and               *)
(* dailyOnlineStatus in internal/store/traffic_history.go).  Each contact  *)
(* stands for being online until the offline threshold; the panel stores   *)
(* the measure of the union of these intervals as it goes, ahead of time.  *)
(***************************************************************************)
EXTENDS Integers, FiniteSets

CONSTANTS Thresholds,   \* offlineThreshold: fixed, or from the interval a report declares
          OnlineDay,    \* length of a day
          KeptDays,     \* trafficDailyRetentionDays
          MaxMoment     \* bound: time

ASSUME OnlineAssumption ==
    /\ Thresholds \subseteq Nat \ {0} /\ Thresholds # {}
    /\ OnlineDay \in Nat \ {0} /\ KeptDays \in Nat /\ MaxMoment \in Nat

VARIABLES moment,
          threshold,     \* of the last report
          dailyOnline,   \* Node.DailyOnline
          onlineUntil,   \* Node.DailyOnlineUntil
          since,         \* Node.OnlineHistorySince
          covered        \* history: the moments the contacts stand for

onlineVars == <<moment, threshold, dailyOnline, onlineUntil, since, covered>>

Horizon == MaxMoment + CHOOSE t \in Thresholds : \A s \in Thresholds : s <= t
AllDays == 0..(Horizon \div OnlineDay)
Moments(d) == (d * OnlineDay)..((d + 1) * OnlineDay - 1)
Latest(s, t) == IF s < t THEN t ELSE s
Earliest(s, t) == IF s < t THEN s ELSE t

OnlineInit ==
    /\ moment \in 0..(OnlineDay - 1) /\ since = moment
    /\ threshold \in Thresholds
    /\ dailyOnline = [d \in AllDays |-> 0]
    /\ onlineUntil = 0 /\ covered = {}

MomentPasses ==
    /\ moment < MaxMoment
    /\ moment' = moment + 1
    /\ UNCHANGED <<threshold, dailyOnline, onlineUntil, since, covered>>

\* Mutant: each contact counts in full.
NewFromNow(until) == moment

(* Where what is not yet stored begins.                                     *)
NewFrom(until) == Latest(moment, until)

(* recordDailyOnline, day by day; what is too old goes.                     *)
Contact(th) ==
    LET start == NewFrom(onlineUntil)
        end   == moment + th
        Share(d) == Latest(0, Earliest(end, (d + 1) * OnlineDay) - Latest(start, d * OnlineDay))
    IN  /\ threshold' = th
        /\ IF end <= start
           THEN UNCHANGED <<dailyOnline, onlineUntil>>
           ELSE /\ onlineUntil' = end
                /\ dailyOnline' = [d \in AllDays |->
                                      IF d < moment \div OnlineDay - KeptDays THEN 0
                                      ELSE dailyOnline[d] + Share(d)]
        /\ covered' = covered \cup moment..(end - 1)
        /\ UNCHANGED <<moment, since>>

(* A report may declare another interval; basic information declares none.  *)
OnlineNext == MomentPasses \/ \E th \in Thresholds : Contact(th)

OnlineSpec == OnlineInit /\ [][OnlineNext]_onlineVars
-----------------------------------------------------------------------------
(* dailyOnlineStatus: the grace that lies ahead is taken off again.         *)
OnlineTime(d) ==
    LET end  == Earliest(moment, (d + 1) * OnlineDay)
        Tail == Earliest(onlineUntil, (d + 1) * OnlineDay) - Latest(moment, d * OnlineDay)
    IN  Latest(0, Earliest(dailyOnline[d] - Latest(0, Tail), end - d * OnlineDay))

OnlineStatus(d) ==
    LET end == Earliest(moment, (d + 1) * OnlineDay)
    IN  IF d * OnlineDay > moment THEN "future"
        ELSE IF since > d * OnlineDay THEN "unknown"
        ELSE IF OnlineTime(d) = 0 THEN "offline"
        ELSE IF OnlineTime(d) >= end - d * OnlineDay THEN "online"
        ELSE "partial"

(* What the panel shows of a day is the time up to now that contacts stand  *)
(* for, counted once however they overlap, cross midnight or change their   *)
(* interval; a day shown as online had no gap, one shown as offline no      *)
(* contact (traffic_history.go:124, 161).                                   *)
OnlineExact ==
    \A d \in (moment \div OnlineDay - KeptDays)..(moment \div OnlineDay) \cap AllDays :
        LET past == {m \in Moments(d) : m < moment}
        IN  /\ OnlineTime(d) = Cardinality(covered \cap past)
            /\ OnlineStatus(d) = "online" => past \subseteq covered
            /\ OnlineStatus(d) = "offline" => covered \cap past = {}
=============================================================================
