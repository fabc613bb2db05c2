-------------------------- MODULE TrafficAccounting --------------------------
(***************************************************************************)
(* The traffic of one node (internal/store/traffic.go, traffic_history.go, *)
(* ingestReportAt and UpdateNodeWithOptionsContext in store.go).  A host   *)
(* reports raw counters of its interfaces; the panel charges what was      *)
(* added since the report before to the billing cycle and to the days.     *)
(* Counters start again when the host or an interface does, the host's     *)
(* clock is off and is set, reports are lost and overtaken, edits of the   *)
(* node commit while reports come in, and a crash brings back the node     *)
(* that was saved last.  A unit of time is the two minutes within which a  *)
(* sample time is believed; days and months are short.  Reports carry the  *)
(* counters of each interface, as this repository's agent sends them.      *)
(***************************************************************************)
EXTENDS Integers, Sequences, FiniteSets, Functions

CONSTANTS Interfaces,
          Months,        \* days of the months the clock runs through
          DayLength,
          KeepDays,      \* trafficDailyRetentionDays
          ResetDays,     \* days of the month a cycle may begin on
          Offsets,       \* how far the host's clock may be off
          FirstTime, LastTime, MaxBytes, MaxFlight, MaxIncidents \* bounds

ASSUME TrafficAssumption ==
    /\ IsFiniteSet(Interfaces)
    /\ Months \in Seq(Nat \ {0}) /\ Len(Months) >= 2
    /\ {DayLength, KeepDays} \subseteq Nat \ {0}
    /\ ResetDays \subseteq Nat \ {0} /\ Offsets \subseteq Int /\ 0 \in Offsets
    /\ {FirstTime, LastTime, MaxBytes, MaxFlight, MaxIncidents} \subseteq Nat
    /\ FirstTime <= LastTime

VARIABLES time,
          host,      \* boot, when it booted, its counters, those it reports, its clock,
                     \* history: how often it changed
          sent,      \* history: the bytes that were sent in truth
          flight,    \* reports on their way
          node,      \* the panel's account
          saved,     \* as the database has it
          edit,      \* an edit whose transaction runs
          incidents  \* reboots, clocks set, edits, crashes so far

trafficVars == <<time, host, sent, flight, node, saved, edit, incidents>>

Never     == -1                      \* no time
NoReport  == [at |-> Never]
NoEdit    == [reset |-> Never]
Total(f)  == FoldFunction(+, 0, f)
Days      == 0..((LastTime + 1) \div DayLength)
DayOf(t)  == t \div DayLength
Later(s, t) == IF s < t THEN t ELSE s
-----------------------------------------------------------------------------
(* GetBillingCycleRange: the day of the month a cycle begins on, or the     *)
(* last day of a shorter month.                                             *)
FirstDay(m)   == Total([i \in 1..(m - 1) |-> Months[i]])
MonthOf(t)    == CHOOSE m \in DOMAIN Months :
                    FirstDay(m) <= DayOf(t) /\ DayOf(t) < FirstDay(m) + Months[m]

StartIn(r, m) == (FirstDay(m) + (IF r > Months[m] THEN Months[m] ELSE r) - 1) * DayLength

Believed   == (FirstDay(2) * DayLength)..(LastTime + 1)

(* The calendar goes on before and after the time looked at, and the days   *)
(* of a month are kept (180 of them in the code).                           *)
ASSUME CalendarAssumption ==
    /\ FirstDay(2) * DayLength < FirstTime
    /\ DayOf(LastTime + 1) < FirstDay(Len(Months))
    /\ \A m \in 1..Len(Months) : Months[m] <= KeepDays

\* Mutant: the end of a cycle is not moved to the last day of a short month.
RangeEndUnclamped == [r \in ResetDays |-> [t \in Believed |->
    LET m == MonthOf(t)
        Unclamped(k) == (FirstDay(k) + r - 1) * DayLength
    IN  IF t >= StartIn(r, m) THEN <<StartIn(r, m), Unclamped(m + 1)>>
        ELSE <<StartIn(r, m - 1), Unclamped(m)>>]]

CycleRange == [r \in ResetDays |-> [t \in Believed |->
    LET m == MonthOf(t)
    IN  IF t >= StartIn(r, m) THEN <<StartIn(r, m), StartIn(r, m + 1)>>
        ELSE <<StartIn(r, m - 1), StartIn(r, m)>>]]
CycleStart(r, t) == CycleRange[r][t][1]

TrafficInit ==
    /\ time = FirstTime
    /\ \E S \in SUBSET Interfaces \ {{}} :
          host = [boot |-> 0, since |-> FirstTime, raw |-> [i \in Interfaces |-> 0],
                  selected |-> S, offset |-> 0, changes |-> 0]
    /\ sent = 0 /\ flight = {} /\ edit = NoEdit /\ incidents = 0
    /\ \E r \in ResetDays :
          node = [last |-> NoReport, seen |-> Never, baseline |-> FALSE,
                  start |-> CycleStart(r, FirstTime), used |-> 0, manual |-> Never,
                  daily |-> [d \in Days |-> 0], reset |-> r,
                  newest |-> [sent |-> 0, changes |-> 0],
                  corrected |-> FALSE, unordered |-> FALSE, rewound |-> FALSE]
    /\ saved = node

Incident == incidents < MaxIncidents /\ incidents' = incidents + 1
-----------------------------------------------------------------------------
(* The order reports were made in: with as many bytes sent and as many      *)
(* changes of the host before them, they tell the same.                     *)
Older(a, b) == a.sent < b.sent \/ a.changes < b.changes

(* Time passes; a post comes in soon or not at all.                         *)
TrafficTick ==
    /\ time < LastTime
    /\ \A r \in flight : r.sentAt = time
    /\ time' = time + 1
    /\ UNCHANGED <<host, sent, flight, node, saved, edit, incidents>>

Transfer(i) ==
    /\ sent < MaxBytes
    /\ sent' = sent + 1
    /\ host' = [host EXCEPT !.raw[i] = @ + 1]
    /\ UNCHANGED <<time, flight, node, saved, edit, incidents>>

Reboot ==
    /\ Incident
    /\ host' = [host EXCEPT !.boot = @ + 1, !.since = time, !.changes = @ + 1,
                            !.raw = [i \in Interfaces |-> 0]]
    /\ UNCHANGED <<time, sent, flight, node, saved, edit>>

(* An interface is made again, perhaps with bytes it had.                   *)
Recreate(i) ==
    /\ Incident
    /\ \E b \in 0..(host.raw[i] - 1) : host' = [host EXCEPT !.raw[i] = b,
                                                                   !.changes = @ + 1]
    /\ UNCHANGED <<time, sent, flight, node, saved, edit>>

(* The agent is started for other interfaces, or the clock is set.          *)
Reconfigure(S, o) ==
    /\ Incident
    /\ <<S, o>> # <<host.selected, host.offset>>
    /\ host' = [host EXCEPT !.selected = S, !.offset = o, !.changes = @ + 1]
    /\ UNCHANGED <<time, sent, flight, node, saved, edit>>

SendReport ==
    /\ Cardinality(flight) < MaxFlight
    /\ flight' = flight \cup {[at |-> time + host.offset, uptime |-> time - host.since,
                               boot |-> host.boot,
                               sentAt |-> time, sent |-> sent, changes |-> host.changes,
                               counters |-> [i \in host.selected |-> host.raw[i]]]}
    /\ UNCHANGED <<time, host, sent, node, saved, edit, incidents>>

Lose ==
    /\ \E r \in flight : flight' = flight \ {r}
    /\ UNCHANGED <<time, host, sent, node, saved, edit, incidents>>
-----------------------------------------------------------------------------
(* trafficSampleTime, with a limit of one unit of time.                     *)
SampleTime(at, received) == IF received - at \in -1..1 THEN at ELSE received

(* checkCycleRollover.                                                      *)
Rollover(n, t) ==
    IF n.start < CycleStart(n.reset, t)
    THEN [n EXCEPT !.start = CycleStart(n.reset, t), !.used = 0, !.manual = Never,
                   !.corrected = FALSE]
    ELSE n

\* Mutant: what a counter holds after it began again is charged.
DeltaRecounted(r, last) ==
    Total([i \in DOMAIN r.counters \cap DOMAIN last.counters |->
              IF r.counters[i] >= last.counters[i] THEN r.counters[i] - last.counters[i]
              ELSE r.counters[i]])

(* networkCounterDelta of the interfaces both reports have.                 *)
Delta(r, last) ==
    Total([i \in DOMAIN r.counters \cap DOMAIN last.counters |->
              Later(0, r.counters[i] - last.counters[i])])

(* recordDailyTraffic: each day gets the difference of its cumulative       *)
(* shares, and old days go.                                                 *)
Daily(daily, delta, from, to) ==
    LET Cutoff     == (DayOf(to) - KeepDays) * DayLength
        Portion(t) == (delta * (t - from)) \div (to - from)
        Bound(t)   == IF t > to THEN to ELSE Later(t, Later(from, Cutoff))
    IN  IF from = Never \/ to <= from THEN daily
        ELSE [d \in Days |-> IF d * DayLength < Cutoff THEN 0
                             ELSE daily[d] + Portion(Bound((d + 1) * DayLength))
                                           - Portion(Bound(d * DayLength))]

\* Mutant: the cycle gets all that its first report brings.
ShareUnsplit(delta, start, from, to) == IF to <= start THEN 0 ELSE delta

(* currentCycleDelta: the share after the boundary, rounded.                *)
CycleShare(delta, start, from, to) ==
    IF from = Never \/ to <= from \/ from >= start THEN delta
    ELSE IF to <= start THEN 0
    ELSE (2 * delta * (to - start) + (to - from)) \div (2 * (to - from))

(* An overtaken report, unless the host booted or its clock was             *)
(* set back.                                                                *)
Stale(r, last) ==
    last # NoReport /\ r.boot = last.boot /\ r.at <= last.at
    /\ ~(r.at < last.at /\ r.uptime > last.uptime)

Comparable(r, last) == last # NoReport /\ r.boot = last.boot /\ r.at > last.at

(* ingestReportAt; the sample time of the report before is judged by when   *)
(* the node was seen last.                                                  *)
Charge(n, r) ==
    LET from  == SampleTime(n.last.at, n.seen)
        to    == SampleTime(r.at, time)
        known == n.baseline /\ Comparable(r, n.last)
        delta == IF known THEN Delta(r, n.last) ELSE 0
        rolled == Rollover(n, to)
        start == Later(rolled.start, rolled.manual)
    IN  [rolled EXCEPT
            !.last = r, !.seen = time, !.baseline = TRUE,
            !.daily = IF known THEN Daily(@, delta, from, to) ELSE @,
            !.used = IF delta > 0 THEN @ + CycleShare(delta, start, from, to) ELSE @,
            !.manual = IF to >= @ THEN Never ELSE @,
            !.unordered = @ \/ to > time \/ (delta > 0 /\ to <= from),
            !.newest = IF Older(@, r) THEN [sent |-> r.sent, changes |-> r.changes] ELSE @,
            !.rewound = @ \/ (known /\ (Older(r, n.last) \/ Older(n.last, n.newest)))]

Receive ==
    /\ \E r \in flight :
          /\ flight' = flight \ {r}
          /\ node' = IF Stale(r, node.last) THEN node ELSE Charge(node, r)
    /\ UNCHANGED <<time, host, sent, saved, edit, incidents>>

(* IngestBasicInfo.                                                         *)
BasicSeen ==
    /\ node.seen # time /\ node.last # NoReport
    /\ node' = [node EXCEPT !.seen = time]
    /\ UNCHANGED <<time, host, sent, flight, saved, edit, incidents>>
-----------------------------------------------------------------------------
(* changeResetDay: the days of the new cycle make its use.                  *)
ChangeResetDay(n, r) ==
    LET start == CycleStart(r, time)
    IN  IF n.start = start THEN [n EXCEPT !.reset = r]
        ELSE [n EXCEPT !.reset = r, !.start = start, !.manual = Never, !.corrected = FALSE,
                       !.used = Total([d \in {e \in Days : DayOf(start) <= e /\ e <= DayOf(time)}
                                          |-> n.daily[d]])]

(* applyNodeOptionsLocked: a reset day, and a correction of the use, which  *)
(* starts to count again.                                                   *)
ApplyOptions(n, e) ==
    LET moved == ChangeResetDay(Rollover(n, time), e.reset)
    IN  IF e.correct THEN [moved EXCEPT !.used = 0, !.manual = time, !.corrected = TRUE]
        ELSE moved

(* UpdateNodeWithOptionsContext: the copy is stored while reports come in,  *)
BeginNodeEdit(r, c) ==
    /\ edit = NoEdit /\ Incident
    /\ edit' = [reset |-> r, correct |-> c, used |-> node.used, start |-> node.start,
                copy |-> ApplyOptions(node, [reset |-> r, correct |-> c])]
    /\ UNCHANGED <<time, host, sent, flight, node, saved>>

EditFails ==
    /\ edit # NoEdit
    /\ edit' = NoEdit
    /\ UNCHANGED <<time, host, sent, flight, node, saved, incidents>>

(* and the change is made again on the live node, whose use meanwhile stays.*)
EndEdit ==
    /\ edit # NoEdit
    /\ LET meanwhile == IF node.start = edit.start THEN Later(0, node.used - edit.used)
                        ELSE node.used
           applied   == ApplyOptions(node, edit)
       IN  node' = IF edit.correct THEN [applied EXCEPT !.used = meanwhile] ELSE applied
    /\ saved' = edit.copy
    /\ edit' = NoEdit
    /\ UNCHANGED <<time, host, sent, flight, incidents>>

(* A flush, and a crash.                                                    *)
SaveNode ==
    /\ saved # node /\ edit = NoEdit
    /\ saved' = node
    /\ UNCHANGED <<time, host, sent, flight, node, edit, incidents>>

PanelCrash ==
    /\ Incident
    /\ node' = saved /\ edit' = NoEdit
    /\ UNCHANGED <<time, host, sent, flight, saved>>
-----------------------------------------------------------------------------
TrafficNext ==
    \/ TrafficTick \/ Reboot \/ SendReport \/ Lose \/ Receive \/ BasicSeen
    \/ \E i \in Interfaces : Transfer(i) \/ Recreate(i)
    \/ \E S \in SUBSET Interfaces \ {{}}, o \in Offsets : Reconfigure(S, o)
    \/ \E r \in ResetDays, c \in BOOLEAN : BeginNodeEdit(r, c)
    \/ EditFails \/ EndEdit \/ SaveNode \/ PanelCrash

TrafficSpec == TrafficInit /\ [][TrafficNext]_trafficVars
-----------------------------------------------------------------------------
InCycle == Total([d \in {e \in Days : DayOf(node.start) <= e} |-> node.daily[d]])

(* No byte is charged to two days, and none that was not sent: not when     *)
(* counters begin again, reports overtake each other, the clock is          *)
(* set, or a crash takes the account back.  Left out is what was charged    *)
(* from or to a report that one sent after it overtook, and that passes for *)
(* a newer one: the clock was set back between them, or the host booted     *)
(* (traffic.go:63, store.go:1188, traffic_history.go:13).                   *)
NoByteTwice == ~node.rewound => Total(node.daily) <= sent

(* The use of the cycle and the days of the cycle agree, to one byte of     *)
(* rounding at its start: across the rollover, a new reset day, an edit     *)
(* that commits while reports come in, a crash.  Left out are a cycle that  *)
(* was corrected by hand, and an account that saw sample times out of order *)
(* or ahead of the panel's clock (traffic.go:40, 101, store.go:992).        *)
DaysMatchCycle ==
    ~node.unordered /\ ~node.corrected => node.used \in (InCycle - 1)..InCycle

(* Cycles follow each other without a gap, whatever day they begin on       *)
(* (store.go:632).                                                          *)
CyclesTile ==
    \A r \in ResetDays :
        LET start == CycleRange[r][time][1]
            end   == CycleRange[r][time][2]
        IN  /\ start <= time /\ time < end
            /\ end \in Believed => CycleStart(r, end) = end
            /\ \A t \in (start..(end - 1)) \cap Believed : CycleRange[r][t] = <<start, end>>
=============================================================================
