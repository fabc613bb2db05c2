--------------------------- MODULE HistoryRollup ---------------------------
(***************************************************************************)
(* Hourly summaries of the history tables (internal/store:                 *)
(* history_rollups.go, resource_rollup_query.go, ping_rollup_query.go).    *)
(*                                                                         *)
(* A job turns each finished day into one summary row per hour and series  *)
(* and moves the watermark completed_before past it.  A raw row written,   *)
(* changed or deleted below the watermark makes its hour dirty, in the     *)
(* same transaction, through SQLite triggers; the job later repairs dirty  *)
(* hours one at a time.  A long query mixes summaries of clean hours with  *)
(* raw rows for everything else.                                           *)
(*                                                                         *)
(* A summary is the set of raw rows it was computed from, so a summary is  *)
(* right exactly when that set still is the hour's raw rows; the table     *)
(* history_rollups is then one set, rolled, and a row of it is the part of *)
(* rolled in one hour of one series.  A time is [hour, part], part being   *)
(* the place inside the hour; Beijing days are DayHours whole hours.       *)
(* persistMu serialises every writer here, so a transaction is one step.   *)
(***************************************************************************)
EXTENDS Integers, FiniteSets

CONSTANTS Nodes, PingTargets, Resource,  \* series of a node: targets, metrics
          Values,     \* measured values
          Parts,      \* number of distinct instants in an hour
          DayHours,   \* hours in a day
          Retention,  \* hours kept: pingHistoryRetentionSec = resourceHistory..
          FirstHour,  \* the clock's first hour
          LastHour,   \* bound: the clock's last hour
          Lag,        \* bound: a sample is written at most Lag hours late
          MaxWrites   \* bound: raw rows written

Hours == 0..LastHour
Time == [hour: Hours, part: 0..(Parts - 1)]
Series == PingTargets \cup {Resource}
Kinds == {"ping", "resource"}
Sample == [node: Nodes, series: Series, at: Time, value: Values]

ASSUME RollupAssumption ==
    /\ Parts \in Nat \ {0} /\ DayHours \in Nat \ {0} /\ Retention \in Nat
    /\ FirstHour \in Nat /\ LastHour \in Nat /\ FirstHour <= LastHour
    \* 0 in completed_before means "never run"; Unix times are far from it.
    /\ FirstHour >= Retention + DayHours
    /\ Resource \notin PingTargets
    /\ Lag \in Nat /\ MaxWrites \in Nat

VARIABLES now,              \* the wall clock
          nodes,            \* rows of table nodes
          raw,              \* ping_history and resource_history
          rolled,           \* history_rollups
          dirty,            \* history_rollup_dirty
          completedBefore,  \* history_rollup_state.completed_before, in hours
          cleanup,          \* next table of the hourly cleanup, or "idle"
          writes            \* raw rows written so far

vars == <<now, nodes, raw, rolled, dirty, completedBefore, cleanup, writes>>

KindOf(s) == IF s = Resource THEN "resource" ELSE "ping"
DirtyHour(x) == <<x.node, KindOf(x.series), x.at.hour>>
DayStart(h) == h - (h % DayHours)
Today == DayStart(now.hour)
Least(a, b) == IF a <= b THEN a ELSE b
Greatest(a, b) == IF a >= b THEN a ELSE b

Earlier(a, b) == \/ a.hour < b.hour
                 \/ a.hour = b.hour /\ a.part < b.part

(* The oldest instant the retention keeps.                                  *)
Horizon == [hour |-> now.hour - Retention, part |-> now.part]
Expired(x) == Earlier(x.at, Horizon)

TypeOK ==
    /\ now \in Time /\ now.hour >= FirstHour
    /\ nodes \subseteq Nodes
    /\ raw \subseteq Sample /\ rolled \subseteq Sample
    /\ dirty \subseteq Nodes \X Kinds \X Hours
    /\ completedBefore \in 0..Today
    /\ cleanup \in {"idle", "resource", "rollups"}
    /\ writes \in Nat
-----------------------------------------------------------------------------
Init ==
    /\ now = [hour |-> FirstHour, part |-> 0]
    /\ nodes = Nodes
    /\ raw = {} /\ rolled = {} /\ dirty = {}
    /\ completedBefore = 0
    /\ cleanup = "idle"
    /\ writes = 0

(* The triggers: hours below the watermark of the rows that differ between  *)
(* the raw tables before and after a transaction.                           *)
Invalidated(before, after) ==
    {DirtyHour(x) : x \in {y \in (before \ after) \cup (after \ before) :
                             y.at.hour < completedBefore}}

Idle == cleanup = "idle"

(* A flushed sample: an UPSERT on (node, series, timestamp).                *)
WriteSample(x) ==
    LET replaced == {y \in raw : /\ y.node = x.node
                                 /\ y.series = x.series
                                 /\ y.at = x.at}
    IN /\ Idle
       /\ writes < MaxWrites
       /\ x.node \in nodes
       /\ ~Earlier(now, x.at)
       /\ x.at.hour >= now.hour - Lag
       /\ raw' = (raw \ replaced) \cup {x}
       /\ dirty' = dirty \cup Invalidated(raw, raw')
       /\ writes' = writes + 1
       /\ UNCHANGED <<now, nodes, rolled, completedBefore, cleanup>>

(* Where the job resumes: the watermark, or on the first run the day of the *)
(* oldest row the retention keeps, but never before the retention.          *)
Recent == {x \in raw : ~Expired(x)}
Earliest(w) ==
    \/ Recent = {} /\ w = Today
    \/ \E x \in Recent : /\ \A y \in Recent : x.at.hour <= y.at.hour
                         /\ w = Least(Today, DayStart(x.at.hour))
Watermark(w) == IF completedBefore = 0 THEN Earliest(w) ELSE w = completedBefore
Resume(r) == \E w \in Hours : Watermark(w) /\ r = Greatest(w, DayStart(now.hour - Retention))

(* rebuildHistoryRollups, for all nodes over some hours or for one repair:  *)
(* the summaries selected are deleted and computed again from raw rows.     *)
Within(table, hours) == {x \in table : x.at.hour \in hours}
OfRepair(table, d) == {x \in table : DirtyHour(x) = d}

\* Mutant: the running day counts as finished.
RollupDayEarly ==
    /\ Idle
    /\ \E start \in Hours :
         LET end == start + DayHours
             day == start..(end - 1)
         IN /\ Resume(start)
            /\ start <= Today
            /\ rolled' = (rolled \ Within(rolled, day)) \cup Within(raw, day)
            /\ dirty' = {d \in dirty : d[3] \notin day}
            /\ completedBefore' = end
    /\ UNCHANGED <<now, nodes, raw, cleanup, writes>>

(* One complete day per transaction.                                        *)
RollupDay ==
    /\ Idle
    /\ \E start \in Hours :
         LET end == Least(start + DayHours, Today)
             day == start..(end - 1)
         IN /\ Resume(start)
            /\ start < Today
            /\ rolled' = (rolled \ Within(rolled, day)) \cup Within(raw, day)
            /\ dirty' = {d \in dirty : d[3] \notin day}
            /\ completedBefore' = end
    /\ UNCHANGED <<now, nodes, raw, cleanup, writes>>

Due == {d \in dirty : d[3] < Today}

\* Mutant: the repaired hour stays in the queue.
RepairHourAgain ==
    /\ Idle
    /\ \E start \in Hours :
         /\ Resume(start)
         /\ start >= Today
         /\ completedBefore' = start
    /\ \E d \in Due :
         /\ \A e \in Due : d[3] <= e[3]
         /\ rolled' = (rolled \ OfRepair(rolled, d)) \cup OfRepair(raw, d)
    /\ UNCHANGED <<now, nodes, raw, dirty, cleanup, writes>>

(* No day is left: the oldest dirty hour of one node and kind, if any.      *)
RepairHour ==
    /\ Idle
    /\ \E start \in Hours :
         /\ Resume(start)
         /\ start >= Today
         /\ completedBefore' = start
    /\ \E d \in Due :
         /\ \A e \in Due : d[3] <= e[3]
         /\ rolled' = (rolled \ OfRepair(rolled, d)) \cup OfRepair(raw, d)
         /\ dirty' = dirty \ {d}
    /\ UNCHANGED <<now, nodes, raw, cleanup, writes>>

(* Nothing to summarise: only the first watermark is written.               *)
RollupNothing ==
    /\ Idle
    /\ Due = {}
    /\ \E start \in Hours :
         /\ Resume(start)
         /\ start >= Today
         /\ completedBefore' = start
    /\ UNCHANGED <<now, nodes, raw, rolled, dirty, cleanup, writes>>

\* Mutant: no DELETE trigger, an hour cut by the retention stays clean.
PruneRawSilently(gone) ==
    \/ raw' = raw \ gone /\ UNCHANGED dirty
    \/ UNCHANGED <<raw, dirty>>

(* The hourly cleanup: three transactions, each with its own reading of the *)
(* clock; one that fails is logged and the next is still tried.             *)
PruneRaw(gone) ==
    \/ /\ raw' = raw \ gone
       /\ dirty' = dirty \cup Invalidated(raw, raw')
    \/ UNCHANGED <<raw, dirty>>

PrunePing ==
    /\ cleanup = "idle"
    /\ PruneRaw({x \in raw : x.series \in PingTargets /\ Expired(x)})
    /\ cleanup' = "resource"
    /\ UNCHANGED <<now, nodes, rolled, completedBefore, writes>>

PruneResource ==
    /\ cleanup = "resource"
    /\ PruneRaw({x \in raw : x.series = Resource /\ Expired(x)})
    /\ cleanup' = "rollups"
    /\ UNCHANGED <<now, nodes, rolled, completedBefore, writes>>

PruneRollups ==
    /\ cleanup = "rollups"
    /\ \/ /\ rolled' = {x \in rolled : x.at.hour > Horizon.hour - 1}
          /\ dirty' = {d \in dirty : d[3] > Horizon.hour - 1}
       \/ UNCHANGED <<rolled, dirty>>
    /\ cleanup' = "idle"
    /\ UNCHANGED <<now, nodes, raw, completedBefore, writes>>

(* A stop or a crash ends the cleanup where it is.                          *)
Interrupt ==
    /\ cleanup # "idle"
    /\ cleanup' = "idle"
    /\ UNCHANGED <<now, nodes, raw, rolled, dirty, completedBefore, writes>>

(* A target leaves a node's profile: its rows and summaries are deleted     *)
(* with the row of the node; the raw deletions fire the triggers.           *)
DropTarget(n, t) ==
    LET Dropped(x) == x.node = n /\ x.series = t
    IN /\ Idle
       /\ n \in nodes /\ t \in PingTargets
       /\ raw' = {x \in raw : ~Dropped(x)}
       /\ rolled' = {x \in rolled : ~Dropped(x)}
       /\ dirty' = dirty \cup Invalidated(raw, raw')
       /\ UNCHANGED <<now, nodes, completedBefore, cleanup, writes>>

\* Mutant: the queue is cleared first, and nothing holds the triggers back
\* while the rows are deleted.
DeleteNodeUnguarded(n) ==
    /\ Idle
    /\ n \in nodes
    /\ nodes' = nodes \ {n}
    /\ raw' = {x \in raw : x.node # n}
    /\ rolled' = {x \in rolled : x.node # n}
    /\ dirty' = {d \in dirty : d[1] # n} \cup Invalidated(raw, raw')
    /\ UNCHANGED <<now, completedBefore, cleanup, writes>>

(* The deletion guard suppresses the triggers for the deleted node.         *)
DeleteNode(n) ==
    /\ Idle
    /\ n \in nodes
    /\ nodes' = nodes \ {n}
    /\ raw' = {x \in raw : x.node # n}
    /\ rolled' = {x \in rolled : x.node # n}
    /\ dirty' = {d \in dirty : d[1] # n}
    /\ UNCHANGED <<now, completedBefore, cleanup, writes>>

Tick ==
    /\ \E t \in Time : Earlier(now, t) /\ now' = t
    /\ UNCHANGED <<nodes, raw, rolled, dirty, completedBefore, cleanup, writes>>

Job == RollupDay \/ RepairHour \/ RollupNothing

Next == \/ \E x \in Sample : WriteSample(x)
        \/ Job
        \/ PrunePing
        \/ PruneResource
        \/ PruneRollups
        \/ Interrupt
        \/ \E n \in Nodes, t \in PingTargets : DropTarget(n, t)
        \/ \E n \in Nodes : DeleteNode(n)
        \/ Tick

Spec == Init /\ [][Next]_vars

(* The flusher runs the job at least once a minute, and its select picks    *)
(* the job's timer again and again even when other tickers are ready.       *)
Fairness == /\ SF_vars(Job)
            /\ WF_vars(PruneResource)
            /\ WF_vars(PruneRollups)

FairSpec == Spec /\ Fairness
-----------------------------------------------------------------------------
(* The long queries, each inside one read transaction.                      *)
Window(n, s, start, end) ==
    {x \in raw : /\ x.node = n /\ x.series = s
                 /\ ~Earlier(x.at, start) /\ ~Earlier(end, x.at)}

\* Mutant: a window's first partial hour is taken from its summary.
FirstFullRoundedDown(start) == start.hour

(* resourceRollupHours, which the ping query repeats: the full hours of the *)
(* window below the watermark.                                              *)
FirstFull(start) == IF start.part = 0 THEN start.hour ELSE start.hour + 1
LastFull(end) == Least(end.hour, completedBefore)

Clean(x) == DirtyHour(x) \notin dirty

(* readResourceRollupHistory: the summaries and the three raw parts of its  *)
(* UNION ALL.                                                               *)
ResourcePieces(n, start, end) ==
    LET first == FirstFull(start)
        last == LastFull(end)
        rows == Window(n, Resource, start, end)
    IN IF first < last
       THEN [summaries |-> {x \in rolled : /\ x.node = n /\ x.series = Resource
                                           /\ x.at.hour \in first..(last - 1)
                                           /\ Clean(x)},
             head   |-> {x \in rows : x.at.hour < first},
             tail   |-> {x \in rows : x.at.hour >= last},
             repair |-> {x \in rows : x.at.hour \in first..(last - 1) /\ ~Clean(x)}]
       ELSE [summaries |-> {}, head |-> rows, tail |-> {}, repair |-> {}]

\* Mutant: dirty hours keep being read from their old summary.
PingSummariesStale(n, t, start, end) ==
    {x \in rolled : /\ x.node = n /\ x.series = t
                    /\ x.at.hour \in FirstFull(start)..(LastFull(end) - 1)}

(* queryPingHistory walks the hours that have a clean summary and reads raw *)
(* rows between them.                                                       *)
PingSummaries(n, t, start, end) ==
    {x \in rolled : /\ x.node = n /\ x.series = t
                    /\ x.at.hour \in FirstFull(start)..(LastFull(end) - 1)
                    /\ Clean(x)}
PingPieces(n, t, start, end) ==
    LET summaries == PingSummaries(n, t, start, end)
    IN [summaries |-> summaries,
        between |-> {x \in Window(n, t, start, end) :
                       \A y \in summaries : y.at.hour # x.at.hour}]

(* A query takes its end from the clock before its transaction starts.      *)
Asked(start, end) == ~Earlier(end, start) /\ ~Earlier(now, end)

(* The pieces hold every row of the window once and nothing else.           *)
Exact(pieces, rows) ==
    /\ UNION {pieces[p] : p \in DOMAIN pieces} = rows
    /\ \A p, q \in DOMAIN pieces : p # q => pieces[p] \cap pieces[q] = {}
-----------------------------------------------------------------------------
InHourOf(table, n, s, h) ==
    {x \in table : x.node = n /\ x.series = s /\ x.at.hour = h}

(* A clean hour below the watermark has the summary of exactly its raw      *)
(* rows; it may have none if the retention already gave its rows up.        *)
(* Triggers, day and hour rebuilds, retention and target changes all have   *)
(* to agree for this (history_rollups.go:54, 138, 308).                     *)
SummariesCurrent ==
    \A n \in Nodes, s \in Series, h \in 0..(completedBefore - 1) :
        <<n, KindOf(s), h>> \notin dirty =>
            \/ InHourOf(rolled, n, s, h) = InHourOf(raw, n, s, h)
            \/ /\ InHourOf(rolled, n, s, h) = {}
               /\ \A x \in InHourOf(raw, n, s, h) : Expired(x)

(* A resource query over any window the retention keeps counts every raw    *)
(* row of the window once, whatever is summarised, dirty or being repaired  *)
(* (readResourceRollupHistory).                                             *)
ResourceReadExact ==
    \A n \in Nodes, start \in Time, end \in Time :
        ~Earlier(start, Horizon) /\ Asked(start, end) =>
            Exact(ResourcePieces(n, start, end), Window(n, Resource, start, end))

(* The same for a ping query over any window at all (queryPingHistory).     *)
PingReadExact ==
    \A n \in Nodes, t \in PingTargets, start \in Time, end \in Time :
        Asked(start, end) =>
            Exact(PingPieces(n, t, start, end), Window(n, t, start, end))

(* A deleted node leaves no raw row, no summary and no repair to do, in any *)
(* order with the job and the cleanup (deleteNodeContext).                  *)
DeletedLeavesNothing ==
    /\ \A x \in raw \cup rolled : x.node \in nodes
    /\ \A d \in dirty : d[1] \in nodes

(* Once the clock and the writers pause, every finished day is summarised   *)
(* and no repair is left (rollupHistoryBatch, periodicFlusher).             *)
CaughtUp == <>[](completedBefore = Today /\ Due = {})
=============================================================================
