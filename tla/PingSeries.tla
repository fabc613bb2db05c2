------------------------------ MODULE PingSeries ------------------------------
(***************************************************************************)
(* The measurements of one ping target of one node (internal/store:        *)
(* ping_history.go, ping_data.go, persistence.go, snapshot.go and the load *)
(* in store.go).  A series is what one host and one method measured; a new *)
(* method, or another host under the target's name, begins a new one.      *)
(* Memory holds the series, a short preview and the window of a day;       *)
(* samples wait in a queue for the flusher, reports and edits of the       *)
(* targets go on during its transactions, and after a crash all of it is   *)
(* built again from what the disk has.  The unit of time is the sample     *)
(* interval.  Runs are shorter than a day, so nothing is too old.          *)
(***************************************************************************)
EXTENDS Integers, Sequences, FiniteSetsExt, SequencesExt

CONSTANTS Hosts, Methods,
          Absent,       \* the host of a name that is no target
          Unmeasured,   \* the method of a series without a sample
          Pending,      \* maxPendingHistorySamples
          PreviewCap,   \* samples in a preview (24)
          Interval,     \* PingSampleIntervalSec
          FreshFor,     \* PingResultMaxAge
          MaxMinute, MaxEdits, MaxPingCrashes  \* bounds

ASSUME PingAssumption ==
    /\ Absent \notin Hosts /\ Unmeasured \notin Methods
    /\ Pending \in Nat \ {0} /\ PreviewCap \in Nat \ {0} /\ FreshFor \in Nat /\ Interval \in Nat
    /\ MaxMinute \in Nat /\ MaxEdits \in Nat /\ MaxPingCrashes \in Nat

VARIABLES minute,
          probe,     \* in memory: host, series, preview and window of the name
          queue,   \* pendingSamples
          tx,        \* the transaction under way, with the copies it was begun with
          stored,    \* on disk: host and series of the node, its row of
                     \* ping_observations, its rows of ping_history by time
          newest,    \* history: the latest measurement that came in, and
          overtaken, \*   whether an older one came in after it
          edits, restarts

pingVars == <<minute, probe, queue, tx, stored, newest, overtaken, edits, restarts>>

NoSeries == [host |-> Absent, method |-> Unmeasured, start |-> 0, last |-> 0]
NoTx     == [kind |-> "none"]
Begun(h) == [host |-> h, method |-> Unmeasured, start |-> minute, last |-> 0]
Blank(h, m) == [host |-> h, method |-> m, at |-> {}]

(* pruneNodePingLocked for host h of the name: its series goes on only if   *)
(* it was of this host.                                                     *)
Pruned(p, h) ==
    IF h = Absent
    THEN [host |-> h, series |-> NoSeries, preview |-> {}, window |-> Blank(Absent, Unmeasured)]
    ELSE LET s == IF p.series.host = h THEN p.series ELSE Begun(h)
             same == p.window.host = h /\ p.window.method = s.method
             fits == {x \in p.preview : /\ x.host = h /\ x.at >= s.start
                                        /\ s.method \in {Unmeasured, x.method}}
         IN  [host |-> h, series |-> s, preview |-> fits,
              window |-> IF same THEN p.window ELSE Blank(h, s.method)]

Vacant == [host |-> Absent, series |-> NoSeries, preview |-> {},
           window |-> Blank(Absent, Unmeasured)]

PingInit ==
    /\ minute = 1
    /\ \E h \in Hosts : /\ probe = Pruned(Vacant, h)
                        /\ stored = [host |-> h, series |-> Begun(h),
                                     observation |-> Begun(h), rows |-> {}]
    /\ queue = <<>> /\ tx = NoTx
    /\ newest = [method |-> Unmeasured, at |-> 0] /\ overtaken = FALSE /\ edits = 0 /\ restarts = 0

MinutePasses ==
    /\ minute < MaxMinute
    /\ minute' = minute + 1
    /\ UNCHANGED <<probe, queue, tx, stored, newest, overtaken, edits, restarts>>
-----------------------------------------------------------------------------
\* Mutant: the samples of the other method are not dropped.
ObservedMixed(p, m, at) ==
    IF p.series.method = m THEN p
    ELSE [p EXCEPT !.series = [host |-> p.host, method |-> m, start |-> at, last |-> 0],
                   !.window.method = m]

(* recordPingObservationLocked: another method begins a new series, the     *)
(* first one sets when this one began.                                      *)
Observed(p, m, at) ==
    IF p.series.method \notin {Unmeasured, m}
    THEN [p EXCEPT !.series = [host |-> p.host, method |-> m, start |-> at, last |-> 0],
                   !.preview = {}, !.window = Blank(p.host, m)]
    ELSE IF p.series.method = Unmeasured
    THEN [p EXCEPT !.series.method = m, !.series.start = at, !.window.method = m]
    ELSE p

LastN(S) == {x \in S : Cardinality({y \in S : y.at > x.at}) < PreviewCap}

(* ingestReportAt with a result of the target that is new enough; it is     *)
(* kept at most once a minute, and only if the queue has a place.           *)
Result(m, at) ==
    /\ probe.host # Absent /\ at >= probe.series.last
    /\ at = newest.at => m = newest.method
    /\ LET p == Observed(probe, m, at)
           sample == [host |-> p.host, method |-> m, at |-> at]
           due == \A x \in p.preview : x.at + Interval <= at
       IN  IF due /\ Len(queue) < Pending
           THEN /\ probe' = [p EXCEPT
                      !.preview = LastN(@ \cup {sample}),
                      !.window.at = IF \A t \in @ : t < at THEN @ \cup {at} ELSE @,
                      !.series.last = at]
                /\ queue' = Append(queue, [sample |-> sample, start |-> p.series.start])
           ELSE probe' = p /\ UNCHANGED queue
    /\ newest' = IF at > newest.at THEN [method |-> m, at |-> at] ELSE newest
    /\ overtaken' = (overtaken \/ at < newest.at)
    /\ UNCHANGED <<minute, tx, stored, edits, restarts>>
-----------------------------------------------------------------------------
(* pingObservationUpsert: a row of ping_observations is never taken back.   *)
Upsert(row, s) == IF s.last >= row.last THEN s ELSE row

Written(d, q) ==
    [d EXCEPT !.rows = {r \in @ : r.at # q.sample.at} \cup {q.sample},
              !.observation = Upsert(@, [host |-> q.sample.host, method |-> q.sample.method,
                                         start |-> q.start, last |-> q.sample.at])]

(* filterHistorySamples: of the queue that was copied, only the samples of  *)
(* the target that was copied with it are written.                          *)
Filtered(d, q) == IF q.sample.host = tx.probe.host THEN Written(d, q) ELSE d

(* SaveContext or flushHistoryContext: copies, then the transaction.        *)
BeginFlush(kind) ==
    /\ tx = NoTx
    /\ kind = "history" => queue # <<>>
    /\ tx' = [kind |-> kind, probe |-> probe, batch |-> queue]
    /\ UNCHANGED <<minute, probe, queue, stored, newest, overtaken, edits, restarts>>

(* UpdateNodeWithOptionsContext with other targets: a copy of the node is   *)
(* changed and stored, ...                                                  *)
BeginTargetEdit(h) ==
    /\ tx = NoTx /\ edits < MaxEdits /\ h # probe.host
    /\ tx' = [kind |-> "edit", probe |-> Pruned(probe, h), batch |-> <<>>]
    /\ edits' = edits + 1
    /\ UNCHANGED <<minute, probe, queue, stored, newest, overtaken, restarts>>

(* saveSnapshotRowsContext: a changed target takes the rows of the old one  *)
(* with it, then the series, the preview and the queue are written.         *)
SnapshotRows(d, p) ==
    LET kept == IF p.host = d.host THEN d
                ELSE [d EXCEPT !.rows = {r \in @ : r.host = p.host},
                               !.observation = IF @.host = p.host THEN @ ELSE NoSeries]
    IN  [host |-> p.host, series |-> p.series,
         observation |-> IF p.host = Absent THEN kept.observation
                         ELSE Upsert(kept.observation, p.series),
         rows |-> {r \in kept.rows : \A x \in p.preview : x.at # r.at} \cup p.preview]

Commit ==
    /\ tx # NoTx
    /\ stored' = FoldLeft(Filtered,
                          IF tx.kind = "history" THEN stored ELSE SnapshotRows(stored, tx.probe),
                          tx.batch)
    (* ... and the change is made again on the node as it is by now.        *)
    /\ probe' = IF tx.kind = "edit" THEN Pruned(probe, tx.probe.host) ELSE probe
    /\ queue' = SubSeq(queue, Len(tx.batch) + 1, Len(queue))
    /\ tx' = NoTx
    /\ UNCHANGED <<minute, newest, overtaken, edits, restarts>>

TxFails ==
    /\ tx # NoTx
    /\ tx' = NoTx
    /\ UNCHANGED <<minute, probe, queue, stored, newest, overtaken, edits, restarts>>
-----------------------------------------------------------------------------
Times(R) == {r.at : r \in R}
LatestOf(R) == CHOOSE r \in R : \A x \in R : x.at <= r.at

(* Store.load of the name: the observation that saw the later sample, its   *)
(* method, a start from the rows when there is none, and the rows since.    *)
Reloaded(d) ==
    IF d.host = Absent THEN Vacant ELSE
    LET h      == d.host
        ofHost == {r \in d.rows : r.host = h}
        found  == IF d.observation.host = h /\ d.observation.start > 0
                     /\ d.observation.last >= d.series.last
                  THEN d.observation ELSE d.series
        known  == found.host = h /\ found.start > 0
        method == IF known /\ found.method # Unmeasured THEN found.method
                  ELSE IF ofHost = {} THEN Unmeasured ELSE LatestOf(ofHost).method
        ofSeries == {r \in ofHost : r.method = method}
        recent   == {r \in ofSeries : \A x \in ofHost : x.method # method => r.at > x.at}
        series   == IF known /\ found.method = method THEN found
                    ELSE [host |-> h, method |-> method, last |-> 0,
                          start |-> IF recent = {} THEN minute ELSE Min(Times(recent))]
        complete == IF series.last = 0 /\ ofSeries # {}
                    THEN [series EXCEPT !.last = Max(Times(ofSeries))] ELSE series
        since    == {r \in IF method = Unmeasured THEN ofHost ELSE ofSeries :
                        r.at >= complete.start}
    IN  Pruned([host |-> h, series |-> complete, preview |-> LastN(since),
                window |-> [host |-> h, method |-> method, at |-> Times(since)]], h)

PingCrash ==
    /\ restarts < MaxPingCrashes
    /\ restarts' = restarts + 1
    /\ probe' = Reloaded(stored)
    /\ queue' = <<>> /\ tx' = NoTx
    /\ UNCHANGED <<minute, stored, newest, overtaken, edits>>
-----------------------------------------------------------------------------
PingNext ==
    \/ MinutePasses
    \/ \E m \in Methods : \E at \in Max({1, minute - FreshFor})..minute : Result(m, at)
    \/ \E kind \in {"save", "history"} : BeginFlush(kind)
    \/ \E h \in Hosts \cup {Absent} : BeginTargetEdit(h)
    \/ Commit \/ TxFails \/ PingCrash

PingSpec == PingInit /\ [][PingNext]_pingVars
-----------------------------------------------------------------------------
(* Once a series has a sample and the queue has drained, a restart finds    *)
(* the series and every sample that memory shows of it.                     *)
ReloadExact ==
    tx = NoTx /\ queue = <<>> /\ probe.series.last > 0 /\ ~overtaken =>
        /\ Reloaded(stored).series = probe.series
        /\ probe.preview \subseteq Reloaded(stored).preview
        /\ probe.window.at \subseteq Reloaded(stored).window.at
=============================================================================
