---------------------------- MODULE StorePersist ----------------------------
(***************************************************************************)
(* The monitoring store (internal/store): the live state in memory, the    *)
(* SQLite database, and the operations that move one into the other.       *)
(*                                                                         *)
(* Two locks matter.  persistMu serialises everything that writes the      *)
(* disk; mu guards the live state.  An operation takes persistMu and mu,   *)
(* copies what it needs, RELEASES mu for the transaction, and takes mu     *)
(* again to publish.  Reports need mu only, so they arrive between any two *)
(* of those steps.  The holder of persistMu is the record tx: its phase is *)
(* "open" from the copy to the commit and "committed" from the commit to   *)
(* the publication.  A rolled-back transaction returns its error in the    *)
(* step that rolls back.                                                   *)
(*                                                                         *)
(* A node is [meta, weight, rep]: what the panel edits, the display order, *)
(* and the number of the last report it absorbed, which stands for every   *)
(* field a report changes (counters, traffic, last report, online time).   *)
(* A history sample is [node, at].  Ping targets, which decide what part   *)
(* of a sample set may be stored, are abstracted here.                     *)
(***************************************************************************)
EXTENDS Naturals, FiniteSets

CONSTANTS Nodes,        \* uuids the server can draw
          Metas,        \* values of the metadata edited in the panel
          Cfgs,         \* values of the configuration row
          NoNode,       \* "no such row / no such node"
          Down,         \* the view of a server that does not run
          MaxWeight,    \* bound: weights are drawn from 0..MaxWeight
          MaxReports,   \* bound: reports over the whole behaviour
          MaxPending,   \* maxPendingHistorySamples
          FirstFlushMayFail  \* may a full flush of a running server roll back?

Node == [meta: Metas, weight: Nat, rep: Nat]
NodeOrNone == Node \cup {NoNode}
Sample == [node: Nodes, at: Nat]

ASSUME StoreAssumption ==
    /\ NoNode \notin Node \cup [meta: Metas, weight: Nat]
    /\ IsFiniteSet(Nodes)
    /\ MaxWeight \in Nat
    /\ MaxReports \in Nat
    /\ MaxPending \in Nat
    /\ FirstFlushMayFail \in BOOLEAN

VARIABLES proc,        \* "running", "closing" (Close called), "stopped", "down"
          cfg,         \* Store.config
          nodes,       \* Store.nodes, with tokenIndex
          storeDirty,  \* Store.dirty
          nodeDirty,   \* Node.dirty
          pending,     \* Store.pendingSamples; the queue order is the order of at
          nodeCache,   \* sqliteDB.nodeCache: row last written, per node
          cacheReady,  \* sqliteDB.nodeCache # nil
          tx,          \* the operation that holds persistMu
          diskCfg,     \* table config
          diskNodes,   \* table nodes
          hist,        \* tables ping_history and resource_history
          clock,       \* number of reports received so far
          used,        \* uuids drawn so far
          gone,        \* history: nodes whose deletion was acknowledged
          taken        \* history: samples the store owes the disk

memory == <<cfg, nodes, storeDirty, nodeDirty, pending>>
cache  == <<nodeCache, cacheReady>>
disk   == <<diskCfg, diskNodes, hist>>
ghosts == <<used, gone, taken>>
vars   == <<proc, memory, cache, tx, disk, clock, ghosts>>

None == [n \in Nodes |-> NoNode]
Live == {n \in Nodes : nodes[n] # NoNode}
Alive == proc \in {"running", "closing"}

(* The operation holding persistMu: what it copied under mu.  full is       *)
(* replaceAll, snap the rows to write, batch the samples to write, count    *)
(* the length of the queue, who the nodes an administrative operation is    *)
(* about.                                                                   *)
NoTx == [kind |-> "idle"]
RowKinds == {"flush", "create", "update", "reorder", "config", "close"}
Tx == [kind: RowKinds \cup {"history", "delete", "setting"},
       phase: {"open", "committed"}, full: BOOLEAN, cfg: Cfgs,
       snap: [Nodes -> NodeOrNone], batch: SUBSET Sample, count: Nat,
       who: SUBSET Nodes]

Begin(kind, full, c, snap, batch, who) ==
    tx' = [kind |-> kind, phase |-> "open", full |-> full, cfg |-> c,
           snap |-> snap, batch |-> batch, count |-> Cardinality(pending),
           who |-> who]

Free == Alive /\ tx = NoTx
Open(kinds) == Alive /\ tx.kind \in kinds /\ tx.phase = "open"
Committed(kind) == Alive /\ tx.kind = kind /\ tx.phase = "committed"

(* mu is held through the whole of the final save, and through no other     *)
(* transaction.                                                             *)
MuFree == tx.kind # "close"

TypeOK ==
    /\ proc \in {"running", "closing", "stopped", "down"}
    /\ cfg \in Cfgs /\ diskCfg \in Cfgs
    /\ nodes \in [Nodes -> NodeOrNone] /\ diskNodes \in [Nodes -> NodeOrNone]
    /\ storeDirty \in BOOLEAN /\ nodeDirty \in [Nodes -> BOOLEAN]
    /\ pending \subseteq Sample /\ IsFiniteSet(pending)
    /\ Cardinality(pending) <= MaxPending
    /\ hist \subseteq Sample
    /\ nodeCache \in [Nodes -> NodeOrNone] /\ cacheReady \in BOOLEAN
    /\ tx \in Tx \cup {NoTx}
    /\ clock \in Nat
    /\ used \subseteq Nodes /\ gone \subseteq Nodes
    /\ taken \subseteq Sample
-----------------------------------------------------------------------------
(* New on an empty database: load writes the initial configuration, which   *)
(* also sets an empty node cache, and leaves the store dirty.               *)
Init ==
    /\ proc = "running"
    /\ cfg \in Cfgs /\ diskCfg = cfg
    /\ nodes = None /\ diskNodes = None /\ nodeCache = None
    /\ storeDirty = TRUE /\ cacheReady = TRUE
    /\ nodeDirty = [n \in Nodes |-> FALSE]
    /\ pending = {} /\ hist = {}
    /\ tx = NoTx
    /\ clock = 0
    /\ used = {} /\ gone = {} /\ taken = {}

(* New on an existing database: load reads everything and marks every node  *)
(* dirty; the caches are empty until the first full snapshot.               *)
Start ==
    /\ proc \in {"stopped", "down"}
    /\ proc' = "running"
    /\ cfg' = diskCfg
    /\ nodes' = diskNodes
    /\ storeDirty' = TRUE
    /\ nodeDirty' = [n \in Nodes |-> diskNodes[n] # NoNode]
    /\ pending' = {}
    /\ nodeCache' = None /\ cacheReady' = FALSE
    /\ tx' = NoTx
    /\ UNCHANGED <<disk, clock, ghosts>>

(* Memory is gone: what was queued is no longer owed.                       *)
LoseMemory ==
    /\ proc' = "down"
    /\ cfg' = diskCfg
    /\ nodes' = None /\ nodeCache' = None
    /\ storeDirty' = FALSE /\ cacheReady' = FALSE
    /\ nodeDirty' = [n \in Nodes |-> FALSE]
    /\ pending' = {}
    /\ taken' = taken \ pending
    /\ tx' = NoTx
    /\ UNCHANGED <<disk, clock, used, gone>>

Crash == Alive /\ LoseMemory
-----------------------------------------------------------------------------
(* Agents.  Both handlers find the node by token under mu.  A report is due *)
(* for a history sample when a minute has passed since the last one; a full *)
(* queue refuses the sample and leaves the sampling clock where it was.     *)
Touch(n) ==
    /\ Alive /\ MuFree /\ n \in Live
    /\ clock < MaxReports
    /\ clock' = clock + 1
    /\ nodes' = [nodes EXCEPT ![n].rep = clock + 1]
    /\ storeDirty' = TRUE
    /\ nodeDirty' = [nodeDirty EXCEPT ![n] = TRUE]
    /\ UNCHANGED <<proc, cfg, cache, tx, disk, used, gone>>

IngestBasicInfo(n) == Touch(n) /\ UNCHANGED <<pending, taken>>

(* Mutant: the queue has no limit.                                          *)
IngestReportUnbounded(n) ==
    /\ Touch(n)
    /\ LET sample == [node |-> n, at |-> clock + 1] IN
       pending' = pending \cup {sample} /\ taken' = taken \cup {sample}

IngestReport(n) ==
    /\ Touch(n)
    /\ \/ LET sample == [node |-> n, at |-> clock + 1] IN
          /\ Cardinality(pending) < MaxPending
          /\ pending' = pending \cup {sample}
          /\ taken' = taken \cup {sample}
       \/ UNCHANGED <<pending, taken>>
-----------------------------------------------------------------------------
(* The background flusher: SaveContext every 15 s, flushHistoryContext      *)
(* every second, both stopped by Close.                                     *)
FlushRows == IF cacheReady THEN [n \in Nodes |-> IF \/ nodeDirty[n]
                                                    \/ \E s \in pending : s.node = n
                                                 THEN nodes[n] ELSE NoNode]
                           ELSE nodes

BeginFlush ==
    /\ Free /\ proc = "running"
    /\ storeDirty
    /\ storeDirty' = FALSE
    /\ nodeDirty' = [n \in Nodes |-> FALSE]
    /\ IF cacheReady /\ FlushRows = None
       THEN tx' = NoTx
       ELSE Begin("flush", ~cacheReady, cfg, FlushRows,
                  {s \in pending : FlushRows[s.node] # NoNode}, {})
    /\ UNCHANGED <<proc, cfg, nodes, pending, cache, disk, clock, ghosts>>

BeginHistory ==
    /\ Free /\ proc = "running"
    /\ pending # {}
    /\ Begin("history", FALSE, cfg, None,
             {s \in pending : nodes[s.node] # NoNode}, {})
    /\ UNCHANGED <<proc, memory, cache, disk, clock, ghosts>>

(* ackHistoryLocked drops the count oldest samples, whichever they are.     *)
Oldest(queue, count) ==
    {s \in queue : Cardinality({t \in queue : t.at <= s.at}) <= count}

(* Mutant: the whole queue is dropped, with what arrived meanwhile.         *)
AcknowledgeAll == pending' = {}

Acknowledge == pending' = pending \ Oldest(pending, tx.count)

FinishFlush ==
    /\ Committed("flush")
    /\ Acknowledge
    /\ tx' = NoTx
    /\ UNCHANGED <<proc, cfg, nodes, storeDirty, nodeDirty, cache, disk, clock, ghosts>>

FinishHistory ==
    /\ Committed("history")
    /\ Acknowledge
    /\ tx' = NoTx
    /\ UNCHANGED <<proc, cfg, nodes, storeDirty, nodeDirty, cache, disk, clock, ghosts>>

(* Mutant: the store is not marked again.                                   *)
FailFlushForgotten ==
    /\ Open({"flush"})
    /\ tx.full /\ proc = "running" => FirstFlushMayFail
    /\ nodeDirty' = [n \in Nodes |-> nodeDirty[n] \/ tx.snap[n] # NoNode]
    /\ tx' = NoTx
    /\ UNCHANGED <<proc, cfg, nodes, storeDirty, pending, cache, disk, clock, ghosts>>

(* An incremental flush that rolls back marks its nodes again.  A full one  *)
(* only marks the store.                                                    *)
FailFlush ==
    /\ Open({"flush"})
    /\ tx.full /\ proc = "running" => FirstFlushMayFail
    /\ storeDirty' = TRUE
    /\ nodeDirty' = IF tx.full THEN nodeDirty
                    ELSE [n \in Nodes |-> nodeDirty[n] \/ tx.snap[n] # NoNode]
    /\ tx' = NoTx
    /\ UNCHANGED <<proc, cfg, nodes, pending, cache, disk, clock, ghosts>>
-----------------------------------------------------------------------------
(* Mutant: the new weight only reaches the largest one in use.              *)
BeginCreateTied(n, m) ==
    /\ Free /\ n \notin used
    /\ used' = used \cup {n}
    /\ \E w \in 0..MaxWeight :
        /\ \A p \in Live : nodes[p].weight <= w
        /\ w = 0 \/ \E p \in Live : nodes[p].weight = w
        /\ Begin("create", TRUE, cfg,
                 [nodes EXCEPT ![n] = [meta |-> m, weight |-> w, rep |-> 0]], {}, {n})
    /\ UNCHANGED <<proc, memory, cache, disk, clock, gone, taken>>

(* Administration.  Each operation copies under both locks, ...             *)
BeginCreate(n, m) ==
    /\ Free /\ n \notin used
    /\ used' = used \cup {n}
    /\ \E w \in 1..MaxWeight :
        /\ \A p \in Live : nodes[p].weight < w
        /\ w = 1 \/ \E p \in Live : nodes[p].weight + 1 = w
        /\ Begin("create", TRUE, cfg,
                 [nodes EXCEPT ![n] = [meta |-> m, weight |-> w, rep |-> 0]], {}, {n})
    /\ UNCHANGED <<proc, memory, cache, disk, clock, gone, taken>>

BeginUpdate(n, m) ==
    /\ Free /\ n \in Live
    /\ Begin("update", FALSE, cfg,
             [None EXCEPT ![n] = [nodes[n] EXCEPT !.meta = m]], {}, {n})
    /\ UNCHANGED <<proc, memory, cache, disk, clock, ghosts>>

BeginReorder(order) ==
    /\ Free /\ DOMAIN order # {}
    /\ Begin("reorder", TRUE, cfg,
             [n \in Nodes |-> IF n \in DOMAIN order
                              THEN [nodes[n] EXCEPT !.weight = order[n]]
                              ELSE nodes[n]], {}, {})
    /\ UNCHANGED <<proc, memory, cache, disk, clock, ghosts>>

(* Mutant: the configuration is published before it is saved.               *)
BeginConfigEarly(c) ==
    /\ Free
    /\ Begin("config", TRUE, c, nodes, {}, {})
    /\ cfg' = c
    /\ UNCHANGED <<proc, nodes, storeDirty, nodeDirty, pending, cache, disk, clock, ghosts>>

(* commitConfigLockedContext: settings, Telegram options, the registration  *)
(* window and the choice of a theme.                                        *)
BeginConfig(c) ==
    /\ Free
    /\ Begin("config", TRUE, c, nodes, {}, {})
    /\ UNCHANGED <<proc, memory, cache, disk, clock, ghosts>>

(* SaveSiteIcon and DeleteTheme write the configuration row alone.          *)
BeginSetting(c) ==
    /\ Free
    /\ Begin("setting", FALSE, c, None, {}, {})
    /\ UNCHANGED <<proc, memory, cache, disk, clock, ghosts>>

BeginDelete(n) ==
    /\ Free /\ n \in Live
    /\ Begin("delete", FALSE, cfg, None, {}, {n})
    /\ UNCHANGED <<proc, memory, cache, disk, clock, ghosts>>

AdminKinds == {"create", "update", "reorder", "config", "setting", "delete"}

(* ... publishes nothing when its transaction rolls back, ...               *)
RollBack ==
    /\ Open(AdminKinds \cup {"history"})
    /\ tx' = NoTx
    /\ UNCHANGED <<proc, memory, cache, disk, clock, ghosts>>

(* ... and otherwise applies its change to the live state of that moment.   *)
FinishCreate ==
    /\ Committed("create")
    /\ nodes' = [n \in Nodes |-> IF n \in tx.who THEN tx.snap[n] ELSE nodes[n]]
    /\ storeDirty' = TRUE
    /\ tx' = NoTx
    /\ UNCHANGED <<proc, cfg, nodeDirty, pending, cache, disk, clock, ghosts>>

(* Mutant: the saved copy replaces the live node.                           *)
FinishUpdateStale ==
    /\ Committed("update")
    /\ nodes' = [n \in Nodes |-> IF n \in tx.who THEN tx.snap[n] ELSE nodes[n]]
    /\ storeDirty' = TRUE
    /\ nodeDirty' = [n \in Nodes |-> n \in tx.who \/ nodeDirty[n]]
    /\ tx' = NoTx
    /\ UNCHANGED <<proc, cfg, pending, cache, disk, clock, ghosts>>

FinishUpdate ==
    /\ Committed("update")
    /\ nodes' = [n \in Nodes |-> IF n \in tx.who
                                 THEN [nodes[n] EXCEPT !.meta = tx.snap[n].meta]
                                 ELSE nodes[n]]
    /\ storeDirty' = TRUE
    /\ nodeDirty' = [n \in Nodes |-> n \in tx.who \/ nodeDirty[n]]
    /\ tx' = NoTx
    /\ UNCHANGED <<proc, cfg, pending, cache, disk, clock, ghosts>>

FinishReorder ==
    /\ Committed("reorder")
    /\ nodes' = [n \in Nodes |-> IF n \in Live
                                 THEN [nodes[n] EXCEPT !.weight = tx.snap[n].weight]
                                 ELSE nodes[n]]
    /\ storeDirty' = TRUE
    /\ tx' = NoTx
    /\ UNCHANGED <<proc, cfg, nodeDirty, pending, cache, disk, clock, ghosts>>

FinishConfig ==
    /\ Committed("config")
    /\ cfg' = tx.cfg
    /\ storeDirty' = TRUE
    /\ tx' = NoTx
    /\ UNCHANGED <<proc, nodes, nodeDirty, pending, cache, disk, clock, ghosts>>

FinishSetting ==
    /\ Committed("setting")
    /\ cfg' = tx.cfg
    /\ tx' = NoTx
    /\ UNCHANGED <<proc, nodes, storeDirty, nodeDirty, pending, cache, disk, clock, ghosts>>

(* Mutant: the samples queued for the node stay queued.                     *)
FinishDeleteLeavesQueue ==
    /\ Committed("delete")
    /\ nodes' = [n \in Nodes |-> IF n \in tx.who THEN NoNode ELSE nodes[n]]
    /\ nodeDirty' = [n \in Nodes |-> n \notin tx.who /\ nodeDirty[n]]
    /\ gone' = gone \cup tx.who
    /\ tx' = NoTx
    /\ UNCHANGED <<proc, cfg, storeDirty, pending, cache, disk, clock, used, taken>>

FinishDelete ==
    /\ Committed("delete")
    /\ nodes' = [n \in Nodes |-> IF n \in tx.who THEN NoNode ELSE nodes[n]]
    /\ nodeDirty' = [n \in Nodes |-> n \notin tx.who /\ nodeDirty[n]]
    /\ pending' = {s \in pending : s.node \notin tx.who}
    /\ taken' = {s \in taken : s.node \notin tx.who}
    /\ gone' = gone \cup tx.who
    /\ tx' = NoTx
    /\ UNCHANGED <<proc, cfg, storeDirty, cache, disk, clock, used>>
-----------------------------------------------------------------------------
(* The transactions.  saveSnapshotRowsContext leaves alone a row equal to   *)
(* the cached one and, unless it is full, the rows it does not list; a full *)
(* save deletes those, and their samples: all orphans while there is no     *)
(* cache, later only those of cached nodes.  The cache advances after the   *)
(* commit.                                                                  *)
CacheHit(n) == cacheReady /\ nodeCache[n] = tx.snap[n]

Kept(n) == IF tx.snap[n] = NoNode THEN ~tx.full ELSE CacheHit(n)

Dropped(n) ==
    /\ tx.full /\ tx.snap[n] = NoNode
    /\ cacheReady => nodeCache[n] # NoNode

CommitRows ==
    /\ Open(RowKinds)
    /\ diskCfg' = IF tx.full THEN tx.cfg ELSE diskCfg
    /\ diskNodes' = [n \in Nodes |-> IF Kept(n) THEN diskNodes[n] ELSE tx.snap[n]]
    /\ hist' = {s \in hist : ~Dropped(s.node)} \cup tx.batch
    /\ nodeCache' = [n \in Nodes |-> IF tx.full \/ tx.snap[n] # NoNode
                                     THEN tx.snap[n] ELSE nodeCache[n]]
    /\ cacheReady' = TRUE
    /\ tx' = [tx EXCEPT !.phase = "committed"]
    /\ UNCHANGED <<proc, memory, clock, ghosts>>

CommitHistory ==
    /\ Open({"history"})
    /\ hist' = hist \cup tx.batch
    /\ tx' = [tx EXCEPT !.phase = "committed"]
    /\ UNCHANGED <<proc, memory, cache, diskCfg, diskNodes, clock, ghosts>>

CommitSetting ==
    /\ Open({"setting"})
    /\ diskCfg' = tx.cfg
    /\ tx' = [tx EXCEPT !.phase = "committed"]
    /\ UNCHANGED <<proc, memory, cache, diskNodes, hist, clock, ghosts>>

(* deleteNodeContext removes the row and everything recorded for the node.  *)
CommitDelete ==
    /\ Open({"delete"})
    /\ diskNodes' = [n \in Nodes |-> IF n \in tx.who THEN NoNode ELSE diskNodes[n]]
    /\ hist' = {s \in hist : s.node \notin tx.who}
    /\ nodeCache' = [n \in Nodes |-> IF n \in tx.who THEN NoNode ELSE nodeCache[n]]
    /\ tx' = [tx EXCEPT !.phase = "committed"]
    /\ UNCHANGED <<proc, memory, cacheReady, diskCfg, clock, ghosts>>
-----------------------------------------------------------------------------
(* Close: stop the flusher, wait for persistMu, then save everything with   *)
(* mu held if anything is dirty.  Requests already being served may still   *)
(* run until Close has the locks.                                           *)
StopFlusher ==
    /\ Alive /\ proc = "running"
    /\ proc' = "closing"
    /\ UNCHANGED <<memory, cache, tx, disk, clock, ghosts>>

BeginClose ==
    /\ Free /\ proc = "closing" /\ storeDirty
    /\ Begin("close", TRUE, cfg, nodes, {s \in pending : nodes[s.node] # NoNode}, {})
    /\ UNCHANGED <<proc, memory, cache, disk, clock, ghosts>>

FinishClose ==
    /\ \/ Committed("close")
       \/ Free /\ proc = "closing" /\ ~storeDirty
    /\ proc' = "stopped"
    /\ pending' = IF tx = NoTx THEN pending ELSE {}
    /\ storeDirty' = FALSE
    /\ tx' = NoTx
    /\ UNCHANGED <<cfg, nodes, nodeDirty, cache, disk, clock, ghosts>>

(* The final save fails: Close returns the error and the process exits.     *)
FailClose == Open({"close"}) /\ LoseMemory
-----------------------------------------------------------------------------
Agents == \E n \in Nodes : IngestBasicInfo(n) \/ IngestReport(n)

Orders == UNION {[S -> 0..MaxWeight] : S \in SUBSET Live}

Admin ==
    \/ \E n \in Nodes, m \in Metas : BeginCreate(n, m) \/ BeginUpdate(n, m)
    \/ \E n \in Nodes : BeginDelete(n)
    \/ \E c \in Cfgs : BeginConfig(c) \/ BeginSetting(c)
    \/ \E order \in Orders : BeginReorder(order)
    \/ RollBack
    \/ FinishCreate \/ FinishUpdate \/ FinishReorder
    \/ FinishConfig \/ FinishSetting \/ FinishDelete

Flusher == \/ BeginFlush \/ FailFlush \/ FinishFlush
           \/ BeginHistory \/ FinishHistory

Database == CommitRows \/ CommitHistory \/ CommitSetting \/ CommitDelete

Process == \/ Start \/ Crash
           \/ StopFlusher \/ BeginClose \/ FinishClose \/ FailClose

Next == Agents \/ Admin \/ Flusher \/ Database \/ Process

Spec == Init /\ [][Next]_vars

(* The mutexes and the tickers are fair: a flush that keeps finding         *)
(* persistMu free gets it, an operation under way ends, and a disk that     *)
(* keeps being tried accepts a write at some time.                          *)
Fairness ==
    /\ SF_vars(BeginFlush) /\ SF_vars(BeginHistory)
    /\ SF_vars(Open({"flush"}) /\ CommitRows)
    /\ SF_vars(CommitHistory)
    /\ WF_vars(Database \/ RollBack \/ FailFlush)
    /\ WF_vars(FinishFlush \/ FinishHistory)
    /\ WF_vars(FinishCreate \/ FinishUpdate \/ FinishReorder
               \/ FinishConfig \/ FinishSetting \/ FinishDelete)

FairSpec == Spec /\ Fairness
-----------------------------------------------------------------------------
(* Nothing an administrator was told is undone by a background save: except *)
(* between the commit and the publication of an operation, memory and disk  *)
(* agree on which nodes exist, on their metadata and order, and on the      *)
(* configuration.                                                           *)
Administered(row) == IF row = NoNode THEN NoNode
                     ELSE [meta |-> row.meta, weight |-> row.weight]

Publishing == tx # NoTx /\ tx.kind \in AdminKinds /\ tx.phase = "committed"

MetadataDurable ==
    Alive /\ ~Publishing =>
        /\ cfg = diskCfg
        /\ \A n \in Nodes : Administered(nodes[n]) = Administered(diskNodes[n])

(* The row cache skips a write only when the row on disk is the cached one. *)
CacheMatchesDisk ==
    Alive => \A n \in Nodes : nodeCache[n] # NoNode => nodeCache[n] = diskNodes[n]

(* A node whose deletion was acknowledged leaves nothing behind, and no     *)
(* queued sample, late flush, retry or restart brings anything of it back.  *)
NoResurrection ==
    \A n \in gone : /\ nodes[n] = NoNode /\ diskNodes[n] = NoNode
                    /\ \A s \in hist \cup pending : s.node # n

(* Every accepted sample is queued or stored until a crash or a failed      *)
(* final save empties the queue or its node is deleted: acknowledging by    *)
(* position never drops one that arrived during the transaction, and a      *)
(* clean stop leaves none behind.                                           *)
NoSampleLost ==
    \A s \in taken : \/ s \in hist
                     \/ Alive /\ s \in pending
                     \/ diskNodes[s.node] = NoNode

(* A clean stop saves the last report of every node.                        *)
CleanStopSaves == proc = "stopped" => diskNodes = nodes

(* A report absorbed by a live node or written to its row is never undone:  *)
(* operations publish onto the live node, not onto the copy they saved, and *)
(* no save puts an older copy over a newer one.                             *)
NoRollback ==
    [][\A n \in Nodes :
        /\ Alive /\ nodes[n] # NoNode /\ nodes'[n] # NoNode
              => nodes'[n].rep >= nodes[n].rep
        /\ diskNodes[n] # NoNode /\ diskNodes'[n] # NoNode
              => diskNodes'[n].rep >= diskNodes[n].rep]_vars

(* The store implements the registry an administrator relies on: the disk   *)
(* holds it, and memory is what a running server shows of it.               *)
DiskRegistry == [cfg |-> diskCfg, nodes |-> [n \in Nodes |-> Administered(diskNodes[n])]]
LiveRegistry == [cfg |-> cfg, nodes |-> [n \in Nodes |-> Administered(nodes[n])]]
ShownRegistry == IF Alive THEN LiveRegistry ELSE Down

Registry == INSTANCE NodeRegistry WITH durable <- DiskRegistry, view <- ShownRegistry

RegistrySpec == Registry!Spec

(* While the server runs, what a report changed reaches the disk.           *)
ReportsReachDisk ==
    \A n \in Nodes, r \in 1..MaxReports :
        (proc = "running" /\ nodes[n] # NoNode /\ nodes[n].rep = r)
        ~> \/ proc # "running" \/ nodes[n] = NoNode
           \/ diskNodes[n] # NoNode /\ diskNodes[n].rep >= r

(* While the server runs, a queued sample reaches the disk.                 *)
SamplesReachDisk ==
    \A n \in Nodes, r \in 1..MaxReports :
        LET s == [node |-> n, at |-> r] IN
        (proc = "running" /\ s \in pending)
        ~> (proc # "running" \/ n \in gone \/ s \in hist)
=============================================================================
