------------------------- MODULE StorePersistProofs -------------------------
(***************************************************************************)
(* Proofs about StorePersist for every set of nodes, every bound and every *)
(* behaviour.                                                              *)
(***************************************************************************)
EXTENDS StorePersistInv, FiniteSetTheorems, TLAPS

(* The length of the queue a transaction records is a number.               *)
LEMMA QueueLength == TypeOK => Cardinality(pending) \in Nat
BY FS_CardinalityType DEF TypeOK

(* A queue that gains one sample or loses some stays finite, and gains one. *)
LEMMA QueueStaysFinite ==
    ASSUME NEW Q, IsFiniteSet(Q)
    PROVE  /\ Cardinality(Q) \in Nat
           /\ \A s : /\ IsFiniteSet(Q \cup {s})
                     /\ Cardinality(Q \cup {s}) <= Cardinality(Q) + 1
           /\ \A R : R \subseteq Q => /\ IsFiniteSet(R)
                                     /\ Cardinality(R) \in Nat
                                     /\ Cardinality(R) <= Cardinality(Q)
<1>1. Cardinality(Q) \in Nat
  BY FS_CardinalityType
<1>2. \A s : /\ IsFiniteSet(Q \cup {s})
            /\ Cardinality(Q \cup {s}) <= Cardinality(Q) + 1
  BY <1>1, FS_AddElement
<1>3. \A R : R \subseteq Q => /\ IsFiniteSet(R)
                            /\ Cardinality(R) \in Nat
                            /\ Cardinality(R) <= Cardinality(Q)
  BY FS_Subset, FS_CardinalityType
<1> QED
  BY <1>1, <1>2, <1>3

LEMMA SampleNode == \A s \in Sample : s.node \in Nodes
BY DEF Sample

(* Absorbing a report changes nothing the panel edits.                      *)
LEMMA TouchKeepsMetadata ==
    ASSUME TypeOK, NEW n \in Nodes, Touch(n)
    PROVE  \A p \in Nodes : /\ nodes'[p] \in NodeOrNone
                            /\ nodes'[p] = NoNode <=> nodes[p] = NoNode
                            /\ nodes'[p].meta = nodes[p].meta
                            /\ nodes'[p].weight = nodes[p].weight
                            /\ p # n => nodes'[p] = nodes[p]
                            /\ p = n => nodes'[p].rep = clock + 1
BY StoreAssumption DEF Touch, TypeOK, Node, NodeOrNone, Live

LEMMA TypeInit == Init => TypeOK
BY FS_EmptySet, StoreAssumption DEF Init, TypeOK, None, NodeOrNone

(* CopyInv is what makes the copies an operation publishes nodes and not     *)
(* the absence of one.                                                      *)
LEMMA TypeNext == TypeOK /\ CopyInv /\ [Next]_vars => TypeOK'
<1> SUFFICES ASSUME TypeOK, CopyInv PROVE [Next]_vars => TypeOK'
  OBVIOUS
<1> USE StoreAssumption DEF NodeOrNone, None, Live, Alive, Free, Open, Committed, memory, cache, disk, ghosts, RowKinds, AdminKinds
<1>0. Cardinality(pending) \in Nat
  BY QueueLength
<1>fewer. ASSUME pending' \subseteq pending
       PROVE  IsFiniteSet(pending') /\ Cardinality(pending') <= MaxPending
  BY <1>0, <1>fewer, QueueStaysFinite DEF TypeOK
<1>empty. IsFiniteSet({}) /\ Cardinality({}) <= MaxPending
  BY FS_EmptySet
<1>1. ASSUME NEW n \in Nodes, IngestBasicInfo(n) PROVE TypeOK'
  BY <1>1 DEF IngestBasicInfo, Touch, TypeOK, Node
<1>2. ASSUME NEW n \in Nodes, IngestReport(n) PROVE TypeOK'
  <2>1. IsFiniteSet(pending') /\ Cardinality(pending') <= MaxPending
    <3>1. CASE pending' = pending
      BY <3>1 DEF TypeOK
    <3>2. CASE Cardinality(pending) < MaxPending
               /\ pending' = pending \cup {[node |-> n, at |-> clock + 1]}
      <4>1. /\ IsFiniteSet(pending')
            /\ Cardinality(pending') <= Cardinality(pending) + 1
        BY <3>2, QueueStaysFinite DEF TypeOK
      <4>2. Cardinality(pending') \in Nat
        BY <4>1, FS_CardinalityType
      <4> QED
        BY <1>0, <3>2, <4>1, <4>2
    <3> QED
      BY <1>2, <3>1, <3>2 DEF IngestReport
  <2>2. /\ [node |-> n, at |-> clock + 1] \in Sample
        /\ Touch(n)
        /\ pending' \subseteq pending \cup {[node |-> n, at |-> clock + 1]}
        /\ taken' \subseteq taken \cup {[node |-> n, at |-> clock + 1]}
    BY <1>2 DEF IngestReport, TypeOK, Sample
  <2> QED
    BY <2>1, <2>2 DEF Touch, TypeOK, Node
<1>3. ASSUME NEW n \in Nodes, NEW m \in Metas, BeginCreate(n, m) PROVE TypeOK'
  BY <1>3, <1>0 DEF BeginCreate, Begin, TypeOK, Node, Tx
<1>4. ASSUME NEW n \in Nodes, NEW m \in Metas, BeginUpdate(n, m) PROVE TypeOK'
  BY <1>4, <1>0 DEF BeginUpdate, Begin, TypeOK, Node, Tx
<1>5. ASSUME NEW n \in Nodes, BeginDelete(n) PROVE TypeOK'
  BY <1>5, <1>0 DEF BeginDelete, Begin, TypeOK, Tx
<1>6. ASSUME NEW c \in Cfgs, BeginConfig(c) PROVE TypeOK'
  BY <1>6, <1>0 DEF BeginConfig, Begin, TypeOK, Tx
<1>7. ASSUME NEW c \in Cfgs, BeginSetting(c) PROVE TypeOK'
  BY <1>7, <1>0 DEF BeginSetting, Begin, TypeOK, Tx
<1>8. ASSUME NEW order \in Orders, BeginReorder(order) PROVE TypeOK'
  BY <1>8, <1>0 DEF BeginReorder, Begin, TypeOK, Tx, Orders, Node
<1>9. ASSUME RollBack PROVE TypeOK'
  BY <1>9 DEF RollBack, TypeOK
<1>10. ASSUME FinishCreate PROVE TypeOK'
  BY <1>10 DEF FinishCreate, TypeOK, Tx, NoTx
<1>11. ASSUME FinishUpdate PROVE TypeOK'
  <2>1. \A n \in tx.who : nodes[n] \in Node /\ tx.snap[n] \in Node
    BY <1>11 DEF FinishUpdate, CopyInv, TypeOK, Tx, NoTx
  <2>2. nodes' \in [Nodes -> NodeOrNone]
    BY <1>11, <2>1 DEF FinishUpdate, TypeOK, Node
  <2> QED
    BY <1>11, <2>2 DEF FinishUpdate, TypeOK, Tx, NoTx
<1>12. ASSUME FinishReorder PROVE TypeOK'
  <2>1. \A n \in Live : nodes[n] \in Node /\ tx.snap[n] \in Node
    BY <1>12 DEF FinishReorder, CopyInv, TypeOK, Tx, NoTx
  <2>2. nodes' \in [Nodes -> NodeOrNone]
    BY <1>12, <2>1 DEF FinishReorder, TypeOK, Node
  <2> QED
    BY <1>12, <2>2 DEF FinishReorder, TypeOK, Tx, NoTx
<1>13. ASSUME FinishConfig PROVE TypeOK'
  BY <1>13 DEF FinishConfig, TypeOK, Tx, NoTx
<1>14. ASSUME FinishSetting PROVE TypeOK'
  BY <1>14 DEF FinishSetting, TypeOK, Tx, NoTx
<1>15. ASSUME FinishDelete PROVE TypeOK'
  <2>1. pending' \subseteq pending
    BY <1>15 DEF FinishDelete
  <2> QED
    BY <1>15, <1>fewer, <2>1 DEF FinishDelete, TypeOK, Tx, NoTx
<1>16. ASSUME BeginFlush PROVE TypeOK'
  <2>1. FlushRows \in [Nodes -> NodeOrNone]
    BY DEF FlushRows, TypeOK
  <2>2. {s \in pending : FlushRows[s.node] # NoNode} \in SUBSET Sample
    BY DEF TypeOK
  <2>3. CASE tx' = NoTx
    BY <1>16, <2>3 DEF BeginFlush, TypeOK
  <2>4. CASE tx' # NoTx
    <3> DEFINE batch == {s \in pending : FlushRows[s.node] # NoNode}
    <3>1. Begin("flush", ~cacheReady, cfg, FlushRows, batch, {})
      BY <1>16, <2>4 DEF BeginFlush
    <3>2. (~cacheReady) \in BOOLEAN /\ cfg \in Cfgs
      BY DEF TypeOK
    <3> HIDE DEF batch
    <3>3. tx' \in Tx
      BY <1>0, <2>1, <2>2, <3>1, <3>2 DEF Begin, Tx, batch
    <3> QED
      BY <1>16, <3>3 DEF BeginFlush, TypeOK
  <2> QED
    BY <2>3, <2>4
<1>17. ASSUME FailFlush PROVE TypeOK'
  BY <1>17 DEF FailFlush, TypeOK, Tx, NoTx
<1>18. ASSUME FinishFlush \/ FinishHistory PROVE TypeOK'
  <2>1. pending' \subseteq pending
    BY <1>18 DEF FinishFlush, FinishHistory, Acknowledge
  <2> QED
    BY <1>18, <1>fewer, <2>1 DEF FinishFlush, FinishHistory, TypeOK
<1>19. ASSUME BeginHistory PROVE TypeOK'
  BY <1>19, <1>0 DEF BeginHistory, Begin, TypeOK, Tx
<1>20. ASSUME CommitRows PROVE TypeOK'
  BY <1>20 DEF CommitRows, TypeOK, Tx, NoTx, Dropped, CacheHit, Kept
<1>21. ASSUME CommitHistory PROVE TypeOK'
  BY <1>21 DEF CommitHistory, TypeOK, Tx, NoTx
<1>22. ASSUME CommitSetting PROVE TypeOK'
  BY <1>22 DEF CommitSetting, TypeOK, Tx, NoTx
<1>23. ASSUME CommitDelete PROVE TypeOK'
  BY <1>23 DEF CommitDelete, TypeOK, Tx, NoTx
<1>24. ASSUME Start PROVE TypeOK'
  BY <1>24, <1>empty DEF Start, TypeOK
<1>25. ASSUME Crash \/ FailClose PROVE TypeOK'
  BY <1>25, <1>empty DEF Crash, FailClose, LoseMemory, TypeOK
<1>26. ASSUME StopFlusher PROVE TypeOK'
  BY <1>26 DEF StopFlusher, TypeOK
<1>27. ASSUME BeginClose PROVE TypeOK'
  BY <1>27, <1>0 DEF BeginClose, Begin, TypeOK, Tx
<1>28. ASSUME FinishClose PROVE TypeOK'
  BY <1>28, <1>empty DEF FinishClose, TypeOK
<1>29. ASSUME UNCHANGED vars PROVE TypeOK'
  BY <1>29 DEF vars, TypeOK
<1> QED
  BY <1>1, <1>2, <1>3, <1>4, <1>5, <1>6, <1>7, <1>8, <1>9, <1>10, <1>11, <1>12,
     <1>13, <1>14, <1>15, <1>16, <1>17, <1>18, <1>19, <1>20, <1>21, <1>22, <1>23,
     <1>24, <1>25, <1>26, <1>27, <1>28, <1>29
  DEF Next, Agents, Admin, Flusher, Database, Process
-----------------------------------------------------------------------------
LEMMA DurabilityInit == Init => DurabilityInv
<1> SUFFICES ASSUME Init PROVE DurabilityInv
  OBVIOUS
<1>1. TypeOK
  BY TypeInit
<1>2. CopyInv /\ UnpublishedInv
  BY DEF Init, CopyInv, UnpublishedInv, Publishing
<1>3. MetadataDurable /\ CacheMatchesDisk /\ IdentityInv /\ AgeInv
  BY DEF Init, None, MetadataDurable, Administered, CacheMatchesDisk,
         IdentityInv, NoResurrection, AgeInv
<1> QED
  BY <1>1, <1>2, <1>3 DEF DurabilityInv

(* A step of the holder of persistMu either ends the operation, or begins   *)
(* one from the live state, or leaves the live state alone; a report        *)
(* changes nothing CopyInv compares.                                        *)
LEMMA CopyNext == TypeOK /\ CopyInv /\ IdentityInv /\ [Next]_vars => CopyInv'
<1> SUFFICES ASSUME TypeOK, CopyInv, IdentityInv PROVE [Next]_vars => CopyInv'
  OBVIOUS
<1>1. ASSUME tx' = NoTx PROVE CopyInv'
  BY <1>1 DEF CopyInv
<1>2. ASSUME NEW n \in Nodes, Touch(n) PROVE CopyInv'
  <2>1. UNCHANGED <<proc, cfg, tx, used, gone>>
    BY <1>2 DEF Touch
  <2>2. \A p \in Nodes : /\ nodes'[p] = NoNode <=> nodes[p] = NoNode
                         /\ nodes'[p].meta = nodes[p].meta
                         /\ nodes'[p].weight = nodes[p].weight
    BY <1>2, TouchKeepsMetadata
  <2>3. tx # NoTx => tx.kind # "close" /\ tx.batch \subseteq Sample
    BY <1>2 DEF Touch, MuFree, TypeOK, Tx
  <2>4. tx # NoTx => \A s \in tx.batch : s.node \in Nodes
    BY <2>3, SampleNode
  <2>5. tx # NoTx => tx.who \subseteq Nodes
    BY DEF TypeOK, Tx
  <2> QED
    BY <2>1, <2>2, <2>3, <2>4, <2>5 DEF CopyInv, Alive
<1>3. ASSUME NEW n \in Nodes, NEW m \in Metas, BeginCreate(n, m) PROVE CopyInv'
  BY <1>3, StoreAssumption DEF BeginCreate, Begin, NodeOrNone, None, Live, Free, Alive, memory, CopyInv, IdentityInv, TypeOK, Node
<1>4. ASSUME NEW n \in Nodes, NEW m \in Metas, BeginUpdate(n, m) PROVE CopyInv'
  <2>1. nodes[n] \in Node /\ [nodes[n] EXCEPT !.meta = m] \in Node
    BY <1>4 DEF BeginUpdate, Live, TypeOK, NodeOrNone, Node
  <2>2. /\ tx'.kind = "update" /\ tx'.full = FALSE /\ tx'.cfg = cfg /\ tx'.who = {n}
        /\ tx'.batch = {} /\ tx'.snap = [None EXCEPT ![n] = [nodes[n] EXCEPT !.meta = m]]
        /\ Alive /\ UNCHANGED <<proc, cfg, nodes>>
    BY <1>4 DEF BeginUpdate, Begin, Free, memory
  <2>3. \A p \in Nodes : tx'.snap[p] # NoNode <=> p = n
    BY <2>1, <2>2, StoreAssumption DEF None
  <2>4. tx'.snap[n].weight = nodes[n].weight /\ nodes[n] # NoNode
    BY <2>1, <2>2, StoreAssumption DEF None, Node
  <2> QED
    BY <2>2, <2>3, <2>4 DEF CopyInv, Alive
<1>5. ASSUME NEW n \in Nodes, BeginDelete(n) PROVE CopyInv'
  BY <1>5 DEF BeginDelete, Begin, None, Live, Free, Alive, memory, CopyInv, TypeOK
<1>6. ASSUME NEW c \in Cfgs, BeginConfig(c) PROVE CopyInv'
  BY <1>6 DEF BeginConfig, Begin, None, Free, Alive, memory, CopyInv, TypeOK
<1>7. ASSUME NEW c \in Cfgs, BeginSetting(c) PROVE CopyInv'
  BY <1>7 DEF BeginSetting, Begin, None, Free, Alive, memory, CopyInv, TypeOK
<1>8. ASSUME NEW order \in Orders, BeginReorder(order) PROVE CopyInv'
  BY <1>8, StoreAssumption DEF BeginReorder, Begin, NodeOrNone, None, Live, Free, Alive, memory, CopyInv, TypeOK, Orders, Node
<1>9. ASSUME BeginFlush PROVE CopyInv'
  <2>1. CASE tx' = NoTx
    BY <1>1, <2>1
  <2>2. CASE tx' # NoTx
    <3>1. FlushRows \in [Nodes -> NodeOrNone]
      BY DEF FlushRows, TypeOK, NodeOrNone
    <3>2. \A n \in Nodes : /\ FlushRows[n] # NoNode => FlushRows[n] = nodes[n]
                           /\ ~cacheReady => FlushRows[n] = nodes[n]
      BY DEF FlushRows, TypeOK, NodeOrNone
    <3>3. \A s \in {t \in pending : FlushRows[t.node] # NoNode} : nodes[s.node] # NoNode
      <4>1. \A s \in pending : s.node \in Nodes
        BY SampleNode DEF TypeOK
      <4> QED
        BY <3>2, <4>1
    <3>4. /\ Begin("flush", ~cacheReady, cfg, FlushRows,
                   {s \in pending : FlushRows[s.node] # NoNode}, {})
          /\ Alive /\ UNCHANGED <<proc, cfg, nodes>>
      BY <1>9, <2>2 DEF BeginFlush, Free
    <3> QED
      <4>1. /\ tx'.kind = "flush" /\ tx'.full = ~cacheReady /\ tx'.cfg = cfg
            /\ tx'.snap = FlushRows /\ tx'.who = {}
            /\ tx'.batch = {s \in pending : FlushRows[s.node] # NoNode}
        BY <3>4 DEF Begin
      <4> QED
        BY <3>2, <3>3, <3>4, <4>1 DEF CopyInv, Alive
  <2> QED
    BY <2>1, <2>2
<1>10. ASSUME BeginHistory PROVE CopyInv'
  BY <1>10 DEF BeginHistory, Begin, None, Free, Alive, memory, CopyInv, TypeOK
<1>11. ASSUME BeginClose PROVE CopyInv'
  BY <1>11 DEF BeginClose, Begin, None, Free, Alive, memory, CopyInv, TypeOK
<1>12. ASSUME Database PROVE CopyInv'
  <2>1. tx \in Tx /\ tx # NoTx /\ tx' = [tx EXCEPT !.phase = "committed"]
    BY <1>12 DEF Database, CommitRows, CommitHistory, CommitSetting, CommitDelete,
       TypeOK, NoTx, Tx, Open, RowKinds
  <2>2. UNCHANGED <<proc, cfg, nodes, used, gone>>
    BY <1>12 DEF Database, CommitRows, CommitHistory, CommitSetting, CommitDelete,
       memory, ghosts
  <2> QED
    BY <2>1, <2>2 DEF CopyInv, Tx, Alive
<1>13. ASSUME StopFlusher PROVE CopyInv'
  BY <1>13 DEF StopFlusher, CopyInv, memory, Alive, ghosts
<1>14. ASSUME UNCHANGED vars PROVE CopyInv'
  BY <1>14 DEF vars, memory, ghosts, CopyInv, Alive
<1>15. ASSUME \/ RollBack \/ FinishCreate \/ FinishUpdate \/ FinishReorder
            \/ FinishConfig \/ FinishSetting \/ FinishDelete \/ FailFlush
            \/ FinishFlush \/ FinishHistory \/ Start \/ Crash \/ FinishClose
            \/ FailClose PROVE CopyInv'
  BY <1>1, <1>15 DEF RollBack, FinishCreate, FinishUpdate, FinishReorder,
     FinishConfig, FinishSetting, FinishDelete, FailFlush, FinishFlush,
     FinishHistory, Start, Crash, FinishClose, FailClose, LoseMemory
<1> QED
  BY <1>2, <1>3, <1>4, <1>5, <1>6, <1>7, <1>8, <1>9, <1>10, <1>11, <1>12, <1>13,
     <1>14, <1>15
  DEF Next, Agents, Admin, Flusher, Process, IngestBasicInfo, IngestReport

LEMMA CacheNext ==
    TypeOK /\ CacheMatchesDisk /\ [Next]_vars => CacheMatchesDisk'
<1> SUFFICES ASSUME TypeOK, CacheMatchesDisk PROVE [Next]_vars => CacheMatchesDisk'
  OBVIOUS
<1> USE DEF NodeOrNone, None, Alive, Free, Open, Committed, memory, cache, disk, ghosts, RowKinds
<1>1. ASSUME UNCHANGED <<nodeCache, diskNodes>>, Alive' => Alive PROVE CacheMatchesDisk'
  BY <1>1 DEF CacheMatchesDisk
<1>2. ASSUME CommitRows PROVE CacheMatchesDisk'
  BY <1>2 DEF CommitRows, CacheHit, Kept, CacheMatchesDisk, TypeOK, Tx, NoTx
<1>3. ASSUME CommitDelete PROVE CacheMatchesDisk'
  BY <1>3 DEF CommitDelete, CacheMatchesDisk, TypeOK
<1>4. ASSUME CommitHistory \/ CommitSetting PROVE CacheMatchesDisk'
  BY <1>1, <1>4 DEF CommitHistory, CommitSetting
<1>5. ASSUME Start \/ Crash \/ FailClose PROVE CacheMatchesDisk'
  BY <1>5 DEF Start, Crash, FailClose, LoseMemory, CacheMatchesDisk
<1>6. ASSUME Agents PROVE CacheMatchesDisk'
  BY <1>1, <1>6 DEF Agents, IngestBasicInfo, IngestReport, Touch
<1>7. ASSUME Admin PROVE CacheMatchesDisk'
  BY <1>1, <1>7 DEF Admin, BeginCreate, BeginUpdate, BeginDelete, BeginConfig,
     BeginSetting, BeginReorder, RollBack, FinishCreate, FinishUpdate,
     FinishReorder, FinishConfig, FinishSetting, FinishDelete
<1>8. ASSUME Flusher PROVE CacheMatchesDisk'
  BY <1>1, <1>8 DEF Flusher, BeginFlush, FailFlush, FinishFlush, BeginHistory,
     FinishHistory
<1>9. ASSUME StopFlusher \/ BeginClose \/ FinishClose PROVE CacheMatchesDisk'
  BY <1>1, <1>9 DEF StopFlusher, BeginClose, FinishClose
<1>10. ASSUME UNCHANGED vars PROVE CacheMatchesDisk'
  BY <1>1, <1>10 DEF vars
<1> QED
  BY <1>2, <1>3, <1>4, <1>5, <1>6, <1>7, <1>8, <1>9, <1>10
  DEF Next, Database, Process

(* A save writes the rows it lists, skipped or not, and a full one removes  *)
(* the others.                                                              *)
LEMMA RowsWritten ==
    ASSUME TypeOK, CacheMatchesDisk, CommitRows, NEW n \in Nodes
    PROVE  /\ tx.snap[n] # NoNode => diskNodes'[n] = tx.snap[n]
           /\ tx.snap[n] = NoNode =>
                diskNodes'[n] = IF tx.full THEN NoNode ELSE diskNodes[n]
<1>1. diskNodes'[n] = IF Kept(n) THEN diskNodes[n] ELSE tx.snap[n]
  BY DEF CommitRows
<1>2. ASSUME tx.snap[n] # NoNode, CacheHit(n) PROVE diskNodes[n] = tx.snap[n]
  BY <1>2 DEF CacheHit, CacheMatchesDisk, CommitRows, Open
<1> QED
  BY <1>1, <1>2 DEF Kept

(* A save writes, for every row it lists, the metadata the node has now; a  *)
(* full one lists every node.                                               *)
LEMMA SaveWritesMetadata ==
    ASSUME TypeOK, CopyInv, MetadataDurable, CacheMatchesDisk, CommitRows,
           tx.kind \in {"flush", "close", "config"}
    PROVE  /\ \A n \in Nodes : Administered(diskNodes'[n]) = Administered(nodes[n])
           /\ diskCfg' = IF tx.kind = "config" THEN tx.cfg ELSE cfg
<1>1. /\ tx \in Tx /\ tx # NoTx /\ ~Publishing /\ Alive
      /\ tx.kind = "config" => tx.full
  BY DEF CommitRows, Open, TypeOK, NoTx, Tx, Publishing, CopyInv
<1>2. /\ cfg = diskCfg
      /\ \A n \in Nodes : Administered(nodes[n]) = Administered(diskNodes[n])
  BY <1>1 DEF MetadataDurable
<1>3. diskCfg' = IF tx.kind = "config" THEN tx.cfg ELSE cfg
  BY <1>1, <1>2 DEF CommitRows, CopyInv
<1>4. ASSUME NEW n \in Nodes
      PROVE  Administered(diskNodes'[n]) = Administered(nodes[n])
  <2>1. /\ tx.snap[n] \in NodeOrNone
        /\ tx.snap[n] # NoNode => /\ nodes[n] # NoNode
                                  /\ tx.snap[n].weight = nodes[n].weight
                                  /\ tx.snap[n].meta = nodes[n].meta
        /\ tx.full /\ nodes[n] # NoNode => tx.snap[n] # NoNode
    BY <1>1 DEF CopyInv, Tx
  <2>2. nodes[n] \in NodeOrNone /\ diskNodes[n] \in NodeOrNone
    BY DEF TypeOK
  <2>3. CASE tx.snap[n] = NoNode
    <3>1. diskNodes'[n] = IF tx.full THEN NoNode ELSE diskNodes[n]
      BY <2>3 DEF CommitRows, Kept, TypeOK
    <3> QED
      BY <1>2, <2>1, <2>3, <3>1 DEF Administered
  <2>4. CASE tx.snap[n] # NoNode
    <3>1. Administered(tx.snap[n]) = Administered(nodes[n])
      BY <2>1, <2>4 DEF Administered
    <3>2. diskNodes'[n] = IF CacheHit(n) THEN diskNodes[n] ELSE tx.snap[n]
      BY <2>4 DEF CommitRows, Kept
    <3> QED
      BY <1>2, <3>1, <3>2
  <2> QED
    BY <2>3, <2>4
<1> QED
  BY <1>3, <1>4

LEMMA MetadataNext ==
    TypeOK /\ CopyInv /\ MetadataDurable /\ UnpublishedInv /\ CacheMatchesDisk
    /\ [Next]_vars => MetadataDurable'
<1> SUFFICES ASSUME TypeOK, CopyInv, MetadataDurable, UnpublishedInv, CacheMatchesDisk
             PROVE  [Next]_vars => MetadataDurable'
  OBVIOUS
<1>1. ASSUME UNCHANGED <<cfg, nodes, diskCfg, diskNodes>>, Alive' => Alive,
             Publishing => Publishing'
      PROVE  MetadataDurable'
  BY <1>1 DEF MetadataDurable, Administered
<1>2. ASSUME Agents PROVE MetadataDurable'
  <2>1. PICK n \in Nodes : Touch(n)
    BY <1>2 DEF Agents, IngestBasicInfo, IngestReport
  <2>2. UNCHANGED <<proc, cfg, tx, diskCfg, diskNodes>>
    BY <2>1 DEF Touch, disk
  <2>3. \A p \in Nodes : Administered(nodes'[p]) = Administered(nodes[p])
    BY <2>1, TouchKeepsMetadata DEF Administered
  <2> QED
    BY <2>2, <2>3 DEF MetadataDurable, Publishing, Alive, Administered
<1>3. ASSUME NEW n, NEW m, NEW c, NEW order,
             \/ BeginCreate(n, m) \/ BeginUpdate(n, m) \/ BeginDelete(n)
             \/ BeginConfig(c) \/ BeginSetting(c) \/ BeginReorder(order) \/ RollBack
      PROVE  MetadataDurable'
  <2>1. Free \/ RollBack
    BY <1>3 DEF BeginCreate, BeginUpdate, BeginDelete, BeginConfig, BeginSetting,
       BeginReorder
  <2>2. ~Publishing
    BY <2>1 DEF Free, RollBack, Publishing, Open
  <2>3. UNCHANGED <<proc, cfg, nodes, diskCfg, diskNodes>>
    BY <1>3 DEF BeginCreate, BeginUpdate, BeginDelete, BeginConfig, BeginSetting,
       BeginReorder, RollBack, memory, disk
  <2> QED
    BY <1>1, <2>2, <2>3 DEF Alive
<1>0. ASSUME NEW kind \in AdminKinds, Committed(kind)
      PROVE  /\ diskCfg = IF kind \in {"config", "setting"} THEN tx.cfg ELSE cfg
             /\ \A n \in Nodes : Administered(diskNodes[n]) = Written(n)
  <2>1. tx # NoTx /\ tx.kind = kind /\ tx.phase = "committed"
    BY <1>0 DEF Committed, AdminKinds, NoTx
  <2> QED
    BY <1>0, <2>1 DEF UnpublishedInv, Publishing
<1>4. ASSUME FinishCreate PROVE MetadataDurable'
  <2>1. UNCHANGED <<cfg, diskCfg, diskNodes>>
    BY <1>4 DEF FinishCreate, disk
  <2>2. \A n \in Nodes : Administered(nodes'[n]) = Written(n)
    BY <1>4 DEF FinishCreate, Written, Administered, Committed, TypeOK
  <2>3. "create" \in AdminKinds /\ Committed("create")
    BY <1>4 DEF FinishCreate, AdminKinds
  <2> QED
    BY <1>0, <2>1, <2>2, <2>3 DEF MetadataDurable
<1>5. ASSUME FinishUpdate PROVE MetadataDurable'
  <2>1. UNCHANGED <<cfg, diskCfg, diskNodes>>
    BY <1>5 DEF FinishUpdate, disk
  <2>2. \A n \in Nodes : Administered(nodes'[n]) = Written(n)
    <3> SUFFICES ASSUME NEW n \in Nodes PROVE Administered(nodes'[n]) = Written(n)
      OBVIOUS
    <3>1. Committed("update") /\ tx \in Tx /\ tx # NoTx
      BY <1>5 DEF FinishUpdate, Committed, TypeOK, NoTx
    <3>2. nodes[n] \in NodeOrNone /\ tx.snap[n] \in NodeOrNone
      BY <3>1 DEF Tx, TypeOK
    <3>3. CASE n \in tx.who
      <4>1. /\ nodes[n] # NoNode /\ tx.snap[n] # NoNode
            /\ tx.snap[n].weight = nodes[n].weight
        BY <3>1, <3>3 DEF CopyInv, Committed, Live, Tx
      <4>2. nodes'[n] = [nodes[n] EXCEPT !.meta = tx.snap[n].meta]
        BY <1>5, <3>3 DEF FinishUpdate
      <4>3. nodes[n] \in Node /\ nodes'[n] \in Node /\ nodes'[n] # NoNode
        BY <3>2, <4>1, <4>2, StoreAssumption DEF NodeOrNone, Node
      <4> QED
        BY <3>1, <3>3, <4>1, <4>2, <4>3 DEF Written, Administered, Committed, Node
    <3>4. CASE n \notin tx.who
      <4>1. nodes'[n] = nodes[n]
        BY <1>5, <3>4 DEF FinishUpdate
      <4> QED
        BY <3>1, <3>4, <4>1 DEF Written, Administered, Committed, Live, CopyInv
    <3> QED
      BY <3>3, <3>4
  <2>3. "update" \in AdminKinds /\ Committed("update")
    BY <1>5 DEF FinishUpdate, AdminKinds
  <2> QED
    BY <1>0, <2>1, <2>2, <2>3 DEF MetadataDurable
<1>6. ASSUME FinishReorder PROVE MetadataDurable'
  <2>1. UNCHANGED <<cfg, diskCfg, diskNodes>>
    BY <1>6 DEF FinishReorder, disk
  <2>2. \A n \in Nodes : Administered(nodes'[n]) = Written(n)
    <3> SUFFICES ASSUME NEW n \in Nodes PROVE Administered(nodes'[n]) = Written(n)
      OBVIOUS
    <3>1. Committed("reorder") /\ tx \in Tx /\ tx # NoTx
      BY <1>6 DEF FinishReorder, Committed, TypeOK, NoTx
    <3>2. nodes[n] \in NodeOrNone /\ tx.snap[n] \in NodeOrNone
      BY <3>1 DEF Tx, TypeOK
    <3>3. CASE n \in Live
      <4>1. /\ nodes[n] # NoNode /\ tx.snap[n] # NoNode
            /\ tx.snap[n].meta = nodes[n].meta
        BY <3>1, <3>3 DEF CopyInv, Committed, Live, Tx
      <4>2. nodes'[n] = [nodes[n] EXCEPT !.weight = tx.snap[n].weight]
        BY <1>6, <3>3 DEF FinishReorder
      <4>3. nodes[n] \in Node /\ nodes'[n] \in Node /\ nodes'[n] # NoNode
        BY <3>2, <4>1, <4>2, StoreAssumption DEF NodeOrNone, Node
      <4> QED
        BY <3>1, <3>3, <4>1, <4>2, <4>3 DEF Written, Administered, Committed, Node
    <3>4. CASE n \notin Live
      <4>1. nodes'[n] = nodes[n]
        BY <1>6, <3>4 DEF FinishReorder
      <4> QED
        BY <3>1, <3>4, <4>1 DEF Written, Administered, Committed, Live, CopyInv
    <3> QED
      BY <3>3, <3>4
  <2>3. "reorder" \in AdminKinds /\ Committed("reorder")
    BY <1>6 DEF FinishReorder, AdminKinds
  <2> QED
    BY <1>0, <2>1, <2>2, <2>3 DEF MetadataDurable
<1>7. ASSUME FinishConfig \/ FinishSetting PROVE MetadataDurable'
  <2>1. UNCHANGED <<nodes, diskCfg, diskNodes>> /\ cfg' = tx.cfg
    BY <1>7 DEF FinishConfig, FinishSetting, disk
  <2>2. \A n \in Nodes : Written(n) = Administered(nodes[n])
    BY <1>7 DEF FinishConfig, FinishSetting, Written, Committed
  <2>3. Committed("config") \/ Committed("setting")
    BY <1>7 DEF FinishConfig, FinishSetting
  <2>4. "config" \in AdminKinds /\ "setting" \in AdminKinds
    BY DEF AdminKinds
  <2> QED
    BY <1>0, <2>1, <2>2, <2>3, <2>4 DEF MetadataDurable
<1>8. ASSUME FinishDelete PROVE MetadataDurable'
  <2>1. UNCHANGED <<cfg, diskCfg, diskNodes>>
    BY <1>8 DEF FinishDelete, disk
  <2>2. \A n \in Nodes : Administered(nodes'[n]) = Written(n)
    BY <1>8 DEF FinishDelete, Written, Administered, Committed, TypeOK
  <2>3. "delete" \in AdminKinds /\ Committed("delete")
    BY <1>8 DEF FinishDelete, AdminKinds
  <2> QED
    BY <1>0, <2>1, <2>2, <2>3 DEF MetadataDurable
<1>9. ASSUME Flusher PROVE MetadataDurable'
  <2>1. ~Publishing
    BY <1>9 DEF Flusher, BeginFlush, FailFlush, FinishFlush, BeginHistory,
       FinishHistory, Free, Open, Committed, Publishing, AdminKinds
  <2>2. UNCHANGED <<proc, cfg, nodes, diskCfg, diskNodes>>
    BY <1>9 DEF Flusher, BeginFlush, FailFlush, FinishFlush, BeginHistory,
       FinishHistory, memory, disk
  <2> QED
    BY <1>1, <2>1, <2>2 DEF Alive
<1>10. ASSUME CommitRows PROVE MetadataDurable'
  <2>1. UNCHANGED <<cfg, nodes>> /\ tx' = [tx EXCEPT !.phase = "committed"]
    BY <1>10 DEF CommitRows, memory
  <2>2. tx \in Tx /\ tx.kind \in RowKinds
    BY <1>10 DEF CommitRows, TypeOK, Open, NoTx, RowKinds
  <2>3. CASE tx.kind \in {"flush", "close"}
    BY <1>10, <2>1, <2>3, SaveWritesMetadata DEF MetadataDurable, Administered
  <2>4. CASE tx.kind \notin {"flush", "close"}
    <3>1. Publishing'
      BY <2>1, <2>2, <2>4 DEF Publishing, AdminKinds, RowKinds, Tx, NoTx
    <3> QED
      BY <3>1 DEF MetadataDurable
  <2> QED
    BY <2>3, <2>4
<1>11. ASSUME CommitHistory PROVE MetadataDurable'
  BY <1>1, <1>11 DEF CommitHistory, memory, Publishing, AdminKinds, Open, Alive
<1>12. ASSUME CommitSetting \/ CommitDelete PROVE MetadataDurable'
  <2>1. tx' = [tx EXCEPT !.phase = "committed"] /\ tx.kind \in {"setting", "delete"} /\ tx \in Tx
    BY <1>12 DEF CommitSetting, CommitDelete, Open, TypeOK, NoTx
  <2>2. Publishing'
    BY <2>1 DEF Publishing, AdminKinds, Tx, NoTx
  <2> QED
    BY <2>2 DEF MetadataDurable
<1>13. ASSUME Start PROVE MetadataDurable'
  BY <1>13 DEF Start, MetadataDurable, Administered, disk
<1>14. ASSUME Crash \/ FailClose \/ FinishClose PROVE MetadataDurable'
  BY <1>14 DEF Crash, FailClose, LoseMemory, FinishClose, MetadataDurable, Alive
<1>15. ASSUME StopFlusher \/ BeginClose PROVE MetadataDurable'
  BY <1>1, <1>15 DEF StopFlusher, BeginClose, Free, memory, disk, Publishing, Alive
<1>16. ASSUME UNCHANGED vars PROVE MetadataDurable'
  BY <1>1, <1>16 DEF vars, memory, disk, Publishing, Alive
<1>17. ASSUME Admin PROVE MetadataDurable'
  BY <1>3, <1>4, <1>5, <1>6, <1>7, <1>8, <1>17 DEF Admin
<1> QED
  BY <1>2, <1>9, <1>10, <1>11, <1>12, <1>13, <1>14, <1>15, <1>16, <1>17
  DEF Next, Database, Process

(* What an operation commits is what its Finish step publishes.             *)
LEMMA UnpublishedNext ==
    TypeOK /\ CopyInv /\ MetadataDurable /\ UnpublishedInv /\ CacheMatchesDisk
    /\ [Next]_vars => UnpublishedInv'
<1> SUFFICES ASSUME TypeOK, CopyInv, MetadataDurable, UnpublishedInv, CacheMatchesDisk
             PROVE  [Next]_vars => UnpublishedInv'
  OBVIOUS
<1>1. ASSUME ~Publishing' PROVE UnpublishedInv'
  BY <1>1 DEF UnpublishedInv
<1>2. ASSUME Agents PROVE UnpublishedInv'
  <2>1. PICK n \in Nodes : Touch(n)
    BY <1>2 DEF Agents, IngestBasicInfo, IngestReport
  <2>2. UNCHANGED <<proc, cfg, tx, diskCfg, diskNodes, hist>>
    BY <2>1 DEF Touch, disk
  <2>3. \A p \in Nodes : Administered(nodes'[p]) = Administered(nodes[p])
    BY <2>1, TouchKeepsMetadata DEF Administered
  <2>4. ASSUME NEW p \in Nodes PROVE Written(p)' = Written(p)
    BY <2>2, <2>3 DEF Written, Administered
  <2> QED
    BY <2>2, <2>4 DEF UnpublishedInv, Publishing, Administered
<1>3. ASSUME Free, NEW kind, NEW full, NEW c, NEW snap, NEW batch, NEW who,
             Begin(kind, full, c, snap, batch, who)
      PROVE  UnpublishedInv'
  BY <1>1, <1>3 DEF Begin, Publishing
<1>4. ASSUME tx' = NoTx PROVE UnpublishedInv'
  BY <1>1, <1>4 DEF Publishing
<1>5. ASSUME Admin PROVE UnpublishedInv'
  BY <1>3, <1>4, <1>5 DEF Admin, BeginCreate, BeginUpdate, BeginDelete, BeginConfig,
     BeginSetting, BeginReorder, RollBack, FinishCreate, FinishUpdate,
     FinishReorder, FinishConfig, FinishSetting, FinishDelete
<1>6. ASSUME Flusher PROVE UnpublishedInv'
  BY <1>3, <1>4, <1>6 DEF Flusher, BeginFlush, FailFlush, FinishFlush, BeginHistory,
     FinishHistory
<1>7. ASSUME CommitRows PROVE UnpublishedInv'
  <2>1. /\ UNCHANGED <<cfg, nodes>> /\ tx' = [tx EXCEPT !.phase = "committed"]
        /\ tx \in Tx /\ tx.kind \in RowKinds /\ tx # NoTx /\ ~Publishing /\ Alive
    BY <1>7 DEF CommitRows, memory, Open, TypeOK, NoTx, RowKinds, Publishing
  <2>2. /\ tx'.kind = tx.kind /\ tx'.snap = tx.snap /\ tx'.who = tx.who
        /\ tx'.cfg = tx.cfg
    BY <2>1 DEF Tx
  <2>3. /\ cfg = diskCfg
        /\ \A n \in Nodes : Administered(nodes[n]) = Administered(diskNodes[n])
    BY <2>1 DEF MetadataDurable
  <2>4. tx.kind \in {"create", "reorder"} => tx.full
    BY <2>1 DEF CopyInv
  <2>5. CASE tx.kind \in {"create", "reorder"}
    <3>1. \A n \in Nodes : diskNodes'[n] = tx.snap[n]
      BY <1>7, <2>4, <2>5, RowsWritten
    <3>2. diskCfg' = cfg'
      BY <1>7, <2>1, <2>4, <2>5 DEF CommitRows, CopyInv
    <3>3. ASSUME NEW n \in Nodes PROVE Administered(tx.snap[n]) = Written(n)'
      <4>1. CASE tx.kind = "reorder" \/ n \in tx.who
        BY <2>2, <2>5, <4>1 DEF Written, Administered
      <4>2. CASE tx.kind = "create" /\ n \notin tx.who
        <5>1. Administered(tx.snap[n]) = Administered(nodes[n])
          BY <2>1, <2>4, <4>2 DEF CopyInv, Administered
        <5> QED
          BY <2>1, <2>2, <4>2, <5>1 DEF Written, Administered
      <4> QED
        BY <2>5, <4>1, <4>2
    <3>4. tx.who \subseteq Nodes
      BY <2>1 DEF Tx
    <3> QED
      BY <2>2, <2>5, <3>1, <3>2, <3>3, <3>4 DEF UnpublishedInv, Administered
  <2>6. CASE tx.kind = "update"
    <3>1. ~tx.full /\ \A n \in Nodes : tx.snap[n] # NoNode <=> n \in tx.who
      BY <2>1, <2>6 DEF CopyInv
    <3>2. \A n \in Nodes : diskNodes'[n] = IF n \in tx.who THEN tx.snap[n] ELSE diskNodes[n]
      BY <1>7, <3>1, RowsWritten
    <3>3. diskCfg' = cfg'
      BY <1>7, <2>1, <2>3, <3>1 DEF CommitRows
    <3>4. ASSUME NEW n \in Nodes PROVE Administered(diskNodes'[n]) = Written(n)'
      BY <2>1, <2>2, <2>3, <2>6, <3>2 DEF Written, Administered
    <3> QED
      BY <2>2, <2>6, <3>3, <3>4 DEF UnpublishedInv, Administered
  <2>7. CASE tx.kind = "config"
    <3>1. /\ \A n \in Nodes : Administered(diskNodes'[n]) = Administered(nodes[n])
          /\ diskCfg' = tx.cfg
      BY <1>7, <2>7, SaveWritesMetadata
    <3>2. ASSUME NEW n \in Nodes PROVE Administered(diskNodes'[n]) = Written(n)'
      <4>1. Written(n)' = Administered(nodes'[n])
        BY <2>2, <2>7 DEF Written
      <4>2. Administered(nodes'[n]) = Administered(nodes[n])
        BY <2>1, Zenon
      <4> QED
        BY <3>1, <4>1, <4>2
    <3>3. tx'.kind = "config" /\ diskCfg' = tx'.cfg
      BY <2>2, <2>7, <3>1
    <3>4. \A n \in Nodes : Administered(diskNodes[n])' = Written(n)'
      BY <3>2, Zenon DEF Administered
    <3> QED
      BY <3>3, <3>4, Zenon DEF UnpublishedInv
  <2>8. CASE tx.kind \in {"flush", "close"}
    BY <1>1, <2>2, <2>8 DEF Publishing, AdminKinds
  <2> QED
    BY <2>1, <2>5, <2>6, <2>7, <2>8 DEF RowKinds
<1>8. ASSUME CommitHistory PROVE UnpublishedInv'
  <2>1. tx \in Tx /\ tx.kind = "history" /\ tx' = [tx EXCEPT !.phase = "committed"]
    BY <1>8 DEF CommitHistory, Open, TypeOK, NoTx
  <2> QED
    BY <1>1, <2>1 DEF Publishing, AdminKinds, Tx
<1>9. ASSUME CommitSetting \/ CommitDelete PROVE UnpublishedInv'
  <2>1. /\ tx' = [tx EXCEPT !.phase = "committed"] /\ UNCHANGED <<cfg, nodes>>
        /\ tx \in Tx /\ tx.kind \in {"setting", "delete"} /\ ~Publishing /\ Alive
    BY <1>9 DEF CommitSetting, CommitDelete, Open, TypeOK, NoTx, Publishing, memory
  <2>2. tx'.kind = tx.kind /\ tx'.who = tx.who /\ tx'.cfg = tx.cfg
    BY <2>1 DEF Tx
  <2>3. /\ cfg = diskCfg
        /\ \A n \in Nodes : Administered(nodes[n]) = Administered(diskNodes[n])
    BY <2>1 DEF MetadataDurable
  <2>4. CASE CommitSetting
    <3>1. UNCHANGED diskNodes /\ diskCfg' = tx.cfg /\ tx.kind = "setting"
      BY <2>4 DEF CommitSetting, Open
    <3>2. ASSUME NEW n \in Nodes PROVE Administered(diskNodes'[n]) = Written(n)'
      BY <2>1, <2>2, <2>3, <3>1 DEF Written, Administered
    <3> QED
      BY <2>2, <3>1, <3>2 DEF UnpublishedInv, Administered
  <2>5. CASE CommitDelete
    <3>1. /\ UNCHANGED diskCfg /\ tx.kind = "delete"
          /\ \A n \in Nodes : diskNodes'[n] = IF n \in tx.who THEN NoNode ELSE diskNodes[n]
      BY <2>5 DEF CommitDelete, Open
    <3>2. ASSUME NEW n \in Nodes PROVE Administered(diskNodes'[n]) = Written(n)'
      BY <2>1, <2>2, <2>3, <3>1 DEF Written, Administered
    <3>3. tx.who \subseteq Nodes /\ \A s \in hist' : s.node \notin tx.who
      BY <2>1, <2>5 DEF CommitDelete, Tx
    <3> QED
      BY <2>1, <2>2, <2>3, <3>1, <3>2, <3>3 DEF UnpublishedInv, Administered
  <2> QED
    BY <1>9, <2>4, <2>5
<1>10. ASSUME Process PROVE UnpublishedInv'
  <2>1. ASSUME StopFlusher PROVE UnpublishedInv'
    BY <2>1 DEF StopFlusher, memory, disk, UnpublishedInv, Publishing, Written, Administered
  <2> QED
    BY <1>3, <1>4, <1>10, <2>1 DEF Process, Start, Crash, FailClose, LoseMemory,
       BeginClose, FinishClose
<1>11. ASSUME UNCHANGED vars PROVE UnpublishedInv'
  BY <1>11 DEF vars, memory, disk, UnpublishedInv, Publishing, Written, Administered
<1> QED
  BY <1>2, <1>5, <1>6, <1>7, <1>8, <1>9, <1>10, <1>11 DEF Next, Database

(* A node is drawn once; nothing is saved for a node that is not live; a    *)
(* deletion takes the queue with it.                                        *)
LEMMA IdentityNext ==
    TypeOK /\ CopyInv /\ UnpublishedInv /\ IdentityInv /\ [Next]_vars => IdentityInv'
<1> SUFFICES ASSUME TypeOK, CopyInv, UnpublishedInv, IdentityInv
             PROVE  [Next]_vars => IdentityInv'
  OBVIOUS
<1>1. ASSUME UNCHANGED <<diskNodes, hist, gone>>, used \subseteq used',
             pending' \subseteq pending,
             \A n \in Nodes : nodes'[n] = NoNode <=> nodes[n] = NoNode
      PROVE  IdentityInv'
  <2>1. \A s \in pending : s.node \in Nodes
    BY SampleNode DEF TypeOK
  <2> QED
    BY <1>1, <2>1 DEF IdentityInv, NoResurrection, TypeOK
<1>2. ASSUME Agents PROVE IdentityInv'
  <2>1. PICK n \in Nodes : Touch(n) /\ \A s \in pending' : s \in pending \/ s.node = n
    BY <1>2 DEF Agents, IngestBasicInfo, IngestReport
  <2>2. UNCHANGED <<diskNodes, hist, gone, used>> /\ nodes[n] # NoNode
    BY <2>1 DEF Touch, disk, Live
  <2>3. \A p \in Nodes : nodes'[p] = NoNode <=> nodes[p] = NoNode
    BY <2>1, TouchKeepsMetadata
  <2>4. \A s \in pending : s.node \in Nodes
    BY SampleNode DEF TypeOK
  <2>5. \A s \in pending' : nodes'[s.node] # NoNode /\ s.node \in Nodes
    BY <2>1, <2>2, <2>3, <2>4 DEF IdentityInv
  <2> QED
    BY <2>2, <2>3, <2>5 DEF IdentityInv, NoResurrection, TypeOK
<1>3. ASSUME Admin, ~FinishCreate, ~FinishUpdate, ~FinishReorder, ~FinishDelete
      PROVE  IdentityInv'
  BY <1>1, <1>3 DEF Admin, BeginCreate, BeginUpdate, BeginDelete, BeginConfig,
     BeginSetting, BeginReorder, RollBack, FinishConfig, FinishSetting, memory, disk, ghosts
<1>4. ASSUME FinishCreate PROVE IdentityInv'
  <2>1. tx # NoTx /\ tx.kind = "create" /\ tx \in Tx
    BY <1>4 DEF FinishCreate, Committed, TypeOK, NoTx
  <2>2. \A n \in tx.who : nodes'[n] # NoNode /\ n \in used /\ n \notin gone
    BY <1>4, <2>1 DEF FinishCreate, CopyInv, Tx
  <2>3. \A n \in Nodes \ tx.who : nodes'[n] = nodes[n]
    BY <1>4 DEF FinishCreate
  <2>4. UNCHANGED <<diskNodes, hist, pending, gone, used>>
    BY <1>4 DEF FinishCreate, disk, ghosts
  <2>5. \A s \in pending : s.node \in Nodes
    BY SampleNode DEF TypeOK
  <2> QED
    BY <2>2, <2>3, <2>4, <2>5 DEF IdentityInv, NoResurrection, TypeOK
<1>5. ASSUME FinishUpdate \/ FinishReorder PROVE IdentityInv'
  <2>1. \A n \in Nodes : nodes'[n] = NoNode <=> nodes[n] = NoNode
    <3>1. tx # NoTx /\ tx \in Tx
      BY <1>5 DEF FinishUpdate, FinishReorder, Committed, TypeOK, NoTx
    <3>2. ASSUME NEW n \in Nodes, nodes[n] # NoNode, FinishReorder \/ n \in tx.who
          PROVE  nodes'[n] # NoNode
      <4>1. nodes[n] \in Node /\ tx.snap[n] \in Node
        BY <1>5, <3>1, <3>2 DEF FinishUpdate, FinishReorder, Committed, CopyInv,
           TypeOK, Tx, NodeOrNone
      <4>2. nodes'[n] \in Node
        BY <1>5, <3>2, <4>1 DEF FinishUpdate, FinishReorder, Live, Node
      <4> QED
        BY <4>2, StoreAssumption
    <3> QED
      BY <1>5, <3>1, <3>2 DEF FinishUpdate, FinishReorder, Committed, CopyInv, Live
  <2> QED
    BY <1>1, <1>5, <2>1 DEF FinishUpdate, FinishReorder, disk, ghosts
<1>6. ASSUME FinishDelete PROVE IdentityInv'
  <2>1. tx # NoTx /\ tx.kind = "delete" /\ tx.phase = "committed" /\ tx \in Tx
    BY <1>6 DEF FinishDelete, Committed, TypeOK, NoTx
  <2>2. \A n \in tx.who : diskNodes[n] = NoNode /\ \A s \in hist : s.node # n
    BY <2>1 DEF UnpublishedInv, Publishing, AdminKinds
  <2>3. /\ \A n \in Nodes : nodes'[n] = IF n \in tx.who THEN NoNode ELSE nodes[n]
        /\ pending' = {s \in pending : s.node \notin tx.who}
        /\ gone' = gone \cup tx.who
        /\ UNCHANGED <<diskNodes, hist, used>>
    BY <1>6 DEF FinishDelete, disk
  <2>4. tx.who \subseteq used /\ tx.who \subseteq Nodes
    BY <2>1 DEF Tx, CopyInv, IdentityInv
  <2>5. \A s \in pending : s.node \in Nodes
    BY SampleNode DEF TypeOK
  <2> QED
    BY <2>2, <2>3, <2>4, <2>5 DEF IdentityInv, NoResurrection, TypeOK
<1>7. ASSUME Flusher PROVE IdentityInv'
  BY <1>1, <1>7 DEF Flusher, BeginFlush, FailFlush, FinishFlush, BeginHistory,
     FinishHistory, Acknowledge, memory, disk, ghosts
<1>8. ASSUME Database, ~CommitDelete PROVE IdentityInv'
  <2>1. tx # NoTx /\ tx \in Tx /\ UNCHANGED <<nodes, pending, gone, used>>
    BY <1>8 DEF Database, CommitRows, CommitHistory, CommitSetting, Open, TypeOK, NoTx,
       RowKinds, memory, ghosts
  <2>2. \A s \in hist' : s \in hist \/ s \in tx.batch
    BY <1>8 DEF Database, CommitRows, CommitHistory, CommitSetting
  <2>3. \A s \in tx.batch : s.node \in Nodes /\ nodes[s.node] # NoNode
    BY <2>1, SampleNode DEF Tx, CopyInv
  <2>4. \A n \in Nodes : diskNodes'[n] # NoNode => diskNodes[n] # NoNode \/ tx.snap[n] # NoNode
    BY <1>8 DEF Database, CommitRows, CommitHistory, CommitSetting
  <2>5. \A n \in Nodes : tx.snap[n] # NoNode => n \in used /\ n \notin gone
    BY <2>1 DEF CopyInv, IdentityInv, NoResurrection
  <2> QED
    BY <2>1, <2>2, <2>3, <2>4, <2>5 DEF IdentityInv, NoResurrection, TypeOK
<1>9. ASSUME CommitDelete PROVE IdentityInv'
  BY <1>9 DEF CommitDelete, IdentityInv, NoResurrection, TypeOK, memory, ghosts
<1>10. ASSUME Start PROVE IdentityInv'
  BY <1>10 DEF Start, IdentityInv, NoResurrection, TypeOK, disk, ghosts
<1>11. ASSUME Crash \/ FailClose PROVE IdentityInv'
  BY <1>11 DEF Crash, FailClose, LoseMemory, None, IdentityInv, NoResurrection, TypeOK, disk
<1>12. ASSUME StopFlusher \/ BeginClose \/ FinishClose PROVE IdentityInv'
  BY <1>1, <1>12 DEF StopFlusher, BeginClose, FinishClose, memory, disk, ghosts
<1>13. ASSUME UNCHANGED vars PROVE IdentityInv'
  BY <1>1, <1>13 DEF vars, memory, disk, ghosts
<1> QED
  BY <1>2, <1>3, <1>4, <1>5, <1>6, <1>7, <1>8, <1>9, <1>10, <1>11, <1>12, <1>13
  DEF Next, Database, Process

LEMMA ReportNumber ==
    ASSUME TypeOK
    PROVE  /\ clock \in Nat
           /\ \A n \in Nodes :
                /\ nodes[n] # NoNode => nodes[n].rep \in Nat
                /\ diskNodes[n] # NoNode => diskNodes[n].rep \in Nat
                /\ tx # NoTx /\ tx.snap[n] # NoNode => tx.snap[n].rep \in Nat
<1>1. \A v \in NodeOrNone : v # NoNode => v.rep \in Nat
  BY DEF NodeOrNone, Node
<1>2. tx # NoTx => tx.snap \in [Nodes -> NodeOrNone]
  BY DEF TypeOK, Tx
<1> QED
  BY <1>1, <1>2 DEF TypeOK

(* Copies are taken from the live state and written before a newer one is.  *)
LEMMA AgeNext ==
    TypeOK /\ CopyInv /\ UnpublishedInv /\ CacheMatchesDisk /\ IdentityInv /\ AgeInv
    /\ [Next]_vars => AgeInv'
<1> SUFFICES ASSUME TypeOK, CopyInv, UnpublishedInv, CacheMatchesDisk, IdentityInv, AgeInv
             PROVE  [Next]_vars => AgeInv'
  OBVIOUS
<1> USE ReportNumber
<1>1. ASSUME UNCHANGED <<proc, nodes, diskNodes, clock>>, tx' = NoTx PROVE AgeInv'
  BY <1>1 DEF AgeInv, Alive
<1>2. ASSUME Agents PROVE AgeInv'
  <2>1. PICK n \in Nodes : Touch(n)
    BY <1>2 DEF Agents, IngestBasicInfo, IngestReport
  <2>2. UNCHANGED <<proc, tx, diskNodes>> /\ clock' = clock + 1 /\ nodes[n] # NoNode
    BY <2>1 DEF Touch, disk, Live
  <2>3. \A p \in Nodes : /\ nodes'[p] = NoNode <=> nodes[p] = NoNode
                         /\ p # n => nodes'[p] = nodes[p]
                         /\ p = n => nodes'[p].rep = clock + 1
    BY <2>1, TouchKeepsMetadata
  <2> QED
    BY <2>2, <2>3 DEF AgeInv, Alive
<1>3. ASSUME Alive, NEW kind, NEW full, NEW c, NEW snap, NEW batch, NEW who,
             Begin(kind, full, c, snap, batch, who),
             UNCHANGED <<proc, nodes, diskNodes, clock>>,
             \A n \in Nodes : snap[n] # NoNode =>
                 \/ nodes[n] # NoNode /\ snap[n].rep = nodes[n].rep
                 \/ nodes[n] = NoNode /\ diskNodes[n] = NoNode /\ snap[n].rep = 0
      PROVE  AgeInv'
  <2>1. tx'.snap = snap
    BY <1>3 DEF Begin
  <2> QED
    BY <1>3, <2>1 DEF AgeInv, Alive
<1>4. ASSUME NEW n \in Nodes, NEW m \in Metas, BeginCreate(n, m) PROVE AgeInv'
  <2>1. PICK w \in 1..MaxWeight :
            Begin("create", TRUE, cfg,
                  [nodes EXCEPT ![n] = [meta |-> m, weight |-> w, rep |-> 0]], {}, {n})
    BY <1>4 DEF BeginCreate
  <2>2. nodes[n] = NoNode /\ diskNodes[n] = NoNode
    BY <1>4 DEF BeginCreate, IdentityInv
  <2>3. UNCHANGED <<proc, nodes, diskNodes, clock>> /\ Alive
    BY <1>4 DEF BeginCreate, memory, disk, Free
  <2> DEFINE snap == [nodes EXCEPT ![n] = [meta |-> m, weight |-> w, rep |-> 0]]
  <2>4. \A p \in Nodes : snap[p] # NoNode =>
                 \/ nodes[p] # NoNode /\ snap[p].rep = nodes[p].rep
                 \/ nodes[p] = NoNode /\ diskNodes[p] = NoNode /\ snap[p].rep = 0
    BY <2>2 DEF TypeOK
  <2> HIDE DEF snap
  <2> QED
    BY <1>3, <2>1, <2>3, <2>4 DEF snap
<1>5. ASSUME NEW n \in Nodes, NEW m \in Metas, BeginUpdate(n, m) PROVE AgeInv'
  <2>1. /\ Begin("update", FALSE, cfg,
                 [None EXCEPT ![n] = [nodes[n] EXCEPT !.meta = m]], {}, {n})
        /\ UNCHANGED <<proc, nodes, diskNodes, clock>> /\ Alive
    BY <1>5 DEF BeginUpdate, memory, disk, Free
  <2> DEFINE snap == [None EXCEPT ![n] = [nodes[n] EXCEPT !.meta = m]]
  <2>2. nodes[n] \in Node /\ nodes[n] # NoNode
    BY <1>5 DEF BeginUpdate, Live, TypeOK, NodeOrNone
  <2>3. \A p \in Nodes : snap[p] # NoNode => nodes[p] # NoNode /\ snap[p].rep = nodes[p].rep
    BY <2>2 DEF None, Node
  <2> HIDE DEF snap
  <2> QED
    BY <1>3, <2>1, <2>3 DEF snap
<1>6. ASSUME NEW n \in Nodes, BeginDelete(n) PROVE AgeInv'
  <2>1. /\ Begin("delete", FALSE, cfg, None, {}, {n})
        /\ UNCHANGED <<proc, nodes, diskNodes, clock>> /\ Alive
    BY <1>6 DEF BeginDelete, memory, disk, Free
  <2>2. \A p \in Nodes : None[p] = NoNode
    BY DEF None
  <2> QED
    BY <1>3, <2>1, <2>2
<1>7. ASSUME NEW c \in Cfgs, BeginConfig(c) \/ BeginSetting(c) PROVE AgeInv'
  <2>1. /\ \/ Begin("config", TRUE, c, nodes, {}, {})
           \/ Begin("setting", FALSE, c, None, {}, {})
        /\ UNCHANGED <<proc, nodes, diskNodes, clock>> /\ Alive
    BY <1>7 DEF BeginConfig, BeginSetting, memory, disk, Free
  <2>2. \A p \in Nodes : None[p] = NoNode
    BY DEF None
  <2> QED
    BY <1>3, <2>1, <2>2
<1>8. ASSUME NEW order \in Orders, BeginReorder(order) PROVE AgeInv'
  <2> DEFINE snap == [n \in Nodes |-> IF n \in DOMAIN order
                                      THEN [nodes[n] EXCEPT !.weight = order[n]]
                                      ELSE nodes[n]]
  <2>1. /\ Begin("reorder", TRUE, cfg, snap, {}, {})
        /\ UNCHANGED <<proc, nodes, diskNodes, clock>> /\ Alive
    BY <1>8 DEF BeginReorder, memory, disk, Free
  <2>2. DOMAIN order \subseteq Live
    BY DEF Orders
  <2>3. \A n \in Nodes : snap[n] # NoNode => nodes[n] # NoNode /\ snap[n].rep = nodes[n].rep
    <3>1. \A n \in Live : [nodes[n] EXCEPT !.weight = order[n]].rep = nodes[n].rep
      BY DEF Live, TypeOK, NodeOrNone, Node
    <3> QED
      BY <2>2, <3>1 DEF Live
  <2> HIDE DEF snap
  <2> QED
    BY <1>3, <2>1, <2>3
<1>9. ASSUME RollBack \/ FinishConfig \/ FinishSetting \/ FailFlush \/ FinishFlush
             \/ FinishHistory
      PROVE  AgeInv'
  BY <1>1, <1>9 DEF RollBack, FinishConfig, FinishSetting, FailFlush, FinishFlush,
     FinishHistory, memory, disk
<1>10. ASSUME FinishCreate \/ FinishUpdate \/ FinishReorder \/ FinishDelete PROVE AgeInv'
  <2>1. tx # NoTx /\ tx \in Tx /\ tx.phase = "committed" /\ tx.kind \in AdminKinds
    BY <1>10 DEF FinishCreate, FinishUpdate, FinishReorder, FinishDelete, Committed,
       TypeOK, NoTx, AdminKinds
  <2>2. UNCHANGED <<proc, diskNodes, clock>> /\ tx' = NoTx
    BY <1>10 DEF FinishCreate, FinishUpdate, FinishReorder, FinishDelete, disk
  <2>3. ASSUME NEW n \in Nodes, nodes'[n] # NoNode
        PROVE  \/ nodes[n] # NoNode /\ nodes'[n].rep = nodes[n].rep
               \/ tx.snap[n] # NoNode /\ nodes'[n] = tx.snap[n] /\ nodes[n] = NoNode
                  /\ diskNodes[n] = tx.snap[n]
    <3>1. CASE FinishCreate
      BY <2>1, <2>3, <3>1 DEF FinishCreate, Committed, CopyInv, UnpublishedInv, Publishing
    <3>2. CASE FinishUpdate
      <4>1. n \in tx.who => nodes[n] # NoNode
        BY <2>1, <3>2 DEF FinishUpdate, Committed, CopyInv
      <4> QED
        BY <2>3, <3>2, <4>1 DEF FinishUpdate, TypeOK, NodeOrNone, Node
    <3>3. CASE FinishReorder
      BY <2>3, <3>3 DEF FinishReorder, Live, TypeOK, NodeOrNone, Node
    <3>4. CASE FinishDelete
      BY <2>3, <3>4 DEF FinishDelete
    <3> QED
      BY <1>10, <3>1, <3>2, <3>3, <3>4
  <2> QED
    BY <2>1, <2>2, <2>3 DEF AgeInv, Alive
<1>11. ASSUME BeginFlush PROVE AgeInv'
  <2>1. UNCHANGED <<proc, nodes, diskNodes, clock>> /\ Alive
    BY <1>11 DEF BeginFlush, disk, Free
  <2>2. tx' = NoTx \/ Begin("flush", ~cacheReady, cfg, FlushRows,
                            {s \in pending : FlushRows[s.node] # NoNode}, {})
    BY <1>11 DEF BeginFlush
  <2>3. \A n \in Nodes : FlushRows[n] # NoNode => FlushRows[n] = nodes[n]
    BY DEF FlushRows
  <2> QED
    BY <1>1, <1>3, <2>1, <2>2, <2>3
<1>12. ASSUME BeginHistory \/ BeginClose PROVE AgeInv'
  <2>1. UNCHANGED <<proc, nodes, diskNodes, clock>> /\ Alive
    BY <1>12 DEF BeginHistory, BeginClose, memory, disk, Free
  <2>2. \/ Begin("history", FALSE, cfg, None,
                 {s \in pending : nodes[s.node] # NoNode}, {})
        \/ Begin("close", TRUE, cfg, nodes,
                 {s \in pending : nodes[s.node] # NoNode}, {})
    BY <1>12 DEF BeginHistory, BeginClose
  <2>3. \A p \in Nodes : None[p] = NoNode
    BY DEF None
  <2> QED
    BY <1>3, <2>1, <2>2, <2>3
<1>13. ASSUME CommitRows PROVE AgeInv'
  <2>1. /\ UNCHANGED <<proc, nodes, clock>> /\ Alive /\ tx # NoTx
        /\ tx'.snap = tx.snap
    BY <1>13 DEF CommitRows, memory, Open, TypeOK, NoTx, RowKinds, Tx
  <2>2. \A n \in Nodes : /\ tx.snap[n] # NoNode => diskNodes'[n] = tx.snap[n]
                         /\ tx.snap[n] = NoNode => diskNodes'[n] \in {NoNode, diskNodes[n]}
    BY <1>13, RowsWritten
  <2> QED
    BY <2>1, <2>2 DEF AgeInv, Alive
<1>14. ASSUME CommitHistory \/ CommitSetting \/ CommitDelete PROVE AgeInv'
  <2>1. /\ UNCHANGED <<proc, nodes, clock>> /\ Alive /\ tx # NoTx
        /\ tx'.snap = tx.snap
        /\ \A n \in Nodes : diskNodes'[n] \in {NoNode, diskNodes[n]}
    BY <1>14 DEF CommitHistory, CommitSetting, CommitDelete, memory, Open, TypeOK, NoTx, Tx
  <2> QED
    BY <2>1 DEF AgeInv, Alive
<1>15. ASSUME Start PROVE AgeInv'
  BY <1>15 DEF Start, AgeInv, disk
<1>16. ASSUME Crash \/ FailClose PROVE AgeInv'
  BY <1>16 DEF Crash, FailClose, LoseMemory, None, AgeInv, disk
<1>17. ASSUME FinishClose PROVE AgeInv'
  BY <1>17 DEF FinishClose, AgeInv, Alive, disk
<1>18. ASSUME StopFlusher PROVE AgeInv'
  BY <1>18 DEF StopFlusher, AgeInv, Alive, disk, memory
<1>19. ASSUME UNCHANGED vars PROVE AgeInv'
  BY <1>19 DEF vars, AgeInv, Alive, disk, memory
<1> QED
  BY <1>2, <1>4, <1>5, <1>6, <1>7, <1>8, <1>9, <1>10, <1>11, <1>12, <1>13, <1>14,
     <1>15, <1>16, <1>17, <1>18, <1>19
  DEF Next, Admin, Flusher, Database, Process
-----------------------------------------------------------------------------
(* The inductive invariant of the store.                                    *)
THEOREM DurabilityInvariant == Spec => []DurabilityInv
<1>1. DurabilityInv /\ [Next]_vars => DurabilityInv'
  BY TypeNext, CopyNext, MetadataNext, UnpublishedNext, CacheNext, IdentityNext, AgeNext
  DEF DurabilityInv
<1> QED
  BY <1>1, DurabilityInit, PTL DEF Spec

(* Every variable keeps its type.                                           *)
THEOREM TypeCorrect == Spec => []TypeOK
<1>1. DurabilityInv => TypeOK
  BY DEF DurabilityInv
<1> QED
  BY <1>1, DurabilityInvariant, PTL

(* Whatever an administrator was told has happened is on disk, and whatever *)
(* is on disk the running server shows.                                     *)
THEOREM AdministrationIsDurable == Spec => []MetadataDurable
<1>1. DurabilityInv => MetadataDurable
  BY DEF DurabilityInv
<1> QED
  BY <1>1, DurabilityInvariant, PTL

(* The row cache never hides a difference between memory and disk.          *)
THEOREM CacheIsExact == Spec => []CacheMatchesDisk
<1>1. DurabilityInv => CacheMatchesDisk
  BY DEF DurabilityInv
<1> QED
  BY <1>1, DurabilityInvariant, PTL

(* No step brings anything of a deleted node back.                          *)
THEOREM DeletionIsFinal == Spec => []NoResurrection
<1>1. DurabilityInv => NoResurrection
  BY DEF DurabilityInv, IdentityInv
<1> QED
  BY <1>1, DurabilityInvariant, PTL
-----------------------------------------------------------------------------
(* The number of a node's last report changes only by a report.             *)
LEMMA AdminKeepsReports ==
    ASSUME TypeOK, CopyInv, Admin, NEW n \in Nodes, nodes[n] # NoNode, nodes'[n] # NoNode
    PROVE  nodes'[n].rep = nodes[n].rep
<1>1. CASE UNCHANGED nodes
  BY <1>1
<1>2. CASE FinishCreate
  <2>1. n \notin tx.who
    BY <1>2 DEF FinishCreate, Committed, CopyInv, NoTx
  <2> QED
    BY <1>2, <2>1 DEF FinishCreate
<1>3. CASE FinishUpdate
  BY <1>3 DEF FinishUpdate, TypeOK, NodeOrNone, Node
<1>4. CASE FinishReorder
  BY <1>4 DEF FinishReorder, Live, TypeOK, NodeOrNone, Node
<1>5. CASE FinishDelete
  BY <1>5 DEF FinishDelete
<1> QED
  BY <1>1, <1>2, <1>3, <1>4, <1>5 DEF Admin, BeginCreate, BeginUpdate, BeginDelete,
     BeginConfig, BeginSetting, BeginReorder, RollBack, FinishConfig, FinishSetting, memory

LEMMA NoRollbackStep ==
    ASSUME DurabilityInv, Next, NEW n \in Nodes
    PROVE  /\ Alive /\ nodes[n] # NoNode /\ nodes'[n] # NoNode
                 => nodes'[n].rep >= nodes[n].rep
           /\ diskNodes[n] # NoNode /\ diskNodes'[n] # NoNode
                 => diskNodes'[n].rep >= diskNodes[n].rep
<1> USE ReportNumber DEF DurabilityInv
<1>1. ASSUME Alive, nodes[n] # NoNode, nodes'[n] # NoNode PROVE nodes'[n].rep >= nodes[n].rep
  <2>1. CASE Agents
    <3>1. PICK p \in Nodes : Touch(p)
      BY <2>1 DEF Agents, IngestBasicInfo, IngestReport
    <3>2. nodes'[n] = nodes[n] \/ nodes'[n].rep = clock + 1
      BY <3>1, TouchKeepsMetadata
    <3> QED
      BY <1>1, <3>2 DEF AgeInv
  <2>2. CASE Admin
    BY <1>1, <2>2, AdminKeepsReports
  <2>3. CASE Flusher \/ Database \/ Process
    <3>1. UNCHANGED nodes \/ nodes' = None
      BY <1>1, <2>3 DEF Flusher, Database, Process, BeginFlush, FailFlush, FinishFlush,
         BeginHistory, FinishHistory, CommitRows, CommitHistory, CommitSetting,
         CommitDelete, Start, Crash, FailClose, LoseMemory, StopFlusher, BeginClose,
         FinishClose, memory, Alive
    <3> QED
      BY <1>1, <3>1 DEF None
  <2> QED
    BY <2>1, <2>2, <2>3 DEF Next
<1>2. ASSUME diskNodes[n] # NoNode, diskNodes'[n] # NoNode
      PROVE  diskNodes'[n].rep >= diskNodes[n].rep
  <2>1. CASE CommitRows
    <3>1. tx # NoTx
      BY <2>1 DEF CommitRows, Open, NoTx, RowKinds
    <3> QED
      BY <1>2, <2>1, <3>1, RowsWritten DEF AgeInv
  <2>2. CASE CommitDelete
    BY <1>2, <2>2 DEF CommitDelete
  <2>3. CASE ~CommitRows /\ ~CommitDelete
    <3>1. UNCHANGED diskNodes
      BY <2>3 DEF Next, Agents, IngestBasicInfo, IngestReport, Touch, Admin, BeginCreate,
         BeginUpdate, BeginDelete, BeginConfig, BeginSetting, BeginReorder, RollBack,
         FinishCreate, FinishUpdate, FinishReorder, FinishConfig, FinishSetting,
         FinishDelete, Flusher, Database, Process, BeginFlush, FailFlush, FinishFlush,
         BeginHistory, FinishHistory, CommitHistory, CommitSetting, Start, Crash,
         FailClose, LoseMemory, StopFlusher, BeginClose, FinishClose, disk
    <3> QED
      BY <1>2, <3>1
  <2> QED
    BY <2>1, <2>2, <2>3
<1> QED
  BY <1>1, <1>2

(* No report is undone, in memory or on disk, by any interleaving.          *)
THEOREM ReportsAreNeverUndone == Spec => NoRollback
<1>1. DurabilityInv /\ [Next]_vars =>
        [\A n \in Nodes :
            /\ Alive /\ nodes[n] # NoNode /\ nodes'[n] # NoNode
                  => nodes'[n].rep >= nodes[n].rep
            /\ diskNodes[n] # NoNode /\ diskNodes'[n] # NoNode
                  => diskNodes'[n].rep >= diskNodes[n].rep]_vars
  BY NoRollbackStep
<1> QED
  BY <1>1, DurabilityInvariant, PTL DEF Spec, NoRollback
-----------------------------------------------------------------------------
(* A report is on disk, or a flag will make some save write it.  A flush    *)
(* that clears the flags holds the rows; when it rolls back it sets the     *)
(* flags of those rows again, if it was not a full one.                     *)
LEMMA ReportNext ==
    ASSUME ~FirstFlushMayFail, DurabilityInv, ReportInv, [Next]_vars
    PROVE  ReportInv'
<1> SUFFICES ASSUME Alive', NEW n \in Nodes, nodes'[n] # NoNode
             PROVE  /\ diskNodes'[n] # NoNode =>
                         \/ nodes'[n].rep = diskNodes'[n].rep
                         \/ Marked(n)'
                         \/ tx' # NoTx /\ tx'.kind = "flush" /\ tx'.phase = "open"
                            /\ tx'.snap[n] # NoNode
                    /\ tx' # NoTx /\ tx'.snap[n] # NoNode =>
                         nodes'[n].rep = tx'.snap[n].rep \/ Marked(n)'
  BY DEF ReportInv
<1>0. ASSUME Alive, nodes[n] # NoNode
      PROVE  /\ diskNodes[n] # NoNode =>
                  \/ nodes[n].rep = diskNodes[n].rep
                  \/ Marked(n)
                  \/ tx # NoTx /\ tx.kind = "flush" /\ tx.phase = "open"
                     /\ tx.snap[n] # NoNode
             /\ tx # NoTx /\ tx.snap[n] # NoNode =>
                  nodes[n].rep = tx.snap[n].rep \/ Marked(n)
  BY <1>0 DEF ReportInv
<1> DEFINE Goal == /\ diskNodes'[n] # NoNode =>
                         \/ nodes'[n].rep = diskNodes'[n].rep
                         \/ Marked(n)'
                         \/ tx' # NoTx /\ tx'.kind = "flush" /\ tx'.phase = "open"
                            /\ tx'.snap[n] # NoNode
                   /\ tx' # NoTx /\ tx'.snap[n] # NoNode =>
                         nodes'[n].rep = tx'.snap[n].rep \/ Marked(n)'
<1> SUFFICES Goal
  OBVIOUS
(* Reports. *)
<1>1. CASE Agents
  <2>1. PICK p \in Nodes : Touch(p)
    BY <1>1 DEF Agents, IngestBasicInfo, IngestReport
  <2>2. UNCHANGED <<proc, tx, diskNodes>> /\ storeDirty' /\ Alive
    BY <2>1 DEF Touch, disk
  <2>3. p = n => Marked(n)'
    BY <2>1, <2>2 DEF Touch, Marked, TypeOK, DurabilityInv
  <2>4. p # n => nodes'[n] = nodes[n] /\ (Marked(n) => Marked(n)')
    BY <2>1, <2>2, TouchKeepsMetadata DEF Touch, Marked, TypeOK, DurabilityInv
  <2> QED
    BY <1>0, <2>2, <2>3, <2>4
(* A step that starts from an idle persistMu and keeps the flags. *)
<1>2. ASSUME tx = NoTx, Alive, UNCHANGED <<proc, nodes, diskNodes, storeDirty, nodeDirty>>,
             NEW kind, NEW full, NEW c, NEW snap, NEW batch, NEW who,
             Begin(kind, full, c, snap, batch, who),
             nodes[n] # NoNode /\ snap[n] # NoNode => snap[n].rep = nodes[n].rep
      PROVE  Goal
  <2>1. tx'.snap = snap
    BY <1>2 DEF Begin
  <2> QED
    BY <1>0, <1>2, <2>1 DEF Marked
<1>3. CASE \E p \in Nodes, m \in Metas : BeginCreate(p, m) \/ BeginUpdate(p, m)
  <2>1. PICK p \in Nodes, m \in Metas : BeginCreate(p, m) \/ BeginUpdate(p, m)
    BY <1>3
  <2>2. /\ tx = NoTx /\ Alive
        /\ UNCHANGED <<proc, nodes, diskNodes, storeDirty, nodeDirty>>
    BY <2>1 DEF BeginCreate, BeginUpdate, Free, memory, disk
  <2>3. CASE BeginUpdate(p, m)
    <3> DEFINE snap == [None EXCEPT ![p] = [nodes[p] EXCEPT !.meta = m]]
    <3>1. nodes[p] \in Node
      BY <2>3 DEF BeginUpdate, Live, TypeOK, NodeOrNone, DurabilityInv
    <3>2. snap[n] # NoNode => snap[n].rep = nodes[n].rep
      BY <3>1 DEF None, Node
    <3>3. Begin("update", FALSE, cfg, snap, {}, {p})
      BY <2>3 DEF BeginUpdate
    <3> HIDE DEF snap, Goal
    <3> QED
      BY <1>2, <2>2, <3>2, <3>3
  <2>4. CASE BeginCreate(p, m)
    <3>1. PICK w \in 1..MaxWeight :
              Begin("create", TRUE, cfg,
                    [nodes EXCEPT ![p] = [meta |-> m, weight |-> w, rep |-> 0]], {}, {p})
      BY <2>4 DEF BeginCreate
    <3> DEFINE snap == [nodes EXCEPT ![p] = [meta |-> m, weight |-> w, rep |-> 0]]
    <3>2. nodes[p] = NoNode
      BY <2>4 DEF BeginCreate, IdentityInv, DurabilityInv
    <3>3. nodes[n] # NoNode => snap[n].rep = nodes[n].rep
      BY <3>2 DEF TypeOK, DurabilityInv
    <3> HIDE DEF snap, Goal
    <3> QED
      BY <1>2, <2>2, <3>1, <3>3 DEF snap
  <2> QED
    BY <2>1, <2>3, <2>4
<1>4. CASE \/ \E p \in Nodes : BeginDelete(p)
           \/ \E c \in Cfgs : BeginConfig(c) \/ BeginSetting(c)
           \/ BeginHistory \/ BeginClose
  <2>1. /\ tx = NoTx /\ Alive
        /\ UNCHANGED <<proc, nodes, diskNodes, storeDirty, nodeDirty>>
    BY <1>4 DEF BeginDelete, BeginConfig, BeginSetting, BeginHistory, BeginClose, Free,
       memory, disk
  <2>2. tx'.snap = None \/ tx'.snap = nodes
    BY <1>4 DEF BeginDelete, BeginConfig, BeginSetting, BeginHistory, BeginClose, Begin
  <2> QED
    BY <1>0, <2>1, <2>2 DEF None, Marked
<1>5. CASE \E order \in Orders : BeginReorder(order)
  <2>1. PICK order \in Orders : BeginReorder(order)
    BY <1>5
  <2> DEFINE snap == [p \in Nodes |-> IF p \in DOMAIN order
                                      THEN [nodes[p] EXCEPT !.weight = order[p]]
                                      ELSE nodes[p]]
  <2>2. /\ Begin("reorder", TRUE, cfg, snap, {}, {}) /\ tx = NoTx /\ Alive
        /\ UNCHANGED <<proc, nodes, diskNodes, storeDirty, nodeDirty>>
    BY <2>1 DEF BeginReorder, Free, memory, disk
  <2>3. nodes[n] # NoNode => snap[n].rep = nodes[n].rep
    BY DEF TypeOK, NodeOrNone, Node, DurabilityInv
  <2> HIDE DEF snap, Goal
  <2> QED
    BY <1>2, <2>2, <2>3
(* The end of an operation: no flag is lost. *)
<1>6. CASE RollBack \/ FinishFlush \/ FinishHistory \/ FinishSetting
  <2>1. /\ UNCHANGED <<proc, nodes, diskNodes, storeDirty, nodeDirty>> /\ tx' = NoTx
        /\ ~(tx.kind = "flush" /\ tx.phase = "open")
    BY <1>6 DEF RollBack, FinishFlush, FinishHistory, FinishSetting, Open, Committed,
       AdminKinds, memory, disk
  <2> QED
    BY <1>0, <2>1 DEF Marked, Alive
<1>7. CASE FinishCreate \/ FinishUpdate \/ FinishReorder \/ FinishConfig \/ FinishDelete
  <2>1. /\ UNCHANGED <<proc, diskNodes>> /\ tx' = NoTx /\ Alive
        /\ tx # NoTx /\ tx.kind # "flush"
        /\ storeDirty => storeDirty'
    BY <1>7 DEF FinishCreate, FinishUpdate, FinishReorder, FinishConfig, FinishDelete,
       Committed, NoTx, disk
  <2>2. nodeDirty[n] => nodeDirty'[n]
    BY <1>7 DEF FinishCreate, FinishUpdate, FinishReorder, FinishConfig, FinishDelete,
       TypeOK, DurabilityInv
  <2>3. CASE nodes[n] = NoNode
    <3>1. /\ FinishCreate
          /\ n \in tx.who
      BY <1>7, <2>1, <2>3 DEF FinishCreate, FinishUpdate, FinishReorder, FinishConfig,
         FinishDelete, Committed, CopyInv, Live, DurabilityInv
    <3>2. nodes'[n] = diskNodes[n]
      BY <2>1, <3>1 DEF FinishCreate, Committed, UnpublishedInv, Publishing, AdminKinds,
         DurabilityInv
    <3> QED
      BY <2>1, <3>2
  <2>4. CASE nodes[n] # NoNode
    <3>1. nodes'[n].rep = nodes[n].rep
      BY <1>7, <2>4, AdminKeepsReports DEF Admin, DurabilityInv
    <3> QED
      BY <1>0, <2>1, <2>2, <2>4, <3>1 DEF Marked
  <2> QED
    BY <2>3, <2>4
(* The flusher clears the flags of the rows it takes along. *)
<1>8. CASE BeginFlush
  <2>1. /\ tx = NoTx /\ Alive /\ proc = "running"
        /\ UNCHANGED <<nodes, diskNodes>>
        /\ tx' = NoTx => FlushRows = None /\ cacheReady
        /\ tx' # NoTx => tx'.kind = "flush" /\ tx'.phase = "open" /\ tx'.snap = FlushRows
    BY <1>8 DEF BeginFlush, Free, Begin, disk, NoTx
  <2>2. nodeDirty[n] => FlushRows[n] = nodes[n]
    BY DEF FlushRows
  <2>3. FlushRows[n] # NoNode => FlushRows[n] = nodes[n]
    BY DEF FlushRows
  <2>4. Marked(n) => nodeDirty[n]
    BY <2>1 DEF Marked
  <2>5. FlushRows = None => FlushRows[n] = NoNode
    BY DEF None
  <2> QED
    BY <1>0, <2>1, <2>2, <2>3, <2>4, <2>5
<1>9. CASE FailFlush
  <2>1. /\ UNCHANGED <<proc, nodes, diskNodes>> /\ tx' = NoTx /\ storeDirty' /\ Alive
        /\ tx # NoTx
        /\ tx.full => proc = "closing"
    BY <1>9 DEF FailFlush, Open, disk, NoTx, Alive
  <2>2. /\ nodeDirty[n] => nodeDirty'[n]
        /\ tx.snap[n] # NoNode /\ ~tx.full => nodeDirty'[n]
    BY <1>9 DEF FailFlush
  <2> QED
    BY <1>0, <2>1, <2>2 DEF Marked
(* The transactions. *)
<1>10. CASE CommitRows
  <2>1. /\ UNCHANGED <<proc, nodes, storeDirty, nodeDirty>> /\ Alive /\ tx # NoTx
        /\ tx'.snap = tx.snap
    BY <1>10 DEF CommitRows, memory, Open, TypeOK, NoTx, RowKinds, Tx, DurabilityInv
  <2>2. /\ tx.snap[n] # NoNode => diskNodes'[n] = tx.snap[n]
        /\ tx.snap[n] = NoNode => diskNodes'[n] \in {NoNode, diskNodes[n]}
    BY <1>10, RowsWritten DEF DurabilityInv
  <2> QED
    BY <1>0, <2>1, <2>2 DEF Marked
<1>11. CASE CommitHistory \/ CommitSetting \/ CommitDelete
  <2>1. /\ UNCHANGED <<proc, nodes, storeDirty, nodeDirty>> /\ Alive /\ tx # NoTx
        /\ tx'.snap = tx.snap /\ tx.kind # "flush"
        /\ diskNodes'[n] \in {NoNode, diskNodes[n]}
    BY <1>11 DEF CommitHistory, CommitSetting, CommitDelete, memory, Open, TypeOK, NoTx,
       Tx, DurabilityInv
  <2> QED
    BY <1>0, <2>1 DEF Marked
(* The process. *)
<1>12. CASE Start
  BY <1>12 DEF Start, disk
<1>13. CASE Crash \/ FailClose \/ FinishClose
  BY <1>13 DEF Crash, FailClose, LoseMemory, FinishClose, Alive
<1>14. CASE StopFlusher
  BY <1>0, <1>14 DEF StopFlusher, memory, disk, Marked
<1>15. CASE UNCHANGED vars
  BY <1>0, <1>15 DEF vars, memory, disk, Marked, Alive
<1> QED
  BY <1>1, <1>3, <1>4, <1>5, <1>6, <1>7, <1>8, <1>9, <1>10, <1>11, <1>12, <1>13, <1>14,
     <1>15
  DEF Next, Admin, Flusher, Database, Process

(* Nodes that agree on the metadata and on the last report are equal.       *)
LEMMA SameNode ==
    ASSUME NEW a \in NodeOrNone, NEW b \in NodeOrNone,
           Administered(a) = Administered(b), a = NoNode <=> b = NoNode,
           a # NoNode => a.rep = b.rep
    PROVE  a = b
<1>1. CASE a = NoNode
  BY <1>1
<1>2. CASE a # NoNode
  <2>1. a \in Node /\ b \in Node
    BY <1>2 DEF NodeOrNone
  <2>2. [meta |-> a.meta, weight |-> a.weight] = [meta |-> b.meta, weight |-> b.weight]
    BY <1>2 DEF Administered
  <2>3. a.meta = b.meta /\ a.weight = b.weight
    BY <2>2
  <2> QED
    BY <1>2, <2>1, <2>3 DEF Node
<1> QED
  BY <1>1, <1>2

(* Close writes everything, unless nothing is marked: then there is nothing *)
(* left to write.                                                           *)
LEMMA FinalNext ==
    ASSUME DurabilityInv, ReportInv, FinalInv, [Next]_vars
    PROVE  FinalInv'
<1> USE DEF DurabilityInv
<1> DEFINE Closed == tx # NoTx /\ tx.kind = "close" /\ tx.phase = "committed"
<1>1. ASSUME proc' # "stopped", ~Closed' PROVE FinalInv'
  BY <1>1 DEF FinalInv, CleanStopSaves
<1>2. ASSUME UNCHANGED <<proc, nodes, diskNodes>>, Closed' => Closed PROVE FinalInv'
  BY <1>2 DEF FinalInv, CleanStopSaves
<1>3. CASE Agents
  BY <1>1, <1>3 DEF Agents, IngestBasicInfo, IngestReport, Touch, MuFree, Alive
<1>4. CASE Admin \/ Flusher
  <2>1. Alive /\ UNCHANGED proc
    BY <1>4 DEF Admin, Flusher, BeginCreate, BeginUpdate, BeginDelete, BeginConfig,
       BeginSetting, BeginReorder, RollBack, FinishCreate, FinishUpdate, FinishReorder,
       FinishConfig, FinishSetting, FinishDelete, BeginFlush, FailFlush, FinishFlush,
       BeginHistory, FinishHistory, Free, Open, Committed
  <2>2. tx' = NoTx \/ tx'.phase = "open"
    BY <1>4 DEF Admin, Flusher, BeginCreate, BeginUpdate, BeginDelete, BeginConfig,
       BeginSetting, BeginReorder, RollBack, FinishCreate, FinishUpdate, FinishReorder,
       FinishConfig, FinishSetting, FinishDelete, BeginFlush, FailFlush, FinishFlush,
       BeginHistory, FinishHistory, Begin
  <2> QED
    BY <1>1, <2>1, <2>2 DEF Alive
<1>5. CASE CommitRows
  <2>1. /\ UNCHANGED <<proc, nodes>> /\ Alive /\ tx # NoTx
        /\ tx'.kind = tx.kind
    BY <1>5 DEF CommitRows, memory, Open, TypeOK, NoTx, RowKinds, Tx
  <2>2. CASE tx.kind = "close"
    <3>1. tx.snap = nodes /\ tx.full
      BY <2>1, <2>2 DEF CopyInv
    <3>2. \A n \in Nodes : diskNodes'[n] = nodes[n]
      BY <1>5, <3>1, RowsWritten
    <3>3. diskNodes' = [n \in Nodes |-> IF Kept(n) THEN diskNodes[n] ELSE tx.snap[n]]
      BY <1>5 DEF CommitRows
    <3>4. diskNodes' = nodes
      BY <3>2, <3>3 DEF TypeOK
    <3> QED
      BY <2>1, <3>4 DEF FinalInv, CleanStopSaves
  <2>3. CASE tx.kind # "close"
    BY <1>1, <2>1, <2>3 DEF Alive
  <2> QED
    BY <2>2, <2>3
<1>6. CASE CommitHistory \/ CommitSetting \/ CommitDelete
  <2>1. Alive /\ UNCHANGED proc /\ tx'.kind # "close"
    BY <1>6 DEF CommitHistory, CommitSetting, CommitDelete, Open, TypeOK, NoTx, Tx
  <2> QED
    BY <1>1, <2>1 DEF Alive
<1>7. CASE Start \/ Crash \/ FailClose
  BY <1>1, <1>7 DEF Start, Crash, FailClose, LoseMemory
<1>8. CASE StopFlusher
  BY <1>8 DEF StopFlusher, memory, disk, FinalInv, CleanStopSaves, Alive
<1>9. CASE BeginClose
  BY <1>1, <1>9 DEF BeginClose, Begin, Free, Alive
<1>10. CASE FinishClose
  <2>1. UNCHANGED <<nodes, diskNodes>> /\ tx' = NoTx
    BY <1>10 DEF FinishClose, disk
  <2>2. CASE Committed("close")
    <3>1. diskNodes = nodes
      BY <2>2 DEF Committed, FinalInv, NoTx
    <3> QED
      BY <2>1, <3>1 DEF FinalInv, CleanStopSaves
  <2>3. CASE Free /\ proc = "closing" /\ ~storeDirty
    <3>1. ASSUME NEW n \in Nodes PROVE nodes[n] = diskNodes[n]
      <4>1. Administered(nodes[n]) = Administered(diskNodes[n])
        BY <2>3 DEF MetadataDurable, Publishing, Free
      <4>2. nodes[n] = NoNode <=> diskNodes[n] = NoNode
        <5>1. nodes[n] # NoNode => Administered(nodes[n]) # NoNode
          BY StoreAssumption DEF Administered, TypeOK, NodeOrNone, Node
        <5>2. diskNodes[n] # NoNode => Administered(diskNodes[n]) # NoNode
          BY StoreAssumption DEF Administered, TypeOK, NodeOrNone, Node
        <5> QED
          BY <4>1, <5>1, <5>2 DEF Administered
      <4>3. nodes[n] # NoNode => nodes[n].rep = diskNodes[n].rep
        BY <2>3, <4>2 DEF ReportInv, Marked, Free
      <4>4. nodes[n] \in NodeOrNone /\ diskNodes[n] \in NodeOrNone
        BY DEF TypeOK
      <4> QED
        BY <4>1, <4>2, <4>3, <4>4, SameNode
    <3>2. nodes = diskNodes
      BY <3>1 DEF TypeOK
    <3> QED
      BY <2>1, <3>2 DEF FinalInv, CleanStopSaves
  <2> QED
    BY <1>10, <2>2, <2>3 DEF FinishClose
<1>11. CASE UNCHANGED vars
  BY <1>2, <1>11 DEF vars, memory, disk
<1> QED
  BY <1>3, <1>4, <1>5, <1>6, <1>7, <1>8, <1>9, <1>10, <1>11 DEF Next, Database, Process

(* As long as no full flush of a running server fails, a clean stop leaves  *)
(* the last report of every node on disk.                                   *)
THEOREM CleanStopLosesNothing ==
    ASSUME ~FirstFlushMayFail
    PROVE  Spec => []CleanStopSaves
<1>1. Init => ReportInv /\ FinalInv
  BY DEF Init, None, ReportInv, FinalInv, CleanStopSaves
<1>2. DurabilityInv /\ ReportInv /\ FinalInv /\ [Next]_vars => ReportInv' /\ FinalInv'
  BY ReportNext, FinalNext
<1>3. FinalInv => CleanStopSaves
  BY DEF FinalInv
<1> QED
  BY <1>1, <1>2, <1>3, DurabilityInvariant, PTL DEF Spec
-----------------------------------------------------------------------------
(* What is acknowledged by number is what was written, if what arrived      *)
(* later is newer.                                                          *)
LEMMA OldestIsBatch ==
    ASSUME NEW Q, IsFiniteSet(Q), \A s \in Q : s.at \in Nat,
           NEW B \in SUBSET Q, \A s \in Q \ B, t \in B : t.at < s.at
    PROVE  Oldest(Q, Cardinality(B)) = B
<1> DEFINE upTo(s) == {t \in Q : t.at <= s.at}
<1>1. IsFiniteSet(B) /\ Cardinality(B) \in Nat
  BY FS_Subset, FS_CardinalityType
<1>2. ASSUME NEW s \in B PROVE Cardinality(upTo(s)) <= Cardinality(B)
  <2>1. upTo(s) \subseteq B
    BY SMT
  <2> QED
    BY <1>1, <2>1, FS_Subset
<1>3. ASSUME NEW s \in Q \ B PROVE ~(Cardinality(upTo(s)) <= Cardinality(B))
  <2>1. B \cup {s} \subseteq upTo(s)
    BY SMT
  <2>2. IsFiniteSet(upTo(s)) /\ Cardinality(upTo(s)) \in Nat
    BY FS_Subset, FS_CardinalityType
  <2>3. Cardinality(B \cup {s}) = Cardinality(B) + 1
    BY <1>1, FS_AddElement
  <2>4. Cardinality(B \cup {s}) <= Cardinality(upTo(s))
    BY <2>1, <2>2, FS_Subset
  <2> QED
    BY <1>1, <2>2, <2>3, <2>4
<1> HIDE DEF upTo
<1>4. Oldest(Q, Cardinality(B)) = {s \in Q : Cardinality(upTo(s)) <= Cardinality(B)}
  BY DEF Oldest, upTo
<1> QED
  BY <1>2, <1>3, <1>4

(* A flush acknowledges its batch, which is on disk, and nothing else.      *)
LEMMA BatchAcknowledged ==
    ASSUME TypeOK, QueueInv, FinishFlush \/ FinishHistory
    PROVE  pending' = pending \ tx.batch /\ tx.batch \subseteq hist
<1>1. tx # NoTx /\ tx \in Tx /\ tx.kind \in {"flush", "history"} /\ tx.phase = "committed"
  BY DEF FinishFlush, FinishHistory, Committed, TypeOK, NoTx
<1>2. /\ IsFiniteSet(pending) /\ \A s \in pending : s.at \in Nat
      /\ tx.batch \in SUBSET pending /\ tx.count = Cardinality(tx.batch)
      /\ \A s \in pending \ tx.batch, t \in tx.batch : t.at < s.at
      /\ tx.batch \subseteq hist
  BY <1>1 DEF QueueInv, TypeOK, Sample
<1>3. Oldest(pending, tx.count) = tx.batch
  BY <1>2, OldestIsBatch
<1> QED
  BY <1>2, <1>3 DEF FinishFlush, FinishHistory, Acknowledge

LEMMA QueueNext ==
    TypeOK /\ CopyInv /\ IdentityInv /\ QueueInv /\ [Next]_vars => QueueInv'
<1> SUFFICES ASSUME TypeOK, CopyInv, IdentityInv, QueueInv
             PROVE  [Next]_vars => QueueInv'
  OBVIOUS
<1>0. /\ \A s \in pending : s.at \in Nat /\ s.node \in Nodes /\ nodes[s.node] # NoNode
      /\ tx # NoTx => tx \in Tx
      /\ clock \in Nat
  BY DEF TypeOK, Sample, IdentityInv
<1>1. ASSUME NEW n \in Nodes, IngestBasicInfo(n) \/ IngestReport(n) PROVE QueueInv'
  <2>1. /\ UNCHANGED <<tx, hist>> /\ clock' = clock + 1 /\ storeDirty'
        /\ tx.kind # "close" /\ pending \subseteq pending'
        /\ \A s \in pending' : s \in pending \/ s.at = clock + 1
    BY <1>1 DEF IngestBasicInfo, IngestReport, Touch, MuFree, disk
  <2> QED
    BY <1>0, <2>1 DEF QueueInv
<1>2. ASSUME UNCHANGED <<pending, clock>>, tx' = NoTx, ~storeDirty => ~Alive' \/ storeDirty' \/ tx = NoTx \/ tx.kind # "flush",
             storeDirty => storeDirty', Alive' => Alive
      PROVE  QueueInv'
  BY <1>0, <1>2 DEF QueueInv
<1>3. ASSUME Free, UNCHANGED <<proc, pending, clock, storeDirty>>,
             tx' # NoTx => tx'.kind \notin {"flush", "history", "close"}
      PROVE  QueueInv'
  BY <1>0, <1>3 DEF QueueInv, Free, Alive
<1>4. ASSUME Free, UNCHANGED <<proc, pending, clock>>, tx'.kind \in {"history", "close"},
             tx'.batch = pending, tx'.count = Cardinality(pending), tx'.phase = "open",
             UNCHANGED storeDirty, tx' # NoTx
      PROVE  QueueInv'
  BY <1>0, <1>4 DEF QueueInv, Free, Alive
<1>5. ASSUME BeginFlush PROVE QueueInv'
  <2>1. \A s \in pending : FlushRows[s.node] # NoNode
    BY <1>0 DEF FlushRows
  <2>2. CASE cacheReady /\ FlushRows = None
    <3>1. pending = {}
      BY <1>0, <2>1, <2>2 DEF None
    <3> QED
      BY <1>5, <2>2, <3>1 DEF BeginFlush, QueueInv
  <2>3. CASE ~(cacheReady /\ FlushRows = None)
    <3>1. {s \in pending : FlushRows[s.node] # NoNode} = pending
      BY <2>1
    <3>2. /\ Free /\ UNCHANGED <<proc, pending, clock>> /\ ~storeDirty'
          /\ tx' = [kind |-> "flush", phase |-> "open", full |-> ~cacheReady, cfg |-> cfg,
                    snap |-> FlushRows, batch |-> pending,
                    count |-> Cardinality(pending), who |-> {}]
      BY <1>5, <2>3, <3>1 DEF BeginFlush, Begin
    <3>3. /\ tx' # NoTx /\ tx'.kind = "flush" /\ tx'.batch = pending
          /\ tx'.count = Cardinality(pending) /\ tx'.phase = "open"
      BY <3>2 DEF NoTx
    <3> QED
      BY <1>0, <3>2, <3>3 DEF QueueInv
  <2> QED
    BY <2>2, <2>3
<1>6. ASSUME BeginHistory \/ BeginClose PROVE QueueInv'
  <2>1. {s \in pending : nodes[s.node] # NoNode} = pending
    BY <1>0
  <2> QED
    BY <1>4, <1>6, <2>1 DEF BeginHistory, BeginClose, Begin, memory, NoTx
<1>7. ASSUME FinishFlush \/ FinishHistory PROVE QueueInv'
  <2>1. pending' = pending \ tx.batch /\ tx # NoTx
    BY <1>7, BatchAcknowledged DEF FinishFlush, FinishHistory, Committed, NoTx
  <2> QED
    BY <1>0, <1>7, <2>1 DEF FinishFlush, FinishHistory, Committed, QueueInv, Alive
<1>8. ASSUME Admin PROVE QueueInv'
  <2>1. CASE \/ \E n \in Nodes, m \in Metas : BeginCreate(n, m) \/ BeginUpdate(n, m)
             \/ \E n \in Nodes : BeginDelete(n)
             \/ \E c \in Cfgs : BeginConfig(c) \/ BeginSetting(c)
             \/ \E order \in Orders : BeginReorder(order)
    BY <1>3, <2>1 DEF BeginCreate, BeginUpdate, BeginDelete, BeginConfig, BeginSetting,
       BeginReorder, Begin, memory
  <2>2. CASE RollBack
    BY <1>2, <2>2 DEF RollBack, Open, AdminKinds, Alive, memory
  <2>3. CASE FinishCreate \/ FinishUpdate \/ FinishReorder \/ FinishConfig
             \/ FinishSetting
    BY <1>2, <2>3 DEF FinishCreate, FinishUpdate, FinishReorder, FinishConfig,
       FinishSetting, Committed, Alive
  <2>4. CASE FinishDelete
    <3>1. tx # NoTx /\ tx.kind = "delete" /\ pending' \subseteq pending
      BY <2>4 DEF FinishDelete, Committed, NoTx
    <3> QED
      BY <1>0, <2>4, <3>1 DEF FinishDelete, QueueInv, Alive
  <2> QED
    BY <1>8, <2>1, <2>2, <2>3, <2>4 DEF Admin
<1>9. ASSUME FailFlush PROVE QueueInv'
  BY <1>2, <1>9 DEF FailFlush, Alive
<1>10. ASSUME CommitRows \/ CommitHistory \/ CommitSetting \/ CommitDelete PROVE QueueInv'
  <2>1. /\ tx # NoTx /\ tx' = [tx EXCEPT !.phase = "committed"]
        /\ UNCHANGED <<proc, pending, storeDirty, clock>>
        /\ tx.kind \in {"flush", "history", "close"} => tx.batch \subseteq hist'
    BY <1>10 DEF CommitRows, CommitHistory, CommitSetting, CommitDelete, Open, NoTx,
       RowKinds, memory
  <2>2. /\ tx' # NoTx /\ tx'.kind = tx.kind /\ tx'.batch = tx.batch
        /\ tx'.count = tx.count
    BY <1>0, <2>1 DEF Tx, NoTx
  <2> QED
    BY <1>0, <2>1, <2>2 DEF QueueInv, Alive
<1>11. ASSUME Start \/ Crash \/ FailClose PROVE QueueInv'
  BY <1>11 DEF Start, Crash, FailClose, LoseMemory, QueueInv, Alive
<1>12. ASSUME StopFlusher PROVE QueueInv'
  BY <1>12 DEF StopFlusher, QueueInv, Alive, memory, disk
<1>13. ASSUME FinishClose PROVE QueueInv'
  BY <1>0, <1>13 DEF FinishClose, QueueInv, Alive
<1>14. ASSUME UNCHANGED vars PROVE QueueInv'
  BY <1>14 DEF vars, QueueInv, Alive, memory, disk
<1> QED
  BY <1>1, <1>5, <1>6, <1>7, <1>8, <1>9, <1>10, <1>11, <1>12, <1>13, <1>14
  DEF Next, Agents, Flusher, Database, Process

LEMMA OwedNext ==
    /\ TypeOK /\ CopyInv /\ MetadataDurable /\ IdentityInv /\ QueueInv /\ OwedInv
    /\ [Next]_vars
    => OwedInv'
<1> SUFFICES ASSUME TypeOK, CopyInv, MetadataDurable, IdentityInv, QueueInv, OwedInv
             PROVE  [Next]_vars => OwedInv'
  OBVIOUS
<1>0. /\ \A s \in taken : s.node \in Nodes
      /\ tx # NoTx => tx \in Tx
  BY DEF TypeOK, Sample
<1>1. ASSUME NEW n \in Nodes, IngestBasicInfo(n) \/ IngestReport(n) PROVE OwedInv'
  <2>1. /\ UNCHANGED <<proc, tx, hist, diskNodes, used>> /\ nodes[n] # NoNode /\ Alive
        /\ pending \subseteq pending'
        /\ \A s \in taken' : s \in taken \/ (s.node = n /\ s \in pending')
    BY <1>1 DEF IngestBasicInfo, IngestReport, Touch, Live, disk
  <2>2. n \in used /\ (tx # NoTx /\ tx.kind = "create" => n \notin tx.who)
    BY <1>1, <2>1 DEF IdentityInv, CopyInv
  <2> QED
    BY <2>1, <2>2 DEF OwedInv, NoSampleLost, Alive
<1>2. ASSUME UNCHANGED <<proc, pending, hist, diskNodes, taken, used>>,
             tx' # NoTx /\ tx'.kind = "create" => tx # NoTx /\ tx.kind = "create" /\ tx'.who = tx.who
      PROVE  OwedInv'
  BY <1>2 DEF OwedInv, NoSampleLost, Alive
<1>3. ASSUME Admin, ~FinishDelete PROVE OwedInv'
  <2>1. CASE \E n \in Nodes, m \in Metas : BeginCreate(n, m)
    <3>1. PICK n \in Nodes, m \in Metas : BeginCreate(n, m)
      BY <2>1
    <3>2. /\ n \notin used /\ used' = used \cup {n} /\ tx'.who = {n}
          /\ UNCHANGED <<proc, pending, hist, diskNodes, taken>>
      BY <3>1 DEF BeginCreate, Begin, memory, disk
    <3> QED
      BY <3>2 DEF OwedInv, NoSampleLost, Alive
  <2>2. CASE \/ \E n \in Nodes, m \in Metas : BeginUpdate(n, m)
             \/ \E n \in Nodes : BeginDelete(n)
             \/ \E c \in Cfgs : BeginConfig(c) \/ BeginSetting(c)
             \/ \E order \in Orders : BeginReorder(order)
    BY <1>2, <2>2 DEF BeginUpdate, BeginDelete, BeginConfig, BeginSetting, BeginReorder,
       Begin, memory, disk, ghosts
  <2>3. CASE RollBack \/ FinishCreate \/ FinishUpdate \/ FinishReorder \/ FinishConfig
             \/ FinishSetting
    BY <1>2, <2>3 DEF RollBack, FinishCreate, FinishUpdate, FinishReorder, FinishConfig,
       FinishSetting, memory, disk, ghosts
  <2> QED
    BY <1>3, <2>1, <2>2, <2>3 DEF Admin
<1>4. ASSUME FinishDelete PROVE OwedInv'
  BY <1>4 DEF FinishDelete, OwedInv, NoSampleLost, Alive, disk
<1>5. ASSUME FinishFlush \/ FinishHistory PROVE OwedInv'
  <2>1. pending' = pending \ tx.batch /\ tx.batch \subseteq hist
    BY <1>5, BatchAcknowledged
  <2>2. UNCHANGED <<proc, hist, diskNodes, taken, used>> /\ tx' = NoTx
    BY <1>5 DEF FinishFlush, FinishHistory, disk, ghosts
  <2> QED
    BY <2>1, <2>2 DEF OwedInv, NoSampleLost, Alive
<1>6. ASSUME BeginFlush \/ FailFlush \/ BeginHistory \/ BeginClose PROVE OwedInv'
  BY <1>2, <1>6 DEF BeginFlush, FailFlush, BeginHistory, BeginClose, Begin, NoTx,
     memory, disk, ghosts
<1>7. ASSUME CommitRows PROVE OwedInv'
  <2>1. /\ tx # NoTx /\ tx.phase = "open" /\ Alive /\ ~Publishing
        /\ tx' = [tx EXCEPT !.phase = "committed"]
        /\ UNCHANGED <<proc, pending, taken, used>>
    BY <1>7 DEF CommitRows, Open, NoTx, RowKinds, Publishing, memory, ghosts
  <2>2. tx'.kind = tx.kind /\ tx'.who = tx.who
    BY <1>0, <2>1 DEF Tx
  <2>3. \A s \in hist \ hist' : Dropped(s.node)
    BY <1>7 DEF CommitRows
  <2>4. ASSUME NEW s \in taken, Dropped(s.node) PROVE diskNodes'[s.node] = NoNode
    BY <1>0, <1>7, <2>4 DEF CommitRows, Dropped, Kept
  <2>5. ASSUME NEW s \in taken, diskNodes[s.node] = NoNode PROVE diskNodes'[s.node] = NoNode
    <3>1. nodes[s.node] = NoNode
      <4>1. Administered(nodes[s.node]) = NoNode
        BY <1>0, <2>1, <2>5 DEF MetadataDurable, Administered
      <4>2. nodes[s.node] \in NodeOrNone
        BY <1>0 DEF TypeOK
      <4> QED
        BY <4>1, <4>2, StoreAssumption DEF Administered, NodeOrNone, Node
    <3>2. tx.snap[s.node] = NoNode
      BY <1>0, <2>1, <3>1 DEF CopyInv, OwedInv
    <3> QED
      BY <1>0, <1>7, <2>5, <3>2 DEF CommitRows
  <2> QED
    BY <2>1, <2>2, <2>3, <2>4, <2>5 DEF OwedInv, NoSampleLost, Alive
<1>8. ASSUME CommitHistory \/ CommitSetting PROVE OwedInv'
  <2>1. /\ tx # NoTx /\ tx.kind # "create" /\ tx' = [tx EXCEPT !.phase = "committed"]
        /\ UNCHANGED <<proc, pending, taken, used, diskNodes>> /\ hist \subseteq hist'
    BY <1>8 DEF CommitHistory, CommitSetting, Open, NoTx, memory, ghosts
  <2>2. tx'.kind = tx.kind
    BY <1>0, <2>1 DEF Tx
  <2> QED
    BY <2>1, <2>2 DEF OwedInv, NoSampleLost, Alive
<1>9. ASSUME CommitDelete PROVE OwedInv'
  <2>1. /\ tx # NoTx /\ tx.kind = "delete" /\ tx' = [tx EXCEPT !.phase = "committed"]
        /\ UNCHANGED <<proc, pending, taken, used>>
        /\ \A s \in hist \ hist' : s.node \in tx.who
        /\ \A n \in Nodes : diskNodes'[n] = IF n \in tx.who THEN NoNode ELSE diskNodes[n]
    BY <1>9 DEF CommitDelete, Open, NoTx, memory, ghosts
  <2>2. tx'.kind = tx.kind
    BY <1>0, <2>1 DEF Tx
  <2> QED
    BY <1>0, <2>1, <2>2 DEF OwedInv, NoSampleLost, Alive
<1>10. ASSUME Start PROVE OwedInv'
  BY <1>10 DEF Start, OwedInv, NoSampleLost, Alive, disk, ghosts
<1>11. ASSUME Crash \/ FailClose PROVE OwedInv'
  BY <1>11 DEF Crash, FailClose, LoseMemory, OwedInv, NoSampleLost, Alive, disk
<1>12. ASSUME StopFlusher PROVE OwedInv'
  BY <1>12 DEF StopFlusher, OwedInv, NoSampleLost, Alive, memory, disk, ghosts
<1>13. ASSUME FinishClose PROVE OwedInv'
  <2>1. UNCHANGED <<hist, diskNodes, taken, used>> /\ tx' = NoTx /\ Alive
    BY <1>13 DEF FinishClose, Committed, Free, disk, ghosts
  <2>2. pending \subseteq hist
    BY <1>13, <2>1 DEF FinishClose, Committed, Free, QueueInv, NoTx
  <2> QED
    BY <2>1, <2>2 DEF OwedInv, NoSampleLost
<1>14. ASSUME UNCHANGED vars PROVE OwedInv'
  BY <1>2, <1>14 DEF vars, memory, disk, ghosts
<1> QED
  BY <1>1, <1>3, <1>4, <1>5, <1>6, <1>7, <1>8, <1>9, <1>10, <1>11, <1>12, <1>13, <1>14
  DEF Next, Agents, Flusher, Database, Process

(* No accepted sample is lost by a flush that acknowledges it by position,  *)
(* by a save that drops rows, or by a clean stop.                           *)
THEOREM SamplesAreKept == Spec => []NoSampleLost
<1>1. Init => QueueInv /\ OwedInv
  BY DEF Init, QueueInv, OwedInv, NoSampleLost
<1>2. DurabilityInv /\ QueueInv /\ OwedInv /\ [Next]_vars => QueueInv' /\ OwedInv'
  BY QueueNext, OwedNext DEF DurabilityInv
<1>3. OwedInv => NoSampleLost
  BY DEF OwedInv
<1> QED
  BY <1>1, <1>2, <1>3, DurabilityInvariant, PTL DEF Spec
-----------------------------------------------------------------------------
(* Only the beginning of an operation says what it is about, and reports    *)
(* move no weight.                                                          *)
LEMMA OperandNext == TypeOK /\ OperandInv /\ [Next]_vars => OperandInv'
<1> SUFFICES ASSUME TypeOK, OperandInv PROVE [Next]_vars => OperandInv'
  OBVIOUS
<1>1. ASSUME tx' = NoTx PROVE OperandInv'
  BY <1>1 DEF OperandInv
<1>2. ASSUME NEW n \in Nodes, Touch(n) PROVE OperandInv'
  <2>1. UNCHANGED tx /\ (tx # NoTx => tx \in Tx)
    BY <1>2 DEF Touch, TypeOK
  <2>2. \A p \in Nodes : /\ nodes'[p] = NoNode <=> nodes[p] = NoNode
                         /\ nodes'[p].weight = nodes[p].weight
    BY <1>2, TouchKeepsMetadata
  <2> QED
    BY <2>1, <2>2 DEF OperandInv, Live
<1>3. ASSUME NEW n \in Nodes, NEW m \in Metas, BeginCreate(n, m) PROVE OperandInv'
  <2>1. PICK w \in 1..MaxWeight :
          /\ \A p \in Live : nodes[p].weight < w
          /\ Begin("create", TRUE, cfg,
                   [nodes EXCEPT ![n] = [meta |-> m, weight |-> w, rep |-> 0]], {}, {n})
    BY <1>3 DEF BeginCreate
  <2>2. /\ tx'.kind = "create" /\ tx'.who = {n} /\ tx'.snap[n].weight = w
        /\ UNCHANGED nodes
    BY <1>3, <2>1 DEF BeginCreate, Begin, memory, TypeOK
  <2> QED
    BY <2>1, <2>2 DEF OperandInv, Live
<1>4. ASSUME NEW n \in Nodes, NEW m \in Metas, BeginUpdate(n, m) PROVE OperandInv'
  BY <1>4 DEF BeginUpdate, Begin, OperandInv
<1>5. ASSUME NEW n \in Nodes, BeginDelete(n) PROVE OperandInv'
  BY <1>5 DEF BeginDelete, Begin, OperandInv
<1>6. ASSUME NEW c, NEW order, \/ BeginConfig(c) \/ BeginSetting(c) \/ BeginReorder(order)
                               \/ BeginHistory \/ BeginClose \/ BeginFlush
      PROVE  OperandInv'
  BY <1>6, <1>1 DEF BeginConfig, BeginSetting, BeginReorder, BeginHistory, BeginClose,
     BeginFlush, Begin, OperandInv
<1>7. ASSUME Database PROVE OperandInv'
  <2>1. tx' = [tx EXCEPT !.phase = "committed"] /\ UNCHANGED nodes
    BY <1>7 DEF Database, CommitRows, CommitHistory, CommitSetting, CommitDelete, memory
  <2>2. tx \in Tx /\ tx # NoTx
    BY <1>7 DEF Database, CommitRows, CommitHistory, CommitSetting, CommitDelete, Open,
       RowKinds, NoTx, TypeOK
  <2> QED
    BY <2>1, <2>2 DEF OperandInv, Live, Tx
<1>8. ASSUME StopFlusher \/ UNCHANGED vars PROVE OperandInv'
  BY <1>8 DEF StopFlusher, vars, memory, OperandInv, Live
<1>9. ASSUME \/ RollBack \/ FinishCreate \/ FinishUpdate \/ FinishReorder
             \/ FinishConfig \/ FinishSetting \/ FinishDelete \/ FailFlush
             \/ FinishFlush \/ FinishHistory \/ Start \/ Crash \/ FinishClose
             \/ FailClose
      PROVE  OperandInv'
  BY <1>1, <1>9 DEF RollBack, FinishCreate, FinishUpdate, FinishReorder,
     FinishConfig, FinishSetting, FinishDelete, FailFlush, FinishFlush,
     FinishHistory, Start, Crash, FinishClose, FailClose, LoseMemory
<1> QED
  BY <1>2, <1>3, <1>4, <1>5, <1>6, <1>7, <1>8, <1>9
  DEF Next, Agents, Admin, Flusher, Process, IngestBasicInfo, IngestReport

(* While no operation waits to be published, memory shows what disk holds.  *)
LEMMA ShownIsDurable ==
    DurabilityInv /\ Alive /\ ~Publishing => ShownRegistry = DiskRegistry
BY DEF DurabilityInv, MetadataDurable, ShownRegistry, LiveRegistry, DiskRegistry

(* The registry on disk is a registry.                                      *)
LEMMA DiskRow ==
    ASSUME TypeOK, NEW n \in Nodes
    PROVE  /\ DiskRegistry.nodes[n] = Administered(diskNodes[n])
           /\ Administered(diskNodes[n]) # NoNode <=> diskNodes[n] # NoNode
           /\ diskNodes[n] # NoNode =>
                /\ Administered(diskNodes[n]) =
                     [meta |-> diskNodes[n].meta, weight |-> diskNodes[n].weight]
                /\ diskNodes[n].meta \in Metas /\ diskNodes[n].weight \in Nat
<1>1. diskNodes[n] \in NodeOrNone
  BY DEF TypeOK
<1> QED
  BY <1>1, StoreAssumption DEF DiskRegistry, Administered, NodeOrNone, Node

LEMMA OneRowChanged ==
    ASSUME diskCfg' = diskCfg, NEW n \in Nodes,
           \A p \in Nodes \ {n} : Administered(diskNodes'[p]) = Administered(diskNodes[p])
    PROVE  DiskRegistry' = [DiskRegistry EXCEPT !.nodes[n] = (DiskRegistry').nodes[n]]
<1>1. (DiskRegistry').cfg = DiskRegistry.cfg
  BY DEF DiskRegistry
<1>2. (DiskRegistry').nodes = [DiskRegistry.nodes EXCEPT ![n] = (DiskRegistry').nodes[n]]
  BY DEF DiskRegistry
<1> QED
  BY <1>1, <1>2 DEF DiskRegistry

(* A commit of an administrative operation leaves on disk what the          *)
(* operation wrote on the rows it names, and every other row as it was.     *)
LEMMA OperationCommitted ==
    ASSUME DurabilityInv, DurabilityInv', Database, tx.kind \in AdminKinds
    PROVE  /\ Alive /\ tx \in Tx /\ tx # NoTx
           /\ ShownRegistry = DiskRegistry /\ ShownRegistry' = ShownRegistry
           /\ diskCfg' = IF tx.kind \in {"config", "setting"} THEN tx.cfg ELSE diskCfg
           /\ \A n \in Nodes :
                Administered(diskNodes'[n]) =
                    IF \/ tx.kind \in {"create", "update"} /\ n \in tx.who
                       \/ tx.kind = "reorder"
                    THEN Administered(tx.snap[n])
                    ELSE IF tx.kind = "delete" /\ n \in tx.who THEN NoNode
                    ELSE Administered(diskNodes[n])
<1>1. /\ tx \in Tx /\ tx # NoTx /\ Alive /\ tx.phase = "open"
      /\ tx' = [tx EXCEPT !.phase = "committed"]
      /\ UNCHANGED <<proc, cfg, nodes>>
  BY DEF DurabilityInv, TypeOK, NoTx, Database, CommitRows, CommitHistory, CommitSetting,
     CommitDelete, Open, RowKinds, memory
<1>2. ~Publishing /\ Publishing'
  BY <1>1 DEF Publishing, Tx, NoTx, AdminKinds
<1>3. ShownRegistry = DiskRegistry
  BY <1>1, <1>2, ShownIsDurable
<1>4. ShownRegistry' = ShownRegistry
  BY <1>1 DEF ShownRegistry, LiveRegistry, Alive, Administered
<1>5. /\ diskCfg = cfg
      /\ \A n \in Nodes : Administered(nodes[n]) = Administered(diskNodes[n])
  BY <1>1, <1>2 DEF DurabilityInv, MetadataDurable
<1>6. /\ diskCfg' = IF tx.kind \in {"config", "setting"} THEN tx.cfg ELSE cfg
      /\ \A n \in Nodes : Administered(diskNodes'[n]) = Written(n)'
  BY <1>1, <1>2 DEF DurabilityInv, UnpublishedInv, Tx
<1>7. /\ tx'.kind = tx.kind /\ tx'.who = tx.who /\ tx'.snap = tx.snap
  BY <1>1 DEF Tx
<1>8. ASSUME NEW n \in Nodes
      PROVE  Written(n)' =
               CASE tx.kind \in {"create", "update"} /\ n \in tx.who -> Administered(tx.snap[n])
                 [] tx.kind = "reorder"                              -> Administered(tx.snap[n])
                 [] tx.kind = "delete" /\ n \in tx.who               -> NoNode
                 [] OTHER                                            -> Administered(nodes[n])
  BY <1>1, <1>7 DEF Written, Administered
<1> QED
  BY <1>1, <1>3, <1>4, <1>5, <1>6, <1>8

(* Such a commit is one operation of the abstract registry.                 *)
LEMMA CommitPerforms ==
    ASSUME DurabilityInv, DurabilityInv', OperandInv, Database, tx.kind \in AdminKinds
    PROVE  Registry!Perform
<1> USE DEF Registry!Perform, Registry!Operation
<1>1. TypeOK /\ TypeOK' /\ CopyInv
  BY DEF DurabilityInv
<1>2. /\ Alive /\ tx \in Tx /\ tx # NoTx
      /\ ShownRegistry = DiskRegistry /\ ShownRegistry' = ShownRegistry
  BY OperationCommitted
<1>3. CASE tx.kind \in {"config", "setting"}
  <2>1. diskCfg' \in Cfgs /\ \A n \in Nodes :
            Administered(diskNodes'[n]) = Administered(diskNodes[n])
    BY <1>1, <1>3, OperationCommitted DEF TypeOK
  <2>2. Registry!Configure(DiskRegistry, DiskRegistry')
    BY <2>1 DEF Registry!Configure, DiskRegistry
  <2> QED
    BY <1>2, <2>2
<1>4. CASE tx.kind = "create"
  <2>1. PICK n \in Nodes : tx.who = {n}
    BY <1>2, <1>4 DEF OperandInv
  <2>2. /\ nodes[n] = NoNode /\ tx.snap[n] \in Node
        /\ \A p \in Live : nodes[p].weight < tx.snap[n].weight
    BY <1>1, <1>2, <1>4, <2>1 DEF CopyInv, OperandInv, Tx, NodeOrNone
  <2>3. /\ diskCfg' = diskCfg
        /\ Administered(diskNodes'[n]) = Administered(tx.snap[n])
        /\ \A p \in Nodes \ {n} : Administered(diskNodes'[p]) = Administered(diskNodes[p])
    BY <1>4, <2>1, OperationCommitted
  <2>4. \A p \in Nodes : Administered(nodes[p]) = Administered(diskNodes[p])
    BY <1>2 DEF ShownRegistry, LiveRegistry, DiskRegistry
  <2>5. n \notin Registry!Present(DiskRegistry)
    BY <1>1, <2>2, <2>4, DiskRow DEF Registry!Present, Administered
  <2>6. ASSUME NEW p \in Registry!Present(DiskRegistry)
        PROVE  DiskRegistry.nodes[p].weight < tx.snap[n].weight
    <3>1. p \in Nodes /\ diskNodes[p] # NoNode
      BY <1>1, DiskRow DEF Registry!Present
    <3>2. /\ DiskRegistry.nodes[p] = Administered(nodes[p])
          /\ DiskRegistry.nodes[p] = Administered(diskNodes[p])
          /\ Administered(diskNodes[p]) # NoNode
      BY <1>1, <2>4, <3>1, DiskRow
    <3>3. p \in Live
      BY <3>1, <3>2 DEF Live, Administered
    <3>4. DiskRegistry.nodes[p].weight = nodes[p].weight
      BY <3>2, <3>3 DEF Administered, Live
    <3> QED
      BY <2>2, <3>3, <3>4
  <2>7. /\ (DiskRegistry').nodes[n] = [meta |-> tx.snap[n].meta, weight |-> tx.snap[n].weight]
        /\ (DiskRegistry').nodes[n] \in Registry!Entry
    <3>1. tx.snap[n] # NoNode
      BY <2>2, StoreAssumption
    <3> QED
      BY <2>2, <2>3, <3>1 DEF DiskRegistry, Administered, Registry!Entry, Node
  <2>8. DiskRegistry' = [DiskRegistry EXCEPT !.nodes[n] = (DiskRegistry').nodes[n]]
    BY <2>3, OneRowChanged
  <2>9. Registry!Register(DiskRegistry, DiskRegistry')
    BY <2>5, <2>6, <2>7, <2>8 DEF Registry!Register
  <2> QED
    BY <1>2, <2>9
<1>5. CASE tx.kind = "update"
  <2>1. PICK n \in Nodes : tx.who = {n}
    BY <1>2, <1>5 DEF OperandInv
  <2>2. /\ nodes[n] # NoNode /\ tx.snap[n] \in Node
        /\ tx.snap[n].weight = nodes[n].weight
    BY <1>1, <1>2, <1>5, <2>1 DEF CopyInv, Tx, NodeOrNone
  <2>3. /\ diskCfg' = diskCfg
        /\ Administered(diskNodes'[n]) = Administered(tx.snap[n])
        /\ \A p \in Nodes \ {n} : Administered(diskNodes'[p]) = Administered(diskNodes[p])
    BY <1>5, <2>1, OperationCommitted
  <2>4. Administered(nodes[n]) = Administered(diskNodes[n])
    BY <1>2 DEF ShownRegistry, LiveRegistry, DiskRegistry
  <2>5. /\ diskNodes[n] # NoNode
        /\ Administered(diskNodes[n]) =
             [meta |-> diskNodes[n].meta, weight |-> diskNodes[n].weight]
        /\ diskNodes[n].weight = nodes[n].weight
    <3>1. nodes[n] \in Node /\ Administered(nodes[n]) # NoNode
      BY <1>1, <2>2, StoreAssumption DEF TypeOK, NodeOrNone, Administered, Node
    <3> QED
      BY <1>1, <2>2, <2>4, <3>1, DiskRow DEF Administered
  <2>6. Administered(tx.snap[n]) = [Administered(diskNodes[n]) EXCEPT !.meta = tx.snap[n].meta]
    BY <2>2, <2>5, StoreAssumption DEF Administered
  <2>7. DiskRegistry' = [DiskRegistry EXCEPT !.nodes[n].meta = tx.snap[n].meta]
    BY <2>3, <2>6, OneRowChanged DEF DiskRegistry
  <2>8. n \in Registry!Present(DiskRegistry)
    BY <1>1, <2>5, DiskRow DEF Registry!Present
  <2>9. Registry!Edit(DiskRegistry, DiskRegistry')
    BY <2>2, <2>7, <2>8 DEF Registry!Edit, Node
  <2> QED
    BY <1>2, <2>9
<1>6. CASE tx.kind = "delete"
  <2>1. PICK n \in Nodes : tx.who = {n}
    BY <1>2, <1>6 DEF OperandInv
  <2>2. nodes[n] # NoNode
    BY <1>1, <1>2, <1>6, <2>1 DEF CopyInv
  <2>3. /\ diskCfg' = diskCfg
        /\ Administered(diskNodes'[n]) = NoNode
        /\ \A p \in Nodes \ {n} : Administered(diskNodes'[p]) = Administered(diskNodes[p])
    BY <1>6, <2>1, OperationCommitted
  <2>4. n \in Registry!Present(DiskRegistry)
    <3>1. nodes[n] \in Node /\ Administered(nodes[n]) # NoNode
      BY <1>1, <2>2, StoreAssumption DEF TypeOK, NodeOrNone, Administered, Node
    <3>2. DiskRegistry.nodes[n] = Administered(nodes[n])
      BY <1>2 DEF ShownRegistry, LiveRegistry
    <3> QED
      BY <3>1, <3>2 DEF Registry!Present
  <2>5. DiskRegistry' = [DiskRegistry EXCEPT !.nodes[n] = NoNode]
    BY <2>3, OneRowChanged DEF DiskRegistry
  <2> QED
    BY <1>2, <2>4, <2>5 DEF Registry!Unregister
<1>7. CASE tx.kind = "reorder"
  <2>1. /\ diskCfg' = diskCfg
        /\ \A p \in Nodes : Administered(diskNodes'[p]) = Administered(tx.snap[p])
    BY <1>7, OperationCommitted
  <2>2. \A p \in Nodes : Administered(nodes[p]) = Administered(diskNodes[p])
    BY <1>2 DEF ShownRegistry, LiveRegistry, DiskRegistry
  <2>3. ASSUME NEW p \in Nodes
        PROVE  /\ (DiskRegistry').nodes[p] # NoNode <=> DiskRegistry.nodes[p] # NoNode
               /\ DiskRegistry.nodes[p] # NoNode =>
                    (DiskRegistry').nodes[p].meta = DiskRegistry.nodes[p].meta
    <3>1. /\ nodes[p] \in NodeOrNone /\ tx.snap[p] \in NodeOrNone
          /\ tx.snap[p] # NoNode <=> nodes[p] # NoNode
          /\ tx.snap[p] # NoNode => tx.snap[p].meta = nodes[p].meta
      BY <1>1, <1>2, <1>7 DEF CopyInv, Tx, TypeOK
    <3>2. /\ (DiskRegistry').nodes[p] = Administered(tx.snap[p])
          /\ DiskRegistry.nodes[p] = Administered(nodes[p])
      BY <2>1, <2>2 DEF DiskRegistry
    <3>3. \A row \in Node : /\ Administered(row) # NoNode
                            /\ row # NoNode /\ Administered(row).meta = row.meta
      BY StoreAssumption DEF Administered, Node
    <3>4. Administered(NoNode) = NoNode
      BY DEF Administered
    <3> QED
      BY <3>1, <3>2, <3>3, <3>4 DEF NodeOrNone
  <2>4. Registry!Rearrange(DiskRegistry, DiskRegistry')
    <3>1. (DiskRegistry').cfg = DiskRegistry.cfg
      BY <2>1 DEF DiskRegistry
    <3> QED
      BY <2>3, <3>1 DEF Registry!Rearrange, Registry!Present
  <2> QED
    BY <1>2, <2>4
<1> QED
  BY <1>3, <1>4, <1>5, <1>6, <1>7 DEF AdminKinds

(* Every step of the store is a step of the registry or changes nothing of  *)
(* it: commits perform, publications show, crashes and stops halt.          *)
LEMMA RegistryStep ==
    ASSUME DurabilityInv, DurabilityInv', OperandInv, [Next]_vars
    PROVE  [Registry!Next]_(Registry!registryVars)
<1> USE DEF Registry!registryVars, Registry!Next
<1>1. TypeOK /\ CopyInv
  BY DEF DurabilityInv
<1>2. ASSUME UNCHANGED <<DiskRegistry, ShownRegistry>>
      PROVE  [Registry!Next]_(Registry!registryVars)
  BY <1>2
<1>3. ASSUME UNCHANGED <<proc, cfg, nodes, diskCfg, diskNodes>>
      PROVE  UNCHANGED <<DiskRegistry, ShownRegistry>>
  BY <1>3 DEF DiskRegistry, ShownRegistry, LiveRegistry, Alive, Administered
<1>4. ASSUME Agents PROVE UNCHANGED <<DiskRegistry, ShownRegistry>>
  <2>1. PICK n \in Nodes : Touch(n)
    BY <1>4 DEF Agents, IngestBasicInfo, IngestReport
  <2>2. UNCHANGED <<proc, cfg, diskCfg, diskNodes>>
    BY <2>1 DEF Touch, disk
  <2>3. \A p \in Nodes : Administered(nodes'[p]) = Administered(nodes[p])
    BY <1>1, <2>1, TouchKeepsMetadata DEF Administered
  <2> QED
    BY <2>2, <2>3 DEF DiskRegistry, ShownRegistry, LiveRegistry, Alive, Administered
<1>5. ASSUME NEW n, NEW m, NEW c, NEW order,
             \/ BeginCreate(n, m) \/ BeginUpdate(n, m) \/ BeginDelete(n)
             \/ BeginConfig(c) \/ BeginSetting(c) \/ BeginReorder(order) \/ RollBack
             \/ BeginFlush \/ FailFlush \/ FinishFlush \/ BeginHistory \/ FinishHistory
             \/ BeginClose \/ CommitHistory \/ UNCHANGED vars
      PROVE  UNCHANGED <<DiskRegistry, ShownRegistry>>
  <2>1. UNCHANGED <<proc, cfg, nodes, diskCfg, diskNodes>>
    BY <1>5 DEF BeginCreate, BeginUpdate, BeginDelete, BeginConfig, BeginSetting,
       BeginReorder, RollBack, BeginFlush, FailFlush, FinishFlush, BeginHistory,
       FinishHistory, BeginClose, CommitHistory, vars, memory, disk
  <2> QED
    BY <1>3, <2>1
<1>6. ASSUME StopFlusher PROVE UNCHANGED <<DiskRegistry, ShownRegistry>>
  <2>1. Alive /\ Alive' /\ UNCHANGED <<cfg, nodes, diskCfg, diskNodes>>
    BY <1>6 DEF StopFlusher, Alive, memory, disk
  <2> QED
    BY <2>1 DEF DiskRegistry, ShownRegistry, LiveRegistry, Administered
<1>7. ASSUME tx' = NoTx, Alive', UNCHANGED <<diskCfg, diskNodes>>
      PROVE  Registry!Show \/ Registry!Restart
  <2>1. ShownRegistry' = DiskRegistry'
    <3>1. ~Publishing'
      BY <1>7 DEF Publishing
    <3>2. DurabilityInv' /\ Alive' /\ ~Publishing' => ShownRegistry' = DiskRegistry'
      BY DEF DurabilityInv, MetadataDurable, ShownRegistry, LiveRegistry, DiskRegistry
    <3> QED
      BY <1>7, <3>1, <3>2
  <2>2. DiskRegistry' = DiskRegistry
    BY <1>7 DEF DiskRegistry, Administered
  <2> QED
    BY <2>1, <2>2 DEF Registry!Show, Registry!Restart
<1>8. ASSUME \/ FinishCreate \/ FinishUpdate \/ FinishReorder \/ FinishConfig
             \/ FinishSetting \/ FinishDelete \/ Start
      PROVE  Registry!Show \/ Registry!Restart
  <2>1. tx' = NoTx /\ Alive' /\ UNCHANGED <<diskCfg, diskNodes>>
    BY <1>8 DEF FinishCreate, FinishUpdate, FinishReorder, FinishConfig, FinishSetting,
       FinishDelete, Start, Committed, Alive, disk
  <2> QED
    BY <1>7, <2>1
<1>9. ASSUME Crash \/ FinishClose \/ FailClose PROVE Registry!Halt
  <2>1. ~Alive' /\ UNCHANGED <<diskCfg, diskNodes>>
    BY <1>9 DEF Crash, FinishClose, FailClose, LoseMemory, Alive, disk
  <2> QED
    BY <2>1 DEF Registry!Halt, DiskRegistry, ShownRegistry, Administered
<1>10. ASSUME Database, tx.kind \in AdminKinds PROVE Registry!Perform
  BY <1>10, CommitPerforms
<1>11. ASSUME Database, tx.kind \notin AdminKinds
       PROVE  UNCHANGED <<DiskRegistry, ShownRegistry>>
  <2>1. CASE CommitHistory
    BY <1>5, <2>1
  <2>2. CASE CommitRows
    <3>1. /\ tx.kind \in {"flush", "close", "config"} /\ Alive /\ tx.phase = "open"
          /\ ~Publishing /\ UNCHANGED <<proc, cfg, nodes>>
      BY <1>11, <2>2 DEF CommitRows, Open, RowKinds, AdminKinds, Publishing, memory
    <3>2. /\ \A n \in Nodes : Administered(diskNodes'[n]) = Administered(nodes[n])
          /\ diskCfg' = cfg
      BY <1>1, <1>11, <2>2, <3>1, SaveWritesMetadata DEF DurabilityInv, AdminKinds
    <3>3. DiskRegistry' = LiveRegistry
      BY <3>2 DEF DiskRegistry, LiveRegistry, Administered
    <3> QED
      BY <3>1, <3>3, ShownIsDurable DEF ShownRegistry, LiveRegistry, Alive, Administered
  <2> QED
    BY <1>11, <2>1, <2>2 DEF Database, CommitSetting, CommitDelete, Open, AdminKinds
<1> QED
  BY <1>2, <1>4, <1>5, <1>6, <1>8, <1>9, <1>10, <1>11
  DEF Next, Admin, Flusher, Process

LEMMA RegistryInit == Init => Registry!Init
<1> SUFFICES ASSUME Init PROVE Registry!Init
  OBVIOUS
<1>1. /\ cfg \in Cfgs /\ diskCfg = cfg /\ nodes = None /\ diskNodes = None /\ Alive
  BY DEF Init, Alive
<1>2. \A n \in Nodes : Administered(nodes[n]) = NoNode /\ Administered(diskNodes[n]) = NoNode
  BY <1>1 DEF None, Administered
<1> QED
  BY <1>1, <1>2 DEF Registry!Init, DiskRegistry, ShownRegistry, LiveRegistry

(* The store implements the registry: an operation takes effect on disk at  *)
(* one instant, shows afterwards and before the next, and no background     *)
(* save, report, crash or restart changes what an administrator was told.   *)
THEOREM StoreImplementsRegistry == Spec => RegistrySpec
<1>1. Init => OperandInv
  BY DEF Init, OperandInv
<1>2. DurabilityInv /\ OperandInv /\ [Next]_vars => OperandInv'
  BY OperandNext DEF DurabilityInv
<1>3. DurabilityInv /\ DurabilityInv' /\ OperandInv /\ [Next]_vars
        => [Registry!Next]_(Registry!registryVars)
  BY RegistryStep
<1> QED
  BY <1>1, <1>2, <1>3, DurabilityInvariant, RegistryInit, PTL
  DEF Spec, RegistrySpec, Registry!Spec
=============================================================================
