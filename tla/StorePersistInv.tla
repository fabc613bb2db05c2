-------------------------- MODULE StorePersistInv ---------------------------
(***************************************************************************)
(* The inductive invariant of StorePersist, in named parts.                *)
(***************************************************************************)
EXTENDS StorePersist

(* A report the disk lacks will be found by the next save: an incremental   *)
(* flush needs both flags, the final save only the store's.                 *)
Marked(n) == storeDirty /\ (nodeDirty[n] \/ proc = "closing")

(* What the holder of persistMu copied is still true of the live state,     *)
(* reports aside: only that operation can create, edit or remove a node.    *)
CopyInv ==
    tx # NoTx =>
        /\ Alive
        /\ tx.kind \in {"create", "reorder", "config", "close"} => tx.full
        /\ tx.kind = "update" => ~tx.full
        /\ tx.kind \notin {"config", "setting"} => tx.cfg = cfg
        /\ tx.kind = "close" => proc = "closing" /\ tx.snap = nodes
        /\ \A s \in tx.batch : nodes[s.node] # NoNode
        /\ \A n \in Nodes :
            /\ tx.snap[n] # NoNode =>
                 nodes[n] # NoNode \/ (tx.kind = "create" /\ n \in tx.who)
            /\ tx.full /\ nodes[n] # NoNode => tx.snap[n] # NoNode
            /\ tx.snap[n] # NoNode /\ nodes[n] # NoNode =>
                 /\ tx.kind # "reorder" => tx.snap[n].weight = nodes[n].weight
                 /\ tx.kind # "update" => tx.snap[n].meta = nodes[n].meta
        /\ \A n \in tx.who :
            /\ tx.kind = "create" => /\ nodes[n] = NoNode /\ tx.snap[n] # NoNode
                                     /\ n \in used /\ n \notin gone
            /\ tx.kind \in {"update", "delete"} => nodes[n] # NoNode
            /\ tx.kind = "update" => tx.snap[n] # NoNode
        /\ tx.kind = "update" =>
            \A n \in Nodes : tx.snap[n] # NoNode => n \in tx.who

(* The row a committed but unpublished operation has left on disk.          *)
Written(n) ==
    CASE tx.kind \in {"create", "update"} /\ n \in tx.who -> Administered(tx.snap[n])
      [] tx.kind = "reorder"                              -> Administered(tx.snap[n])
      [] tx.kind = "delete" /\ n \in tx.who               -> NoNode
      [] OTHER                                            -> Administered(nodes[n])

UnpublishedInv ==
    Publishing =>
        /\ diskCfg = IF tx.kind \in {"config", "setting"} THEN tx.cfg ELSE cfg
        /\ \A n \in Nodes : Administered(diskNodes[n]) = Written(n)
        /\ tx.kind = "create" => \A n \in tx.who : diskNodes[n] = tx.snap[n]
        /\ tx.kind = "delete" => \A n \in tx.who : /\ diskNodes[n] = NoNode
                                                   /\ \A s \in hist : s.node # n

(* Every report is on disk, marked for a save, or in the rows being saved.  *)
ReportInv ==
    Alive => \A n \in Nodes :
        /\ nodes[n] # NoNode /\ diskNodes[n] # NoNode =>
             \/ nodes[n].rep = diskNodes[n].rep
             \/ Marked(n)
             \/ tx # NoTx /\ tx.kind = "flush" /\ tx.phase = "open" /\ tx.snap[n] # NoNode
        /\ tx # NoTx /\ nodes[n] # NoNode /\ tx.snap[n] # NoNode =>
             nodes[n].rep = tx.snap[n].rep \/ Marked(n)

FinalInv == /\ CleanStopSaves
            /\ tx # NoTx /\ tx.kind = "close" /\ tx.phase = "committed"
                  => diskNodes = nodes

(* Identities are never drawn twice, and only live nodes have work queued.  *)
IdentityInv ==
    /\ NoResurrection
    /\ gone \subseteq used
    /\ \A n \in Nodes : nodes[n] # NoNode \/ diskNodes[n] # NoNode => n \in used
    /\ \A s \in pending : nodes[s.node] # NoNode

(* Rows are copies of earlier live nodes.                                   *)
AgeInv ==
    \A n \in Nodes :
        /\ nodes[n] # NoNode => nodes[n].rep <= clock
        /\ diskNodes[n] # NoNode => diskNodes[n].rep <= clock
        /\ Alive /\ nodes[n] # NoNode /\ diskNodes[n] # NoNode =>
              diskNodes[n].rep <= nodes[n].rep
        /\ tx # NoTx /\ nodes[n] # NoNode /\ tx.snap[n] # NoNode =>
              tx.snap[n].rep <= nodes[n].rep
        /\ tx # NoTx /\ tx.snap[n] # NoNode /\ diskNodes[n] # NoNode =>
              diskNodes[n].rep <= tx.snap[n].rep
        /\ tx # NoTx /\ tx.snap[n] # NoNode => tx.snap[n].rep <= clock

(* What an operation on the registry is about: one node, and a new one is   *)
(* given a weight beyond all the others.                                    *)
OperandInv ==
    tx # NoTx =>
        /\ tx.kind \in {"create", "update", "delete"} => \E n \in Nodes : tx.who = {n}
        /\ tx.kind = "create" =>
             \A n \in tx.who, p \in Live : nodes[p].weight < tx.snap[n].weight

DurabilityInv ==
    /\ TypeOK
    /\ CopyInv
    /\ MetadataDurable
    /\ UnpublishedInv
    /\ CacheMatchesDisk
    /\ IdentityInv
    /\ AgeInv

(* The part that needs the assumption that full flushes do not fail.        *)
StopInv == ReportInv /\ FinalInv

(* The queue as a transaction over it began is its oldest part, and what a  *)
(* clean store still has queued is being written.                           *)
QueueInv ==
    /\ \A s \in pending : s.at <= clock
    /\ tx # NoTx /\ tx.kind \in {"flush", "history", "close"} =>
        /\ tx.batch \subseteq pending /\ tx.count = Cardinality(tx.batch)
        /\ \A s \in pending \ tx.batch, t \in tx.batch : t.at < s.at
        /\ tx.phase = "committed" => tx.batch \subseteq hist
        /\ tx.kind = "close" => pending \subseteq tx.batch
    /\ Alive /\ ~storeDirty =>
        \A s \in pending : tx # NoTx /\ tx.kind = "flush" /\ s \in tx.batch

(* A sample that is owed belongs to a node whose row cannot come back.      *)
OwedInv ==
    /\ NoSampleLost
    /\ \A s \in taken : /\ s.node \in used
                        /\ tx # NoTx /\ tx.kind = "create" => s.node \notin tx.who
=============================================================================
