-------------------------- MODULE TelegramAlertsInv --------------------------
(***************************************************************************)
(* The strengthening under which the invariants of TelegramAlerts are      *)
(* inductive.                                                              *)
(***************************************************************************)
EXTENDS TelegramAlerts

(* The bounds of the counters.                                              *)
CountInv == epoch <= events + 1 /\ cycle <= events + 1

(* Nodes that wait for admission have no check.                             *)
RoundInv ==
    /\ round.left \cap pending = {}
    /\ round.left # {} => round.epoch \in Numbers

(* A worker between the load and the save of a check.                       *)
Judging(w) == worker[w].step \in {"health", "postHealth", "traffic", "postTraffic", "saving"}

(* Nothing is of a later epoch than the settings, and a check is of no      *)
(* earlier epoch than its engine; once it has loaded, of the same.          *)
AgeInv ==
    /\ \A n \in Nodes : disk[n] # NoState => disk[n].epoch <= epoch
    /\ \A n \in Nodes : engines[n] # NoState => engines[n].epoch <= epoch
    /\ \A w \in Workers :
          At(w, "idle") \/ /\ worker[w].id \in Nodes
                           /\ worker[w].epoch \in Numbers /\ worker[w].epoch <= epoch
                           /\ engines[worker[w].id].epoch <= worker[w].epoch
    /\ \A w \in Workers : Judging(w) => /\ engines[worker[w].id].epoch = worker[w].epoch
                                        /\ worker[w].on

(* A check of a node under the present settings has its say, else the       *)
(* engine, if it was loaded under them, else the disk.                      *)
Judges(w, n) == Judging(w) /\ worker[w].id = n /\ worker[w].epoch = epoch

Remembered(n) ==
    IF engines[n] # NoState /\ engines[n].epoch = epoch
    THEN IF engines[n].state = NoState THEN Fresh ELSE engines[n].state
    ELSE OnDisk(n)

(* What the chat was told of a node is what the server believes it was told.*)
Agrees(n) ==
    member[n] # "gone" /\ told[n] # "unsure" =>
        /\ \A w \in Workers : Judges(w, n) => (worker[w].state.off <=> told[n] = "down")
        /\ (\A w \in Workers : ~Judges(w, n)) => (Remembered(n).off <=> told[n] = "down")

Agreement == \A n \in Nodes : Agrees(n)

AlertInv ==
    /\ TypeOK /\ CountInv /\ RoundInv /\ OneCheck
    /\ NoStateOfDeleted /\ AgeInv /\ Agreement /\ NoRepeat

(* The cycles that engine and disk name for a node are no later than k.     *)
NotedBy(n, k) ==
    /\ engines[n] # NoState /\ engines[n].state # NoState => engines[n].state.cycle <= k
    /\ disk[n] # NoState => disk[n].state.cycle <= k

(* Nothing names a cycle to come; a check knows the latest one of its node. *)
CycleInv ==
    /\ \A n \in Nodes : NotedBy(n, cycle)
    /\ \A w \in Workers :
          At(w, "idle") \/ /\ worker[w].cycle <= cycle
                           /\ worker[w].state.cycle <= worker[w].cycle
                           /\ NotedBy(worker[w].id, worker[w].cycle)

(* A cycle whose warning the server does not know of has only those that    *)
(* crashes and lost answers hid; the one being posted is such a cycle.      *)
Spare(n, k) == warned[n][k] <= crashes + lost

Posting(w, n) == At(w, "postTraffic") /\ Judges(w, n)

Counts(n) == \A k \in Numbers :
    /\ warned[n][k] <= 1 + crashes + lost
    /\ \A w \in Workers : Posting(w, n) /\ worker[w].cycle = k => Spare(n, k)
    /\ member[n] # "gone" =>
        /\ \A w \in Workers : Judges(w, n) /\ worker[w].state.cycle < k => Spare(n, k)
        /\ (\A w \in Workers : ~Judges(w, n)) /\ Remembered(n).cycle < k => Spare(n, k)

WarningInv == CycleInv /\ \A n \in Nodes : Counts(n)
=============================================================================
