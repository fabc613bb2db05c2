--------------------------- MODULE TelegramAlerts ---------------------------
(***************************************************************************)
(* Telegram alerts (internal/server: telegram_queue.go, telegram.go;       *)
(* internal/store: telegram_state.go, telegram.go).                        *)
(*                                                                         *)
(* A dispatcher wakes every three seconds, hands each node's engine to a   *)
(* bounded queue and forgets engines of nodes without alerts.  Workers run *)
(* the checks: load the alert state on the first check of an epoch, decide *)
(* from a copy of the node, post, save.  Settings, opt-outs, deletions and *)
(* crashes fall between any two of those steps.  An epoch is one setting   *)
(* of token, chat and switch; a state saved under another is not used.     *)
(*                                                                         *)
(* Of the kinds of alerts two are kept: offline and recovery, which has a  *)
(* message for each direction, and the early traffic warning, which is     *)
(* meant once per billing cycle.  The delay before a retry is a post that  *)
(* is not tried.                                                           *)
(***************************************************************************)
EXTENDS Integers, Sequences, FiniteSets

CONSTANTS NodeCount,   \* nodes 1..NodeCount, in the order of their uuids
          QueueCap,    \* telegramQueueCapacity
          Workers,     \* the worker goroutines
          NoState,     \* no saved state, no engine
          MaxEvents,   \* bound: what nodes and administrators do
          MaxCrashes,  \* bound: restarts of the server
          MaxFaults,   \* bound: failures of the database
          MaxLost      \* bound: messages that arrive although posting failed

Nodes == 1..NodeCount
Numbers == 1..(MaxEvents + 1)  \* epochs and cycles

ASSUME AlertsAssumption ==
    /\ NodeCount \in Nat \ {0} /\ QueueCap \in Nat \ {0}
    /\ IsFiniteSet(Workers)
    /\ MaxEvents \in Nat /\ MaxCrashes \in Nat
    /\ MaxFaults \in Nat /\ MaxLost \in Nat

VARIABLES enabled, epoch,  \* Config.TelegramEnabled, Config.TelegramAlertEpoch
          member,          \* "on", "out" (AlertsDisabled) or "gone" (deleted)
          health,          \* "up", "late" (offline, not long enough) or "down"
          usage,           \* the cycle's traffic passed the warning level
          cycle,           \* the billing cycle
          disk,            \* table telegram_alert_state
          engines,         \* the dispatcher's engines
          jobs, done,      \* the channels
          pending,         \* the dispatcher's pending
          cursor,          \* the dispatcher's cursor
          round,           \* the round of admissions after a tick
          worker,          \* what each worker is doing
          told,         \* history: what the chat believes of a node
          warned,       \* history: warnings the chat got, per node and cycle
          events, crashes, faults, lost  \* how often those happened

world   == <<enabled, epoch, member, health, usage, cycle, events>>
admission == <<pending, cursor, round>>
memory  == <<engines, jobs, done, admission, worker>>
heard   == <<told, warned, lost>>
history == <<heard, crashes, faults>>
vars    == <<world, disk, memory, history>>

(* TelegramAlertState, of the two kinds.                                    *)
State == [off: BOOLEAN, cycle: Numbers \cup {0}]
Fresh == [off |-> FALSE, cycle |-> 0]
Row == [epoch: Numbers, state: State]

(* An engine: the epoch it loaded, its state and the state it saved last.   *)
Engine == [epoch: Numbers \cup {0}, state: State \cup {NoState}, saved: State \cup {NoState}]
NewEngine == [epoch |-> 0, state |-> NoState, saved |-> NoState]

ASSUME NoStateAssumption == NoState \notin State \cup Row \cup Engine

Resting == [step |-> "idle", id |-> 0, epoch |-> 0, on |-> FALSE, health |-> "up",
            due |-> FALSE, cycle |-> 0, state |-> Fresh]
NoRound == [nodes |-> {}, left |-> {}, from |-> 0, epoch |-> 0]
Steps == {"idle", "loading", "health", "postHealth", "traffic", "postTraffic",
          "saving", "finished"}

WorkerState == [step: Steps, id: Nodes \cup {0}, epoch: Numbers \cup {0},
                on: BOOLEAN, health: {"up", "late", "down"},
                due: BOOLEAN, cycle: Numbers \cup {0}, state: State]
Job == [id: Nodes, epoch: Numbers]
Round == [nodes: SUBSET Nodes, left: SUBSET Nodes, from: 0..(NodeCount - 1),
          epoch: Numbers \cup {0}]

TypeOK ==
    /\ enabled \in BOOLEAN /\ epoch \in Numbers
    /\ member \in [Nodes -> {"on", "out", "gone"}]
    /\ health \in [Nodes -> {"up", "late", "down"}]
    /\ usage \in [Nodes -> BOOLEAN] /\ cycle \in Numbers
    /\ disk \in [Nodes -> Row \cup {NoState}]
    /\ engines \in [Nodes -> Engine \cup {NoState}]
    /\ jobs \in Seq(Job) /\ Len(jobs) <= QueueCap
    /\ done \subseteq Nodes /\ pending \subseteq Nodes
    /\ cursor \in 0..(NodeCount - 1)
    /\ round \in Round
    /\ worker \in [Workers -> WorkerState]
    /\ told \in [Nodes -> {"unsure", "up", "down"}]
    /\ warned \in [Nodes -> [Numbers -> Nat]]
    /\ events \in 0..MaxEvents /\ crashes \in 0..MaxCrashes
    /\ faults \in 0..MaxFaults /\ lost \in 0..MaxLost

Unwarned == [k \in Numbers |-> 0]

NoMemory ==
    /\ engines' = [n \in Nodes |-> NoState]
    /\ jobs' = <<>> /\ done' = {} /\ pending' = {} /\ cursor' = 0 /\ round' = NoRound
    /\ worker' = [w \in Workers |-> Resting]

Init ==
    /\ enabled = TRUE /\ epoch = 1
    /\ member = [n \in Nodes |-> "on"]
    /\ health = [n \in Nodes |-> "up"]
    /\ usage = [n \in Nodes |-> FALSE] /\ cycle = 1
    /\ disk = [n \in Nodes |-> NoState]
    /\ engines = [n \in Nodes |-> NoState]
    /\ jobs = <<>> /\ done = {} /\ pending = {} /\ cursor = 0 /\ round = NoRound
    /\ worker = [w \in Workers |-> Resting]
    /\ told = [n \in Nodes |-> "up"]
    /\ warned = [n \in Nodes |-> Unwarned]
    /\ events = 0 /\ crashes = 0 /\ faults = 0 /\ lost = 0
-----------------------------------------------------------------------------
(* What an engine would load of a row, and of a node.                       *)
Saved(row) == IF row # NoState /\ row.epoch = epoch THEN row.state ELSE Fresh
OnDisk(n) == Saved(disk[n])

(* The database refuses an operation.                                       *)
Fault == faults < MaxFaults /\ faults' = faults + 1

Alerted(n) == enabled /\ member[n] = "on"

(* The dispatcher waits for a tick or for a check that is done.             *)
Waiting == round.left = {}

Members == {n \in Nodes : member[n] # "gone"}  \* GetAlertNodes

\* Mutant: a node may be queued while its check is under way.
AdmissibleAgain == {n \in Members : Alerted(n)}

Admissible == {n \in Members : Alerted(n) /\ n \notin pending}

(* Engines of nodes without alerts.                                         *)
Forgotten == {n \in Nodes : engines[n] # NoState /\ ~Alerted(n) /\ n \notin pending}

\* Mutant: the cursor only grows.
AdvancedForEver == cursor + QueueCap

(* Where the next round begins.                                             *)
Advanced == (cursor + QueueCap) % Cardinality(Members)

(* The next engine of a forgotten node knows what the disk then says; what  *)
(* else the chat was told of the node no longer counts.                     *)
Relearn(ns) ==
    /\ told' = [n \in Nodes |-> IF n \in ns /\ Saved(disk'[n]).off # (told[n] = "down")
                                THEN "unsure" ELSE told[n]]
    /\ warned' = [n \in Nodes |-> [k \in Numbers |->
                     IF n \in ns /\ k > Saved(disk'[n]).cycle THEN 0 ELSE warned[n][k]]]

(* A tick: engines are forgotten with their saved state, unless its         *)
(* deletion fails, then a round of admissions begins.                       *)
Tick ==
    /\ Waiting
    /\ \E kept \in SUBSET Forgotten :
         /\ faults' = faults + Cardinality(kept) /\ faults' <= MaxFaults
         /\ disk' = [n \in Nodes |-> IF n \in Forgotten \ kept THEN NoState ELSE disk[n]]
    /\ engines' = [n \in Nodes |-> IF n \in Forgotten THEN NoState ELSE engines[n]]
    /\ Relearn(Forgotten)
    /\ IF enabled /\ Members # {}
       THEN /\ round' = IF Admissible = {} THEN NoRound
                         ELSE [nodes |-> Members, left |-> Admissible,
                               from |-> cursor, epoch |-> epoch]
            /\ cursor' = Advanced
       ELSE UNCHANGED <<round, cursor>>
    /\ UNCHANGED <<world, jobs, done, pending, worker, lost, crashes>>

(* How many nodes, by uuid and from the cursor on, come before n.           *)
Turn(n) == (Cardinality({m \in round.nodes : m < n}) - round.from) % Cardinality(round.nodes)

(* The next node of the round gets an engine and is queued if there is room.*)
Admit(n) ==
    /\ n \in round.left
    /\ \A m \in round.left : Turn(n) <= Turn(m)
    /\ engines' = [engines EXCEPT ![n] = IF @ = NoState THEN NewEngine ELSE @]
    /\ round' = IF round.left = {n} THEN NoRound ELSE [round EXCEPT !.left = @ \ {n}]
    /\ IF Len(jobs) < QueueCap
       THEN /\ jobs' = Append(jobs, [id |-> n, epoch |-> round.epoch])
            /\ pending' = pending \cup {n}
       ELSE UNCHANGED <<jobs, pending>>
    /\ UNCHANGED <<world, disk, done, cursor, worker, history>>

ReadDone(n) ==
    /\ Waiting /\ n \in done
    /\ done' = done \ {n}
    /\ pending' = pending \ {n}
    /\ UNCHANGED <<world, disk, engines, jobs, cursor, round, worker, history>>
-----------------------------------------------------------------------------
At(w, step) == worker[w].step = step
Goto(w, step) == worker' = [worker EXCEPT ![w].step = step]

(* A worker takes a job and reads the settings and the node again.          *)
Take(w) ==
    /\ At(w, "idle") /\ jobs # <<>>
    /\ LET job == Head(jobs)
           n == job.id
       IN worker' = [worker EXCEPT ![w] =
            [step |-> IF epoch = job.epoch /\ member[n] # "gone" THEN "loading" ELSE "finished",
             id |-> n, epoch |-> epoch, on |-> member[n] = "on", health |-> health[n],
             due |-> usage[n], cycle |-> cycle, state |-> Fresh]]
    /\ jobs' = Tail(jobs)
    /\ UNCHANGED <<world, disk, engines, done, admission, history>>

\* Mutant: a state saved under other settings is loaded too.
LoadedAnyEpoch(w) == LET n == worker[w].id IN
    IF engines[n].epoch = worker[w].epoch THEN engines[n]
    ELSE LET row == IF disk[n] # NoState THEN disk[n].state ELSE NoState
         IN [epoch |-> worker[w].epoch, state |-> row, saved |-> row]

(* check begins: the first check of an epoch loads what was saved for it.   *)
Loaded(w) == LET n == worker[w].id IN
    IF engines[n].epoch = worker[w].epoch THEN engines[n]
    ELSE LET row == IF disk[n] # NoState /\ disk[n].epoch = worker[w].epoch
                    THEN disk[n].state ELSE NoState
         IN [epoch |-> worker[w].epoch, state |-> row, saved |-> row]

Load(w) ==
    /\ At(w, "loading") /\ worker[w].on
    /\ LET n == worker[w].id IN
       /\ engines' = [engines EXCEPT ![n] = Loaded(w)]
       /\ worker' = [worker EXCEPT ![w].step = "health",
                                   ![w].state = IF Loaded(w).state = NoState THEN Fresh
                                                ELSE Loaded(w).state]
    /\ UNCHANGED <<world, disk, jobs, done, admission, history>>

LoadFails(w) ==
    /\ At(w, "loading")
    /\ engines[worker[w].id].epoch # worker[w].epoch
    /\ Fault
    /\ Goto(w, "finished")
    /\ UNCHANGED <<world, disk, engines, jobs, done, admission, heard, crashes>>

(* The node that was read had opted out: its state is deleted.              *)
LoadOptedOut(w) ==
    /\ At(w, "loading") /\ ~worker[w].on
    /\ LET n == worker[w].id IN
       \/ /\ disk' = [disk EXCEPT ![n] = NoState]
          /\ engines' = [engines EXCEPT ![n] = [Loaded(w) EXCEPT !.state = NoState,
                                                                 !.saved = NoState]]
          /\ Relearn({n})
          /\ UNCHANGED faults
       \/ /\ Fault
          /\ engines' = [engines EXCEPT ![n] = Loaded(w)]
          /\ UNCHANGED <<disk, told, warned>>
    /\ Goto(w, "finished")
    /\ UNCHANGED <<world, jobs, done, admission, lost, crashes>>

(* The send function looks again before it posts.                           *)
MayPost(w) == Alerted(worker[w].id) /\ epoch = worker[w].epoch

(* Offline, or recovery, or nothing to say.                                 *)
Changed(w) == \/ worker[w].health = "down" /\ ~worker[w].state.off
              \/ worker[w].health = "up" /\ worker[w].state.off

(* trafficWarning.                                                          *)
Due(w) == worker[w].due /\ worker[w].state.cycle # worker[w].cycle

DecideHealth(w) ==
    /\ At(w, "health") /\ Changed(w) /\ MayPost(w) /\ Goto(w, "postHealth")
    /\ UNCHANGED <<world, disk, engines, jobs, done, admission, history>>

DecideTraffic(w) ==
    /\ At(w, "traffic") /\ Due(w) /\ MayPost(w) /\ Goto(w, "postTraffic")
    /\ UNCHANGED <<world, disk, engines, jobs, done, admission, history>>

(* Nothing to say, too early to try again, or no longer allowed.            *)
Skip(w) ==
    /\ \/ At(w, "health") /\ Goto(w, "traffic")
       \/ At(w, "traffic") /\ Goto(w, "saving")
    /\ UNCHANGED <<world, disk, engines, jobs, done, admission, history>>

(* The chat of the present settings hears it.                               *)
Heard(w) == epoch = worker[w].epoch
News(w) == IF worker[w].state.off THEN "up" ELSE "down"

PostHealth(w) ==
    /\ At(w, "postHealth")
    /\ worker' = [worker EXCEPT ![w].step = "traffic", ![w].state.off = ~@]
    /\ told' = IF Heard(w) THEN [told EXCEPT ![worker[w].id] = News(w)] ELSE told
    /\ UNCHANGED <<world, disk, engines, jobs, done, admission, warned, lost,
                   crashes, faults>>

Warn(w) == warned' = IF Heard(w) THEN [warned EXCEPT ![worker[w].id][worker[w].cycle] = @ + 1]
                     ELSE warned

\* Mutant: the cycle of the warning is not noted.
PostTrafficUnnoted(w) ==
    /\ At(w, "postTraffic") /\ Goto(w, "saving")
    /\ Warn(w)
    /\ UNCHANGED <<world, disk, engines, jobs, done, admission, told, lost,
                   crashes, faults>>

PostTraffic(w) ==
    /\ At(w, "postTraffic")
    /\ worker' = [worker EXCEPT ![w].step = "saving", ![w].state.cycle = worker[w].cycle]
    /\ Warn(w)
    /\ UNCHANGED <<world, disk, engines, jobs, done, admission, told, lost,
                   crashes, faults>>

\* Mutant: a failed post counts as delivered.
PostFailsNoted(w) ==
    /\ \/ /\ At(w, "postHealth")
          /\ worker' = [worker EXCEPT ![w].step = "traffic", ![w].state.off = ~@]
       \/ At(w, "postTraffic") /\ Goto(w, "saving")
    /\ UNCHANGED <<world, disk, engines, jobs, done, admission, history>>

(* Telegram refuses a message or cannot be reached.                         *)
PostFails(w) ==
    /\ \/ At(w, "postHealth") /\ Goto(w, "traffic")
       \/ At(w, "postTraffic") /\ Goto(w, "saving")
    /\ UNCHANGED <<world, disk, engines, jobs, done, admission, history>>

(* The message arrives but its answer does not.                             *)
AnswerLost(w) ==
    /\ lost < MaxLost /\ lost' = lost + 1
    /\ \/ /\ At(w, "postHealth") /\ Goto(w, "traffic")
          /\ told' = IF Heard(w) THEN [told EXCEPT ![worker[w].id] = "unsure"] ELSE told
          /\ UNCHANGED warned
       \/ /\ At(w, "postTraffic") /\ Goto(w, "saving")
          /\ Warn(w) /\ UNCHANGED told
    /\ UNCHANGED <<world, disk, engines, jobs, done, admission, crashes, faults>>

\* Mutant: the state is saved whatever became of the node and the settings.
SavableAlways(w) == TRUE

(* The store accepts the state of a node that is alerted under this epoch.  *)
Savable(w) == Alerted(worker[w].id) /\ epoch = worker[w].epoch

(* The engine takes the new state and saves it if it changed, be it in      *)
(* fields that are left out here.                                           *)
Save(w) ==
    /\ At(w, "saving")
    /\ LET n == worker[w].id
           st == worker[w].state
       IN \/ /\ engines[n].saved = st
             /\ engines' = [engines EXCEPT ![n].state = st]
             /\ UNCHANGED <<disk, faults>>
          \/ /\ engines' = [engines EXCEPT ![n].state = st, ![n].saved = st]
             /\ disk' = IF Savable(w)
                        THEN [disk EXCEPT ![n] = [epoch |-> worker[w].epoch, state |-> st]]
                        ELSE disk
             /\ UNCHANGED faults
          \/ /\ Fault
             /\ engines' = [engines EXCEPT ![n].state = st]
             /\ UNCHANGED disk
    /\ Goto(w, "finished")
    /\ UNCHANGED <<world, jobs, done, admission, heard, crashes>>

Finish(w) ==
    /\ At(w, "finished")
    /\ done' = done \cup {worker[w].id}
    /\ worker' = [worker EXCEPT ![w] = Resting]
    /\ UNCHANGED <<world, disk, engines, jobs, admission, history>>
-----------------------------------------------------------------------------
Event == events < MaxEvents /\ events' = events + 1

(* UpdateTelegramOptions: any change of token, chat or switch is an epoch;  *)
(* its chat has heard nothing.                                              *)
ChangeSettings(e) ==
    /\ Event
    /\ enabled' = e
    /\ epoch' = epoch + 1
    /\ told' = [n \in Nodes |-> "up"]
    /\ warned' = [n \in Nodes |-> Unwarned]
    /\ UNCHANGED <<member, health, usage, cycle, disk, memory, lost, crashes, faults>>

OptOut(n) ==
    /\ Event /\ member[n] = "on"
    /\ member' = [member EXCEPT ![n] = "out"]
    /\ UNCHANGED <<enabled, epoch, health, usage, cycle, disk, memory, history>>

OptIn(n) ==
    /\ Event /\ member[n] = "out"
    /\ member' = [member EXCEPT ![n] = "on"]
    /\ UNCHANGED <<enabled, epoch, health, usage, cycle, disk, memory, history>>

DeleteNode(n) ==
    /\ Event /\ member[n] # "gone"
    /\ member' = [member EXCEPT ![n] = "gone"]
    /\ disk' = [disk EXCEPT ![n] = NoState]
    /\ UNCHANGED <<enabled, epoch, health, usage, cycle, memory, history>>

Report(n) ==
    /\ Event /\ member[n] # "gone"
    /\ \/ health' = [health EXCEPT ![n] = "up"] /\ UNCHANGED usage
       \/ health' = [health EXCEPT ![n] = "up"] /\ usage' = [usage EXCEPT ![n] = TRUE]
    /\ UNCHANGED <<enabled, epoch, member, cycle, disk, memory, history>>

Silence(n) ==
    /\ Event /\ health[n] # "down"
    /\ health' = [health EXCEPT ![n] = IF @ = "up" THEN "late" ELSE "down"]
    /\ UNCHANGED <<enabled, epoch, member, usage, cycle, disk, memory, history>>

NewCycle ==
    /\ Event
    /\ cycle' = cycle + 1
    /\ usage' = [n \in Nodes |-> FALSE]
    /\ UNCHANGED <<enabled, epoch, member, health, disk, memory, history>>

(* A stop cancels every step.  What the chat heard and the disk does not    *)
(* know is no longer known.                                                 *)
Crash ==
    /\ crashes < MaxCrashes
    /\ crashes' = crashes + 1
    /\ NoMemory
    /\ told' = [n \in Nodes |-> IF OnDisk(n).off = (told[n] = "down") THEN told[n] ELSE "unsure"]
    /\ UNCHANGED <<world, disk, warned, lost, faults>>

Check(w) == \/ Take(w) \/ Load(w) \/ LoadFails(w) \/ LoadOptedOut(w)
            \/ DecideHealth(w) \/ DecideTraffic(w) \/ Skip(w)
            \/ PostHealth(w) \/ PostTraffic(w) \/ PostFails(w) \/ AnswerLost(w)
            \/ Save(w) \/ Finish(w)

Next == \/ Tick
        \/ \E n \in Nodes : Admit(n) \/ ReadDone(n)
        \/ \E w \in Workers : Check(w)
        \/ \E e \in BOOLEAN : ChangeSettings(e)
        \/ \E n \in Nodes : \/ OptOut(n) \/ OptIn(n) \/ DeleteNode(n)
                            \/ Report(n) \/ Silence(n)
        \/ NewCycle
        \/ Crash

Spec == Init /\ [][Next]_vars

(* The ticker ticks, goroutines run; a retry comes when its delay is over,  *)
(* and among the messages posted again and again some go through.           *)
FairSpec ==
    /\ Spec
    /\ WF_vars(Tick)
    /\ \A n \in Nodes : WF_vars(Admit(n)) /\ SF_vars(ReadDone(n))
    /\ \A w \in Workers :
         /\ WF_vars(Check(w))
         /\ SF_vars(DecideHealth(w)) /\ SF_vars(PostHealth(w))
-----------------------------------------------------------------------------
(* A node has at most one check queued or under way, and the dispatcher     *)
(* knows of it: no two goroutines share an engine (telegram_queue.go:22).   *)
Queued(n) == \E i \in 1..Len(jobs) : jobs[i].id = n
Busy(n) == \E w \in Workers : worker[w].step # "idle" /\ worker[w].id = n

OneCheck ==
    /\ \A i, j \in 1..Len(jobs) : jobs[i].id = jobs[j].id => i = j
    /\ \A v, w \in Workers :
          worker[v].step # "idle" /\ worker[w].step # "idle" /\ worker[v].id = worker[w].id
          => v = w
    /\ \A n \in Nodes :
          /\ Queued(n) => ~Busy(n) /\ n \notin done
          /\ Busy(n) => n \notin done
          /\ n \in pending <=> Queued(n) \/ Busy(n) \/ n \in done
          /\ n \in pending => engines[n] # NoState

(* No message tells the chat what it knows: offline and recovery alternate, *)
(* whatever happens to settings, opt-outs, the database and the server,     *)
(* unless an answer was lost or a state was not saved (telegram.go:98-113). *)
NoRepeat ==
    \A w \in Workers :
        At(w, "postHealth") /\ Heard(w) => told[worker[w].id] # News(w)

(* A cycle's warnings: one, and one more for each crash or lost answer that *)
(* hid a delivered one (telegram.go:183, 191).                              *)
FewWarnings ==
    \A n \in Nodes : \A k \in Numbers : warned[n][k] <= 1 + crashes + lost

(* A deleted node leaves no alert state, whatever check was under way       *)
(* (telegram_state.go:35).                                                  *)
NoStateOfDeleted == \A n \in Nodes : member[n] = "gone" => disk[n] = NoState

(* An outage that lasts, and that the administrator wants to hear of, is    *)
(* told and stays told, through failed posts, opt-outs and changes of the   *)
(* settings around it; only a crash, a lost answer or two failed writes can *)
(* leave it in doubt (telegram.go:98, 165; telegram_queue.go:86).           *)
DownIsTold ==
    \A n \in Nodes :
        <>[](health[n] = "down" /\ Alerted(n)) =>
        <>[](\/ told[n] = "down"
             \/ told[n] = "unsure" /\ (crashes + lost > 0 \/ faults > 1))

(* The rotation starves no node when the queue is full                      *)
(* (telegram_queue.go:92).                                                  *)
EveryNodeChecked == \A n \in Nodes : <>[]Alerted(n) => []<>(n \in pending)
=============================================================================
