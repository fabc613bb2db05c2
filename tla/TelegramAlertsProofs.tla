------------------------ MODULE TelegramAlertsProofs ------------------------
(***************************************************************************)
(* Proofs about TelegramAlerts: types, one check per node, nothing of a    *)
(* deleted node, and the alternation of offline and recovery messages.     *)
(***************************************************************************)
EXTENDS TelegramAlertsInv, FiniteSetTheorems, TLAPS

(* The tuples that UNCHANGED names.                                         *)
USE DEF vars, world, memory, admission, history, heard

LEMMA Constants ==
    /\ NodeCount \in Nat \ {0} /\ QueueCap \in Nat \ {0}
    /\ MaxEvents \in Nat /\ MaxCrashes \in Nat /\ MaxFaults \in Nat /\ MaxLost \in Nat
    /\ 1 \in Numbers /\ Numbers \subseteq Nat
    /\ Fresh \in State /\ NewEngine \in Engine
    /\ Resting \in WorkerState /\ NoRound \in Round
    /\ Unwarned \in [Numbers -> Nat]
BY AlertsAssumption
DEF Numbers, Fresh, State, NewEngine, Engine, Resting, WorkerState, Steps, NoRound, Round,
    Unwarned

LEMMA CursorType ==
    ASSUME TypeOK, Members # {}
    PROVE  Advanced \in 0..(NodeCount - 1)
<1>1. IsFiniteSet(Nodes) /\ Cardinality(Nodes) = NodeCount
  BY AlertsAssumption, FS_Interval DEF Nodes
<1>2. Members \subseteq Nodes
  BY DEF Members
<1>3. IsFiniteSet(Members) /\ Cardinality(Members) <= NodeCount /\ Cardinality(Members) \in Nat
  BY <1>1, <1>2, FS_Subset, FS_CardinalityType
<1>4. Cardinality(Members) # 0
  BY <1>3, FS_EmptySet
<1> DEFINE d == Cardinality(Members)
           x == cursor + QueueCap
<1>5. d \in Nat \ {0} /\ x \in Nat /\ d <= NodeCount /\ NodeCount \in Nat
  BY <1>3, <1>4, AlertsAssumption DEF TypeOK
<1>6. x % d \in 0..(d - 1)
  <2> HIDE DEF d, x
  <2> QED BY <1>5, Z3
<1> QED
  BY <1>5, <1>6 DEF Advanced

(* What an engine would load of a row is a state.                           *)
LEMMA SavedType ==
    ASSUME NEW row \in Row \cup {NoState}
    PROVE  /\ Saved(row) \in State
           /\ Saved(row).off \in BOOLEAN /\ Saved(row).cycle \in Nat
<1>1. Saved(row) \in State
  BY Constants, NoStateAssumption DEF Saved, Row
<1>2. ASSUME NEW s \in State PROVE s.off \in BOOLEAN /\ s.cycle \in Nat
  <2>1. s.off \in BOOLEAN
    BY DEF State
  <2>2. s.cycle \in Nat
    BY AlertsAssumption DEF State, Numbers
  <2> QED
    BY <2>1, <2>2
<1> QED
  BY <1>1, <1>2, Zenon

(* What a tick leaves on disk, whichever deletions fail.                    *)
LEMMA TickDisk ==
    ASSUME TypeOK, Tick
    PROVE  /\ disk' \in [Nodes -> Row \cup {NoState}] /\ faults' \in 0..MaxFaults
           /\ \A n \in Nodes : disk'[n] = disk[n] \/ disk'[n] = NoState
           /\ \A n \in Nodes \ Forgotten : disk'[n] = disk[n]
<1>1. PICK kept \in SUBSET Forgotten :
         /\ faults' = faults + Cardinality(kept) /\ faults' <= MaxFaults
         /\ disk' = [n \in Nodes |-> IF n \in Forgotten \ kept THEN NoState ELSE disk[n]]
  BY DEF Tick
<1>2. IsFiniteSet(Nodes) /\ kept \subseteq Nodes
  BY AlertsAssumption, FS_Interval DEF Nodes, Forgotten
<1>3. Cardinality(kept) \in Nat
  BY <1>2, FS_Subset, FS_CardinalityType
<1>4. faults' \in 0..MaxFaults
  BY <1>1, <1>3, Constants DEF TypeOK
<1>5. disk \in [Nodes -> Row \cup {NoState}]
  BY DEF TypeOK
<1> QED
  BY <1>1, <1>4, <1>5

(* What counts of what the chat heard of nodes whose state is forgotten.    *)
LEMMA RelearnFacts ==
    ASSUME TypeOK, disk' \in [Nodes -> Row \cup {NoState}], NEW ns, Relearn(ns)
    PROVE  /\ told' \in [Nodes -> {"unsure", "up", "down"}]
           /\ warned' \in [Nodes -> [Numbers -> Nat]]
           /\ \A n \in Nodes \ ns : told'[n] = told[n] /\ warned'[n] = warned[n]
           /\ \A n \in Nodes : n \in ns /\ told'[n] # "unsure" =>
                  (Saved(disk'[n]).off <=> told'[n] = "down")
           /\ \A n \in Nodes, k \in Numbers :
                  /\ warned'[n][k] = warned[n][k] \/ warned'[n][k] = 0
                  /\ n \in ns /\ Saved(disk'[n]).cycle < k => warned'[n][k] = 0
<1>0. /\ told \in [Nodes -> {"unsure", "up", "down"}]
      /\ warned \in [Nodes -> [Numbers -> Nat]]
  BY DEF TypeOK
<1>1. told' = [n \in Nodes |-> IF n \in ns /\ Saved(disk'[n]).off # (told[n] = "down")
                              THEN "unsure" ELSE told[n]]
  BY DEF Relearn
<1>2. warned' = [n \in Nodes |-> [k \in Numbers |->
                   IF n \in ns /\ k > Saved(disk'[n]).cycle THEN 0 ELSE warned[n][k]]]
  BY DEF Relearn
<1>3. ASSUME NEW n \in Nodes
      PROVE  Saved(disk'[n]).off \in BOOLEAN /\ Saved(disk'[n]).cycle \in Nat
  <2>1. disk'[n] \in Row \cup {NoState}
    OBVIOUS
  <2> QED
    BY <2>1, SavedType
<1>4. told' \in [Nodes -> {"unsure", "up", "down"}]
  BY <1>0, <1>1
<1>5. warned' \in [Nodes -> [Numbers -> Nat]]
  BY <1>0, <1>2
<1>6. ASSUME NEW n \in Nodes \ ns PROVE told'[n] = told[n] /\ warned'[n] = warned[n]
  <2>1. warned'[n] = [k \in Numbers |-> warned[n][k]]
    BY <1>2
  <2>2. warned[n] \in [Numbers -> Nat]
    BY <1>0
  <2>3. warned'[n] = warned[n]
    BY <2>1, <2>2
  <2> QED
    BY <1>1, <2>3
<1>7. ASSUME NEW n \in Nodes, n \in ns, told'[n] # "unsure"
      PROVE  Saved(disk'[n]).off <=> told'[n] = "down"
  BY <1>1, <1>3, <1>7
<1>8. ASSUME NEW n \in Nodes, NEW k \in Numbers
      PROVE  /\ warned'[n][k] = warned[n][k] \/ warned'[n][k] = 0
             /\ n \in ns /\ Saved(disk'[n]).cycle < k => warned'[n][k] = 0
  <2>1. warned'[n][k] = IF n \in ns /\ k > Saved(disk'[n]).cycle THEN 0 ELSE warned[n][k]
    BY <1>2
  <2>2. k \in Nat
    BY Constants
  <2> QED
    BY <1>3, <2>1, <2>2
<1> QED
  BY <1>4, <1>5, <1>6, <1>7, <1>8
-----------------------------------------------------------------------------
LEMMA TypeInit == Init => TypeOK /\ CountInv /\ RoundInv
<1> SUFFICES ASSUME Init PROVE TypeOK /\ CountInv /\ RoundInv
  OBVIOUS
<1>1. TypeOK
  BY Constants, AlertsAssumption DEF Init, TypeOK
<1>2. CountInv /\ RoundInv
  BY DEF Init, CountInv, RoundInv, NoRound
<1> QED
  BY <1>1, <1>2

(* A worker that moves on, a warning that is counted, a fault.              *)
LEMMA GotoType ==
    ASSUME TypeOK, NEW w \in Workers, NEW step \in Steps, Goto(w, step)
    PROVE  worker' \in [Workers -> WorkerState]
<1>1. worker \in [Workers -> WorkerState]
  BY DEF TypeOK
<1>2. [worker[w] EXCEPT !.step = step] \in WorkerState
  BY <1>1 DEF WorkerState
<1> QED
  BY <1>1, <1>2 DEF Goto

LEMMA WarnType ==
    ASSUME TypeOK, NEW w \in Workers, Warn(w)
    PROVE  warned' \in [Nodes -> [Numbers -> Nat]]
<1> DEFINE n == worker[w].id
           k == worker[w].cycle
<1>1. warned \in [Nodes -> [Numbers -> Nat]]
  BY DEF TypeOK
<1>2. CASE n \in Nodes
  <2>1. warned[n] \in [Numbers -> Nat]
    BY <1>1, <1>2
  <2>2. [warned[n] EXCEPT ![k] = @ + 1] \in [Numbers -> Nat]
    <3>1. CASE k \in Numbers
      BY <2>1, <3>1
    <3>2. CASE k \notin Numbers
      BY <2>1, <3>2
    <3> QED
      BY <3>1, <3>2
  <2> QED
    BY <1>1, <1>2, <2>2 DEF Warn
<1>3. CASE n \notin Nodes
  BY <1>1, <1>3 DEF Warn
<1> QED
  BY <1>2, <1>3

LEMMA FaultType ==
    ASSUME TypeOK, Fault \/ faults' = faults
    PROVE  faults' \in 0..MaxFaults
BY Constants DEF Fault, TypeOK

LEMMA LoadedEngine ==
    ASSUME TypeOK, OneCheck, NEW w \in Workers, worker[w].step # "idle",
           worker[w].id \in Nodes, worker[w].epoch \in Numbers
    PROVE  /\ engines[worker[w].id] \in Engine
           /\ Loaded(w) \in Engine /\ Loaded(w).epoch = worker[w].epoch
<1>1. engines[worker[w].id] # NoState
  BY DEF OneCheck, Busy
<1>2. engines[worker[w].id] \in Engine
  BY <1>1 DEF TypeOK
<1>3. disk[worker[w].id] \in Row \cup {NoState}
  BY DEF TypeOK
<1> QED
  BY <1>2, <1>3 DEF Loaded, Engine, Row

(* The workers' steps.                                                      *)
LEMMA TypeCheck ==
    ASSUME TypeOK, OneCheck, AgeInv, NEW w \in Workers, Check(w)
    PROVE  TypeOK'
<1> USE Constants
<1>1. CASE Take(w)
  <2>1. Len(jobs) > 0 /\ Head(jobs) \in Job /\ Tail(jobs) \in Seq(Job) /\ Len(Tail(jobs)) = Len(jobs) - 1
    BY <1>1 DEF Take, TypeOK
  <2>2. worker' \in [Workers -> WorkerState]
    <3> DEFINE n == Head(jobs).id
               p == [step |-> IF epoch = Head(jobs).epoch /\ member[n] # "gone"
                              THEN "loading" ELSE "finished",
                     id |-> n, epoch |-> epoch, on |-> member[n] = "on", health |-> health[n],
                     due |-> usage[n], cycle |-> cycle, state |-> Fresh]
    <3>1. worker' = [worker EXCEPT ![w] = p]
      BY <1>1, Zenon DEF Take
    <3>2. n \in Nodes
      BY <2>1 DEF Job
    <3>3. /\ epoch \in Numbers /\ health[n] \in {"up", "late", "down"}
          /\ usage[n] \in BOOLEAN /\ cycle \in Numbers /\ Fresh \in State
      BY <3>2 DEF TypeOK
    <3> HIDE DEF n
    <3>4. p \in WorkerState
      BY <3>2, <3>3 DEF WorkerState, Steps
    <3> HIDE DEF p
    <3>5. worker \in [Workers -> WorkerState]
      BY DEF TypeOK
    <3> QED
      BY <3>1, <3>4, <3>5
  <2>3. /\ jobs' = Tail(jobs)
        /\ UNCHANGED <<world, disk, engines, done, admission, history>>
    BY <1>1 DEF Take
  <2>4. jobs' \in Seq(Job) /\ Len(jobs') <= QueueCap
    BY <2>1, <2>3 DEF TypeOK
  <2> QED
    BY <2>2, <2>3, <2>4 DEF TypeOK, world, admission, history
<1>2. ASSUME ~At(w, "idle") PROVE worker[w].id \in Nodes /\ worker[w].epoch \in Numbers
  BY <1>2 DEF AgeInv
<1>3. worker[w] \in WorkerState /\ worker \in [Workers -> WorkerState]
  BY DEF TypeOK
<1>4. CASE Load(w)
  <2>1. worker[w].id \in Nodes /\ worker[w].epoch \in Numbers
    BY <1>4, <1>2 DEF Load, At
  <2>2. Loaded(w) \in Engine
    BY <2>1, <1>4, LoadedEngine DEF Load, At
  <2> DEFINE n == worker[w].id
             s == IF Loaded(w).state = NoState THEN Fresh ELSE Loaded(w).state
             a == [worker[w] EXCEPT !.step = "health"]
             p == [a EXCEPT !.state = s]
  <2>3. s \in State
    BY <2>2 DEF Engine
  <2>4. /\ engines' = [engines EXCEPT ![n] = Loaded(w)]
        /\ worker' = [worker EXCEPT ![w].step = "health", ![w].state = s]
        /\ UNCHANGED <<world, disk, jobs, done, admission, history>>
    BY <1>4, Zenon DEF Load
  <2>5. engines \in [Nodes -> Engine \cup {NoState}]
    BY DEF TypeOK
  <2>6. engines' \in [Nodes -> Engine \cup {NoState}]
    BY <2>1, <2>2, <2>4, <2>5
  <2> HIDE DEF s
  <2>7. a \in WorkerState
    BY <1>3 DEF WorkerState, Steps
  <2>8. p \in WorkerState
    BY <2>3, <2>7 DEF WorkerState
  <2>9. worker' = [worker EXCEPT ![w] = p]
    BY <1>3, <2>4
  <2> HIDE DEF p
  <2>10. worker' \in [Workers -> WorkerState]
    BY <1>3, <2>8, <2>9
  <2> QED
    BY <2>4, <2>6, <2>10 DEF TypeOK, world, admission, history
<1>5. CASE LoadFails(w)
  <2>1. worker' \in [Workers -> WorkerState] /\ faults' \in 0..MaxFaults
    BY <1>5, GotoType, FaultType DEF LoadFails, Steps
  <2> QED
    BY <1>5, <2>1 DEF LoadFails, TypeOK
<1>6. CASE LoadOptedOut(w)
  <2>1. worker[w].id \in Nodes /\ worker[w].epoch \in Numbers /\ Loaded(w) \in Engine
    BY <1>6, <1>2, LoadedEngine DEF LoadOptedOut, At
  <2>2. worker' \in [Workers -> WorkerState]
    BY <1>6, <1>3 DEF LoadOptedOut, Goto, WorkerState, Steps
  <2>3. engines' \in [Nodes -> Engine \cup {NoState}]
    <3>1. [Loaded(w) EXCEPT !.state = NoState, !.saved = NoState] \in Engine
      BY <2>1 DEF Engine
    <3>2. engines \in [Nodes -> Engine \cup {NoState}]
      BY DEF TypeOK
    <3> QED
      BY <1>6, <2>1, <3>1, <3>2 DEF LoadOptedOut
  <2>4. disk' \in [Nodes -> Row \cup {NoState}] /\ faults' \in 0..MaxFaults
    <3>1. disk \in [Nodes -> Row \cup {NoState}]
      BY DEF TypeOK
    <3> QED
      BY <1>6, <2>1, <3>1, FaultType DEF LoadOptedOut
  <2>5. /\ told' \in [Nodes -> {"unsure", "up", "down"}]
        /\ warned' \in [Nodes -> [Numbers -> Nat]]
    BY <1>6, <2>1, <2>4, RelearnFacts DEF LoadOptedOut, TypeOK
  <2> QED
    BY <1>6, <2>2, <2>3, <2>4, <2>5 DEF LoadOptedOut, TypeOK
<1>7. CASE DecideHealth(w)
  BY <1>7, <1>3 DEF DecideHealth, Goto, TypeOK, WorkerState, Steps
<1>8. CASE DecideTraffic(w)
  BY <1>8, <1>3 DEF DecideTraffic, Goto, TypeOK, WorkerState, Steps
<1>9. CASE Skip(w)
  <2>1. worker' \in [Workers -> WorkerState]
    BY <1>9, GotoType DEF Skip, Steps
  <2> QED
    BY <1>9, <2>1 DEF Skip, TypeOK
<1>10. CASE PostHealth(w)
  <2>1. worker' \in [Workers -> WorkerState]
    BY <1>10, <1>3 DEF PostHealth, WorkerState, State, Steps
  <2> QED
    BY <1>10, <2>1 DEF PostHealth, News, TypeOK
<1>11. CASE PostTraffic(w)
  <2>1. worker' \in [Workers -> WorkerState]
    BY <1>11, <1>3 DEF PostTraffic, WorkerState, State, Steps
  <2>2. warned' \in [Nodes -> [Numbers -> Nat]]
    BY <1>11, WarnType DEF PostTraffic
  <2> QED
    BY <1>11, <2>1, <2>2 DEF PostTraffic, TypeOK
<1>12. CASE PostFails(w)
  <2>1. worker' \in [Workers -> WorkerState]
    BY <1>12, GotoType DEF PostFails, Steps
  <2> QED
    BY <1>12, <2>1 DEF PostFails, TypeOK
<1>13. CASE AnswerLost(w)
  <2>1. worker' \in [Workers -> WorkerState]
    BY <1>13, GotoType DEF AnswerLost, Steps
  <2>2. warned' \in [Nodes -> [Numbers -> Nat]]
    BY <1>13, WarnType DEF AnswerLost, TypeOK
  <2>3. lost' \in 0..MaxLost
    BY <1>13 DEF AnswerLost, TypeOK
  <2>4. told' \in [Nodes -> {"unsure", "up", "down"}]
    <3>1. told \in [Nodes -> {"unsure", "up", "down"}]
      BY DEF TypeOK
    <3> QED
      BY <1>13, <3>1 DEF AnswerLost
  <2> QED
    BY <1>13, <2>1, <2>2, <2>3, <2>4 DEF AnswerLost, TypeOK
<1>14. CASE Save(w)
  <2>1. worker[w].id \in Nodes /\ worker[w].epoch \in Numbers /\ worker[w].state \in State
    BY <1>14, <1>2, <1>3 DEF Save, At, WorkerState
  <2>2. worker' \in [Workers -> WorkerState]
    BY <1>14, <1>3 DEF Save, Goto, WorkerState, Steps
  <2>3. disk' \in [Nodes -> Row \cup {NoState}] /\ faults' \in 0..MaxFaults
    <3>1. disk \in [Nodes -> Row \cup {NoState}]
      BY DEF TypeOK
    <3>2. [epoch |-> worker[w].epoch, state |-> worker[w].state] \in Row
      BY <2>1 DEF Row
    <3> QED
      BY <1>14, <2>1, <3>1, <3>2, FaultType DEF Save
  <2>4. engines' \in [Nodes -> Engine \cup {NoState}]
    <3>1. engines[worker[w].id] \in Engine
      BY <1>14, <2>1, LoadedEngine DEF Save, At
    <3> DEFINE e == engines[worker[w].id]
               st == worker[w].state
    <3>2. /\ [e EXCEPT !.state = st] \in Engine
          /\ [[e EXCEPT !.state = st] EXCEPT !.saved = st] \in Engine
      BY <2>1, <3>1 DEF Engine
    <3>3. engines \in [Nodes -> Engine \cup {NoState}]
      BY DEF TypeOK
    <3> QED
      BY <1>14, <2>1, <3>2, <3>3 DEF Save
  <2> QED
    BY <1>14, <2>2, <2>3, <2>4 DEF Save, TypeOK
<1>15. CASE Finish(w)
  BY <1>15, <1>2, <1>3 DEF Finish, At, TypeOK
<1> QED
  BY <1>1, <1>4, <1>5, <1>6, <1>7, <1>8, <1>9, <1>10, <1>11, <1>12, <1>13, <1>14, <1>15
  DEF Check

(* The dispatcher's steps.                                                  *)
LEMMA TypeDispatch ==
    ASSUME TypeOK, RoundInv, Tick \/ \E n \in Nodes : Admit(n) \/ ReadDone(n)
    PROVE  TypeOK'
<1> USE Constants
<1>1. CASE Tick
  <2>1. disk' \in [Nodes -> Row \cup {NoState}] /\ faults' \in 0..MaxFaults
    BY <1>1, TickDisk
  <2>2. engines' \in [Nodes -> Engine \cup {NoState}]
    BY <1>1 DEF Tick, TypeOK
  <2>3. /\ told' \in [Nodes -> {"unsure", "up", "down"}]
        /\ warned' \in [Nodes -> [Numbers -> Nat]]
    <3>1. Relearn(Forgotten)
      BY <1>1 DEF Tick
    <3> QED
      BY <2>1, <3>1, RelearnFacts
  <2>4. cursor' \in 0..(NodeCount - 1) /\ round' \in Round
    <3>1. CASE enabled /\ Members # {}
      <4>1. Members \subseteq Nodes /\ Admissible \subseteq Nodes
        BY DEF Members, Admissible
      <4>2. cursor \in 0..(NodeCount - 1) /\ epoch \in Numbers
        BY DEF TypeOK
      <4>3. [nodes |-> Members, left |-> Admissible, from |-> cursor, epoch |-> epoch] \in Round
        BY <4>1, <4>2 DEF Round
      <4>4. Advanced \in 0..(NodeCount - 1)
        BY <3>1, CursorType
      <4> QED
        BY <1>1, <3>1, <4>3, <4>4 DEF Tick
    <3>2. CASE ~(enabled /\ Members # {})
      BY <1>1, <3>2 DEF Tick, TypeOK
    <3> QED
      BY <3>1, <3>2
  <2> QED
    BY <1>1, <2>1, <2>2, <2>3, <2>4 DEF Tick, TypeOK
<1>2. ASSUME NEW n \in Nodes, Admit(n) PROVE TypeOK'
  <2>1. engines' \in [Nodes -> Engine \cup {NoState}]
    BY <1>2 DEF Admit, TypeOK
  <2>2. round' \in Round
    BY <1>2 DEF Admit, TypeOK, Round
  <2>3. jobs' \in Seq(Job) /\ Len(jobs') <= QueueCap
    <3>1. [id |-> n, epoch |-> round.epoch] \in Job
      BY <1>2 DEF Admit, RoundInv, Job
    <3>2. jobs \in Seq(Job) /\ Len(jobs) <= QueueCap /\ QueueCap \in Nat
      BY DEF TypeOK
    <3>3. CASE Len(jobs) < QueueCap
      <4>1. jobs' = Append(jobs, [id |-> n, epoch |-> round.epoch])
        BY <1>2, <3>3 DEF Admit
      <4> QED
        BY <3>1, <3>2, <3>3, <4>1
    <3>4. CASE ~(Len(jobs) < QueueCap)
      BY <1>2, <3>2, <3>4 DEF Admit
    <3> QED
      BY <3>3, <3>4
  <2>4. pending' \subseteq Nodes
    BY <1>2 DEF Admit, TypeOK
  <2>5. UNCHANGED <<world, disk, done, cursor, worker, history>>
    BY <1>2 DEF Admit
  <2> QED
    BY <2>1, <2>2, <2>3, <2>4, <2>5 DEF TypeOK, world, history
<1>3. ASSUME NEW n \in Nodes, ReadDone(n) PROVE TypeOK'
  BY <1>3 DEF ReadDone, TypeOK
<1> QED
  BY <1>1, <1>2, <1>3

(* What happens to nodes, settings and the server.                          *)
LEMMA TypeWorld ==
    ASSUME TypeOK, CountInv,
           \/ \E e \in BOOLEAN : ChangeSettings(e)
           \/ \E n \in Nodes : OptOut(n) \/ OptIn(n) \/ DeleteNode(n) \/ Report(n) \/ Silence(n)
           \/ NewCycle
           \/ Crash
    PROVE  TypeOK'
<1> USE Constants
<1>1. ASSUME Event PROVE events' \in 0..MaxEvents /\ epoch + 1 \in Numbers /\ cycle + 1 \in Numbers
  BY <1>1 DEF Event, CountInv, TypeOK, Numbers
<1>2. ASSUME NEW e \in BOOLEAN, ChangeSettings(e) PROVE TypeOK'
  BY <1>1, <1>2 DEF ChangeSettings, TypeOK
<1>3. ASSUME NEW n \in Nodes, OptOut(n) \/ OptIn(n) \/ DeleteNode(n) PROVE TypeOK'
  BY <1>1, <1>3 DEF OptOut, OptIn, DeleteNode, TypeOK
<1>4. ASSUME NEW n \in Nodes, Report(n) \/ Silence(n) PROVE TypeOK'
  BY <1>1, <1>4 DEF Report, Silence, TypeOK
<1>5. CASE NewCycle
  BY <1>1, <1>5 DEF NewCycle, TypeOK
<1>6. CASE Crash
  <2>1. told' \in [Nodes -> {"unsure", "up", "down"}]
    BY <1>6 DEF Crash, TypeOK
  <2> QED
    BY <1>6, <2>1 DEF Crash, NoMemory, TypeOK
<1> QED
  BY <1>2, <1>3, <1>4, <1>5, <1>6

LEMMA TypeNext ==
    ASSUME TypeOK, CountInv, RoundInv, OneCheck, AgeInv, [Next]_vars
    PROVE  TypeOK' /\ CountInv'
<1>1. TypeOK'
  <2>1. CASE UNCHANGED vars
    BY <2>1 DEF TypeOK
  <2>2. CASE Tick \/ \E n \in Nodes : Admit(n) \/ ReadDone(n)
    BY <2>2, TypeDispatch
  <2>3. ASSUME NEW w \in Workers, Check(w) PROVE TypeOK'
    BY <2>3, TypeCheck
  <2> QED
    BY <2>1, <2>2, <2>3, TypeWorld DEF Next
<1>2. CountInv'
  <2>1. epoch \in Nat /\ cycle \in Nat /\ events \in Nat
    BY Constants DEF TypeOK
  <2>2. CASE UNCHANGED <<epoch, cycle, events>>
    BY <2>2 DEF CountInv
  <2>3. CASE Event /\ epoch' \in {epoch, epoch + 1} /\ cycle' \in {cycle, cycle + 1}
    BY <2>1, <2>3 DEF CountInv, Event
  <2>4. ASSUME NEW w \in Workers, Check(w) PROVE UNCHANGED <<epoch, cycle, events>>
    BY <2>4 DEF Check, Take, Load, LoadFails, LoadOptedOut, DecideHealth, DecideTraffic, Skip,
                PostHealth, PostTraffic, PostFails, AnswerLost, Save, Finish
  <2>5. ASSUME Tick \/ (\E n \in Nodes : Admit(n) \/ ReadDone(n)) \/ Crash
        PROVE  UNCHANGED <<epoch, cycle, events>>
    BY <2>5 DEF Tick, Admit, ReadDone, Crash
  <2>6. ASSUME \/ \E e \in BOOLEAN : ChangeSettings(e)
               \/ \E n \in Nodes : OptOut(n) \/ OptIn(n) \/ DeleteNode(n) \/ Report(n) \/ Silence(n)
               \/ NewCycle
        PROVE  Event /\ epoch' \in {epoch, epoch + 1} /\ cycle' \in {cycle, cycle + 1}
    BY <2>6 DEF ChangeSettings, OptOut, OptIn, DeleteNode, Report, Silence, NewCycle
  <2> QED
    BY <2>2, <2>3, <2>4, <2>5, <2>6 DEF Next
<1> QED
  BY <1>1, <1>2
-----------------------------------------------------------------------------
LEMMA RoundStep ==
    ASSUME TypeOK, RoundInv, [Next]_vars
    PROVE  RoundInv'
<1>1. CASE UNCHANGED <<round, pending>>
  BY <1>1 DEF RoundInv
<1>2. CASE Tick
  BY <1>2 DEF Tick, Waiting, Admissible, NoRound, RoundInv, TypeOK
<1>3. ASSUME NEW n \in Nodes, Admit(n) PROVE RoundInv'
  BY <1>3 DEF Admit, NoRound, RoundInv, TypeOK, Round
<1>4. ASSUME NEW n \in Nodes, ReadDone(n) PROVE RoundInv'
  BY <1>4 DEF ReadDone, RoundInv
<1>5. CASE Crash
  BY <1>5 DEF Crash, NoMemory, NoRound, RoundInv
<1>6. ASSUME NEW w \in Workers, Check(w) PROVE UNCHANGED <<round, pending>>
  BY <1>6 DEF Check, Take, Load, LoadFails, LoadOptedOut, DecideHealth, DecideTraffic, Skip,
              PostHealth, PostTraffic, PostFails, AnswerLost, Save, Finish
<1>7. ASSUME \/ \E e \in BOOLEAN : ChangeSettings(e)
             \/ \E n \in Nodes : OptOut(n) \/ OptIn(n) \/ DeleteNode(n) \/ Report(n) \/ Silence(n)
             \/ NewCycle
             \/ UNCHANGED vars
      PROVE  UNCHANGED <<round, pending>>
  BY <1>7 DEF ChangeSettings, OptOut, OptIn, DeleteNode, Report, Silence, NewCycle
<1> QED
  BY <1>1, <1>2, <1>3, <1>4, <1>5, <1>6, <1>7 DEF Next
-----------------------------------------------------------------------------
(* Steps that neither begin nor end a check.                                *)
LEMMA SameChecks ==
    ASSUME OneCheck, UNCHANGED <<jobs, done, pending>>,
           \A v \in Workers : /\ worker'[v].step = "idle" <=> worker[v].step = "idle"
                              /\ worker'[v].id = worker[v].id,
           \A n \in pending : engines[n] # NoState => engines'[n] # NoState
    PROVE  OneCheck'
BY DEF OneCheck, Queued, Busy

(* Between the load and the end, a worker only moves on.                    *)
LEMMA WorkerKeepsCheck ==
    ASSUME TypeOK, OneCheck, AgeInv, NEW w \in Workers, Check(w), ~Take(w), ~Finish(w)
    PROVE  /\ UNCHANGED <<jobs, done, pending>>
           /\ \A v \in Workers : /\ worker'[v].step = "idle" <=> worker[v].step = "idle"
                                 /\ worker'[v].id = worker[v].id
           /\ \A n \in pending : engines[n] # NoState => engines'[n] # NoState
           /\ \A v \in Workers \ {w} : worker'[v] = worker[v]
           /\ \A n \in Nodes \ {worker[w].id} : engines'[n] = engines[n]
<1>1. /\ worker \in [Workers -> WorkerState]
      /\ engines \in [Nodes -> Engine \cup {NoState}]
      /\ pending \subseteq Nodes
  BY DEF TypeOK
<1>2. worker[w].step # "idle"
  BY DEF Check, Load, LoadFails, LoadOptedOut, DecideHealth, DecideTraffic, Skip,
         PostHealth, PostTraffic, PostFails, AnswerLost, Save, At
<1>3. worker[w].id \in Nodes /\ worker[w].epoch \in Numbers
  BY <1>2 DEF AgeInv, At
<1>4. /\ UNCHANGED <<jobs, done, pending>>
      /\ \A v \in Workers : /\ worker'[v].step = "idle" <=> worker[v].step = "idle"
                            /\ worker'[v].id = worker[v].id
      /\ \A v \in Workers \ {w} : worker'[v] = worker[v]
  BY <1>1, <1>2 DEF Check, Load, LoadFails, LoadOptedOut, DecideHealth, DecideTraffic, Skip,
         PostHealth, PostTraffic, PostFails, AnswerLost, Save, At, Goto, WorkerState
<1>5. CASE UNCHANGED engines
  BY <1>4, <1>5
<1>6. CASE Load(w)
  BY <1>1, <1>3, <1>4, <1>6, <1>2, LoadedEngine, NoStateAssumption DEF Load
<1>7. CASE LoadOptedOut(w)
  <2>1. Loaded(w) \in Engine /\ [Loaded(w) EXCEPT !.state = NoState, !.saved = NoState] \in Engine
    BY <1>2, <1>3, LoadedEngine DEF Engine
  <2>2. engines' = [engines EXCEPT ![worker[w].id] = Loaded(w)]
        \/ engines' = [engines EXCEPT ![worker[w].id] =
                           [Loaded(w) EXCEPT !.state = NoState, !.saved = NoState]]
    BY <1>7 DEF LoadOptedOut
  <2>3. Loaded(w) # NoState /\ [Loaded(w) EXCEPT !.state = NoState, !.saved = NoState] # NoState
    BY <2>1, NoStateAssumption
  <2> QED
    BY <1>1, <1>3, <1>4, <2>2, <2>3
<1>8. CASE Save(w)
  <2> DEFINE e == engines[worker[w].id]
             st == worker[w].state
  <2>1. e \in Engine /\ st \in State
    BY <1>1, <1>2, <1>3, LoadedEngine DEF WorkerState
  <2>2. /\ [e EXCEPT !.state = st] \in Engine
        /\ [[e EXCEPT !.state = st] EXCEPT !.saved = st] \in Engine
    BY <2>1 DEF Engine
  <2>3. /\ [e EXCEPT !.state = st] # NoState
        /\ [[e EXCEPT !.state = st] EXCEPT !.saved = st] # NoState
    BY <2>2, NoStateAssumption
  <2>4. \/ engines' = [engines EXCEPT ![worker[w].id] = [e EXCEPT !.state = st]]
        \/ engines' = [engines EXCEPT ![worker[w].id] =
                           [[e EXCEPT !.state = st] EXCEPT !.saved = st]]
    BY <1>1, <1>3, <1>8 DEF Save
  <2> HIDE DEF e, st
  <2> QED
    BY <1>1, <1>3, <1>4, <2>3, <2>4
<1>9. Load(w) \/ LoadOptedOut(w) \/ Save(w) \/ UNCHANGED engines
  BY DEF Check, LoadFails, DecideHealth, DecideTraffic, Skip,
         PostHealth, PostTraffic, PostFails, AnswerLost
<1> QED
  BY <1>5, <1>6, <1>7, <1>8, <1>9

LEMMA OneCheckStep ==
    ASSUME TypeOK, RoundInv, OneCheck, AgeInv, [Next]_vars
    PROVE  OneCheck'
<1>1. CASE Tick
  <2>1. UNCHANGED <<jobs, done, pending, worker>>
    BY <1>1 DEF Tick
  <2>2. \A n \in pending : engines'[n] = engines[n]
    BY <1>1 DEF Tick, Forgotten, TypeOK
  <2> QED
    BY <2>1, <2>2, SameChecks
<1>2. ASSUME NEW n \in Nodes, Admit(n) PROVE OneCheck'
  <2>1. /\ UNCHANGED <<done, worker>>
        /\ engines'[n] # NoState
        /\ \A m \in Nodes \ {n} : engines'[m] = engines[m]
    BY <1>2, Constants, NoStateAssumption DEF Admit, TypeOK
  <2>2. CASE UNCHANGED <<jobs, pending>>
    BY <2>1, <2>2, SameChecks DEF TypeOK
  <2>3. CASE jobs' = Append(jobs, [id |-> n, epoch |-> round.epoch]) /\ pending' = pending \cup {n}
    <3>1. jobs \in Seq(Job) /\ n \notin pending
      BY <1>2 DEF Admit, RoundInv, TypeOK
    <3>2. ~Queued(n) /\ ~Busy(n) /\ n \notin done
      BY <3>1 DEF OneCheck
    <3>3. /\ Len(jobs') = Len(jobs) + 1
          /\ jobs'[Len(jobs) + 1].id = n
          /\ \A i \in 1..Len(jobs) : jobs'[i] = jobs[i]
      BY <2>3, <3>1
    <3>4. \A m \in Nodes : Queued(m)' <=> Queued(m) \/ m = n
      BY <3>1, <3>3 DEF Queued
    <3>5. \A m \in Nodes : Busy(m)' <=> Busy(m)
      BY <2>1 DEF Busy
    <3>6. \A i, j \in 1..Len(jobs') : jobs'[i].id = jobs'[j].id => i = j
      BY <3>1, <3>2, <3>3 DEF Queued, OneCheck
    <3> QED
      BY <2>1, <2>3, <3>2, <3>4, <3>5, <3>6 DEF OneCheck
  <2> QED
    BY <1>2, <2>2, <2>3 DEF Admit
<1>3. ASSUME NEW n \in Nodes, ReadDone(n) PROVE OneCheck'
  <2>1. /\ UNCHANGED <<jobs, worker, engines>>
        /\ n \in done /\ done' = done \ {n} /\ pending' = pending \ {n}
    BY <1>3 DEF ReadDone
  <2>2. \A m \in Nodes : (Queued(m)' <=> Queued(m)) /\ (Busy(m)' <=> Busy(m))
    BY <2>1 DEF Queued, Busy
  <2> QED
    BY <2>1, <2>2 DEF OneCheck
<1>4. ASSUME NEW w \in Workers, Take(w) PROVE OneCheck'
  <2> DEFINE n == Head(jobs).id
  <2>1. /\ jobs \in Seq(Job) /\ Len(jobs) > 0 /\ n \in Nodes /\ n = jobs[1].id
        /\ Len(jobs') = Len(jobs) - 1
        /\ \A i \in 1..Len(jobs') : jobs'[i] = jobs[i + 1]
    <3>1. jobs \in Seq(Job) /\ jobs # <<>> /\ jobs' = Tail(jobs)
      BY <1>4 DEF Take, TypeOK
    <3>2. Len(jobs) > 0 /\ Head(jobs) = jobs[1] /\ Head(jobs) \in Job
      BY <3>1
    <3>3. Len(jobs') = Len(jobs) - 1 /\ \A i \in 1..Len(jobs') : jobs'[i] = jobs[i + 1]
      BY <3>1, <3>2
    <3> QED
      BY <3>1, <3>2, <3>3 DEF Job
  <2>2. /\ UNCHANGED <<engines, done, pending>>
        /\ worker[w].step = "idle" /\ worker'[w].step # "idle" /\ worker'[w].id = n
        /\ \A v \in Workers \ {w} : worker'[v] = worker[v]
    BY <1>4 DEF Take, At, TypeOK
  <2>3. Queued(n) /\ ~Busy(n) /\ n \notin done
    BY <2>1 DEF OneCheck, Queued
  <2>4. \A m \in Nodes : Queued(m)' <=> Queued(m) /\ m # n
    <3>1. ASSUME NEW m \in Nodes, Queued(m)' PROVE Queued(m) /\ m # n
      <4>1. PICK i \in 1..Len(jobs') : jobs'[i].id = m
        BY <3>1 DEF Queued
      <4>2. i + 1 \in 1..Len(jobs) /\ jobs[i + 1].id = m /\ 1 \in 1..Len(jobs)
        BY <2>1, <4>1
      <4> QED
        BY <2>1, <4>1, <4>2 DEF Queued, OneCheck
    <3>2. ASSUME NEW m \in Nodes, Queued(m), m # n PROVE Queued(m)'
      <4>1. PICK i \in 1..Len(jobs) : jobs[i].id = m
        BY <3>2 DEF Queued
      <4>2. i - 1 \in 1..Len(jobs') /\ jobs'[i - 1].id = m
        BY <2>1, <3>2, <4>1
      <4> QED
        BY <4>2 DEF Queued
    <3> QED
      BY <3>1, <3>2
  <2>5. \A m \in Nodes : Busy(m)' <=> Busy(m) \/ m = n
    BY <2>2 DEF Busy
  <2>6. \A i, j \in 1..Len(jobs') : jobs'[i].id = jobs'[j].id => i = j
    <3>1. ASSUME NEW i \in 1..Len(jobs'), NEW j \in 1..Len(jobs'), jobs'[i].id = jobs'[j].id
          PROVE  i = j
      <4>1. i + 1 \in 1..Len(jobs) /\ j + 1 \in 1..Len(jobs)
        BY <2>1
      <4> QED
        BY <2>1, <3>1, <4>1 DEF OneCheck
    <3> QED
      BY <3>1
  <2>7. \A u, v \in Workers :
           worker'[u].step # "idle" /\ worker'[v].step # "idle" /\ worker'[u].id = worker'[v].id
           => u = v
    BY <2>2, <2>3 DEF OneCheck, Busy
  <2> HIDE DEF n
  <2> QED
    BY <2>2, <2>3, <2>4, <2>5, <2>6, <2>7 DEF OneCheck
<1>5. ASSUME NEW w \in Workers, Finish(w) PROVE OneCheck'
  <2> DEFINE n == worker[w].id
  <2>1. /\ UNCHANGED <<jobs, engines, pending>> /\ done' = done \cup {n}
        /\ worker[w].step # "idle" /\ worker'[w].step = "idle"
        /\ \A v \in Workers \ {w} : worker'[v] = worker[v]
    BY <1>5 DEF Finish, At, Resting, TypeOK
  <2>2. Busy(n) /\ \A v \in Workers \ {w} : worker[v].step # "idle" => worker[v].id # n
    BY <2>1 DEF Busy, OneCheck
  <2>3. \A m \in Nodes : /\ Queued(m)' <=> Queued(m)
                         /\ Busy(m)' <=> Busy(m) /\ m # n
    BY <2>1, <2>2 DEF Queued, Busy
  <2>4. n \in Nodes
    BY <2>1 DEF AgeInv, At
  <2> QED
    BY <2>1, <2>2, <2>3, <2>4 DEF OneCheck
<1>6. CASE Crash
  <2>1. /\ jobs' = <<>> /\ done' = {} /\ pending' = {}
        /\ \A v \in Workers : worker'[v].step = "idle"
    BY <1>6 DEF Crash, NoMemory, Resting
  <2> QED
    BY <2>1 DEF OneCheck, Queued, Busy
<1>7. ASSUME NEW w \in Workers, Check(w), ~Take(w), ~Finish(w) PROVE OneCheck'
  BY <1>7, WorkerKeepsCheck, SameChecks
<1>8. ASSUME \/ \E e \in BOOLEAN : ChangeSettings(e)
             \/ \E n \in Nodes : OptOut(n) \/ OptIn(n) \/ DeleteNode(n) \/ Report(n) \/ Silence(n)
             \/ NewCycle
             \/ UNCHANGED vars
      PROVE  OneCheck'
  <2>1. UNCHANGED memory
    BY <1>8 DEF ChangeSettings, OptOut, OptIn, DeleteNode, Report, Silence, NewCycle
  <2> QED
    BY <2>1, SameChecks
<1> QED
  BY <1>1, <1>2, <1>3, <1>4, <1>5, <1>6, <1>7, <1>8 DEF Next, Check
-----------------------------------------------------------------------------
LEMMA DeletedStep ==
    ASSUME TypeOK, AgeInv, NoStateOfDeleted, [Next]_vars
    PROVE  NoStateOfDeleted'
<1>1. CASE UNCHANGED <<member, disk>>
  BY <1>1 DEF NoStateOfDeleted
<1>2. CASE Tick
  <2>1. UNCHANGED member
    BY <1>2 DEF Tick
  <2>2. \A n \in Nodes : disk'[n] = disk[n] \/ disk'[n] = NoState
    BY <1>2, TickDisk
  <2>3. ASSUME NEW n \in Nodes, member'[n] = "gone" PROVE disk'[n] = NoState
    <3>1. disk[n] = NoState
      BY <2>1, <2>3 DEF NoStateOfDeleted
    <3> QED
      BY <2>2, <3>1, Zenon
  <2> QED
    BY <2>3 DEF NoStateOfDeleted
<1>3. ASSUME NEW n \in Nodes, OptOut(n) \/ OptIn(n) \/ DeleteNode(n) PROVE NoStateOfDeleted'
  BY <1>3 DEF OptOut, OptIn, DeleteNode, NoStateOfDeleted, TypeOK
<1>4. ASSUME NEW w \in Workers, LoadOptedOut(w) PROVE NoStateOfDeleted'
  BY <1>4 DEF LoadOptedOut, NoStateOfDeleted, TypeOK
<1>5. ASSUME NEW w \in Workers, Save(w) PROVE NoStateOfDeleted'
  <2>1. UNCHANGED member
    BY <1>5 DEF Save
  <2>2. CASE UNCHANGED disk
    BY <2>1, <2>2 DEF NoStateOfDeleted
  <2>3. CASE disk' # disk
    <3>1. /\ member[worker[w].id] = "on"
          /\ disk' = [disk EXCEPT ![worker[w].id] =
                         [epoch |-> worker[w].epoch, state |-> worker[w].state]]
      BY <1>5, <2>3 DEF Save, Savable, Alerted
    <3> QED
      BY <2>1, <3>1 DEF NoStateOfDeleted, TypeOK
  <2> QED
    BY <2>2, <2>3
<1>6. ASSUME NEW w \in Workers, Check(w), ~LoadOptedOut(w), ~Save(w)
      PROVE  UNCHANGED <<member, disk>>
  BY <1>6 DEF Check, Take, Load, LoadFails, DecideHealth, DecideTraffic, Skip,
              PostHealth, PostTraffic, PostFails, AnswerLost, Finish
<1>7. ASSUME \/ \E e \in BOOLEAN : ChangeSettings(e)
             \/ \E n \in Nodes : Admit(n) \/ ReadDone(n) \/ Report(n) \/ Silence(n)
             \/ NewCycle \/ Crash
             \/ UNCHANGED vars
      PROVE  UNCHANGED <<member, disk>>
  BY <1>7 DEF ChangeSettings, Admit, ReadDone, Report, Silence, NewCycle, Crash
<1> QED
  BY <1>1, <1>2, <1>3, <1>4, <1>5, <1>6, <1>7 DEF Next
-----------------------------------------------------------------------------
LEMMA BusyFacts ==
    ASSUME TypeOK, OneCheck, AgeInv, NEW w \in Workers, worker[w].step # "idle"
    PROVE  /\ worker[w].id \in Nodes /\ worker[w].id \in pending
           /\ worker[w].epoch \in Numbers /\ worker[w].epoch <= epoch
           /\ worker[w].state \in State
           /\ engines[worker[w].id] \in Engine
           /\ engines[worker[w].id].epoch <= worker[w].epoch
           /\ Loaded(w) \in Engine /\ Loaded(w).epoch = worker[w].epoch
           /\ \A v \in Workers \ {w} : worker[v].step # "idle" => worker[v].id # worker[w].id
<1>1. /\ worker[w].id \in Nodes
      /\ worker[w].epoch \in Numbers /\ worker[w].epoch <= epoch
      /\ engines[worker[w].id].epoch <= worker[w].epoch
  BY DEF AgeInv, At
<1>2. worker[w].id \in pending
  BY <1>1 DEF OneCheck, Busy
<1>3. worker[w].state \in State
  BY DEF TypeOK, WorkerState
<1>4. \A v \in Workers \ {w} : worker[v].step # "idle" => worker[v].id # worker[w].id
  BY DEF OneCheck
<1> QED
  BY <1>1, <1>2, <1>3, <1>4, LoadedEngine

LEMMA EpochsAreNumbers ==
    /\ \A e \in Engine : e.epoch \in Nat
    /\ \A r \in Row : r.epoch \in Nat
<1>1. \A k \in Numbers \cup {0} : k \in Nat
  BY Constants
<1>2. ASSUME NEW e \in Engine PROVE e.epoch \in Numbers \cup {0}
  BY DEF Engine
<1>3. ASSUME NEW r \in Row PROVE r.epoch \in Numbers \cup {0}
  BY DEF Row
<1> QED
  BY <1>1, <1>2, <1>3

LEMMA AgeStep ==
    ASSUME TypeOK, RoundInv, OneCheck, AgeInv, [Next]_vars
    PROVE  AgeInv'
<1> USE Constants
<1>0. /\ epoch \in Nat /\ worker \in [Workers -> WorkerState]
      /\ engines \in [Nodes -> Engine \cup {NoState}] /\ disk \in [Nodes -> Row \cup {NoState}]
      /\ pending \subseteq Nodes
  BY DEF TypeOK
<1>1. CASE Tick
  <2>1. UNCHANGED <<worker, epoch>>
    BY <1>1 DEF Tick
  <2>2. \A n \in Nodes : /\ disk'[n] = NoState \/ disk'[n] = disk[n]
                         /\ engines'[n] = NoState \/ engines'[n] = engines[n]
                         /\ n \in pending => engines'[n] = engines[n]
    BY <1>0, <1>1, TickDisk DEF Tick, Forgotten
  <2>3. \A w \in Workers : worker[w].step # "idle" =>
                              worker[w].id \in Nodes /\ worker[w].id \in pending
    BY BusyFacts
  <2> QED
    BY <2>1, <2>2, <2>3 DEF AgeInv, At, Judging
<1>2. ASSUME NEW n \in Nodes, Admit(n) PROVE AgeInv'
  <2>1. UNCHANGED <<worker, epoch, disk>>
    BY <1>2 DEF Admit
  <2>2. /\ \A m \in Nodes : engines[m] # NoState => engines'[m] = engines[m]
        /\ \A m \in Nodes : engines[m] = NoState => engines'[m] = NoState \/ engines'[m] = NewEngine
    BY <1>0, <1>2 DEF Admit
  <2>3. \A w \in Workers : worker[w].step # "idle" =>
                              worker[w].id \in Nodes /\ engines[worker[w].id] # NoState
    BY BusyFacts, NoStateAssumption
  <2>4. NewEngine.epoch <= epoch
    BY <1>0 DEF NewEngine
  <2> QED
    BY <2>1, <2>2, <2>3, <2>4 DEF AgeInv, At, Judging
<1>3. ASSUME NEW w \in Workers, Take(w) PROVE AgeInv'
  <2>1. UNCHANGED <<epoch, disk, engines>>
    BY <1>3 DEF Take
  <2>2. /\ jobs # <<>> /\ Head(jobs).id \in Nodes /\ Queued(Head(jobs).id)
        /\ worker'[w].id = Head(jobs).id /\ worker'[w].epoch = epoch
        /\ worker'[w].step \in {"loading", "finished"}
        /\ \A v \in Workers \ {w} : worker'[v] = worker[v]
    <3>1. jobs \in Seq(Job) /\ jobs # <<>>
      BY <1>3 DEF Take, TypeOK
    <3>2. Len(jobs) > 0 /\ Head(jobs) = jobs[1] /\ Head(jobs) \in Job
      BY <3>1
    <3>3. Head(jobs).id \in Nodes /\ Queued(Head(jobs).id)
      BY <3>1, <3>2 DEF Job, Queued
    <3> DEFINE n == Head(jobs).id
               p == [step |-> IF epoch = Head(jobs).epoch /\ member[n] # "gone"
                              THEN "loading" ELSE "finished",
                     id |-> n, epoch |-> epoch, on |-> member[n] = "on", health |-> health[n],
                     due |-> usage[n], cycle |-> cycle, state |-> Fresh]
    <3>4. worker' = [worker EXCEPT ![w] = p]
      BY <1>3, Zenon DEF Take
    <3>5. p.id = n /\ p.epoch = epoch /\ p.step \in {"loading", "finished"}
      OBVIOUS
    <3> HIDE DEF p
    <3>6. worker'[w] = p /\ \A v \in Workers \ {w} : worker'[v] = worker[v]
      BY <1>0, <3>4
    <3> QED
      BY <3>1, <3>3, <3>5, <3>6
  <2>3. engines[Head(jobs).id] # NoState
    BY <2>2 DEF OneCheck
  <2>4. engines[Head(jobs).id].epoch <= epoch
    BY <2>2, <2>3 DEF AgeInv
  <2>5. epoch \in Numbers
    BY DEF TypeOK
  <2>6. \A v \in Workers : Judging(v)' => v # w
    BY <2>2 DEF Judging
  <2> QED
    BY <1>0, <2>1, <2>2, <2>4, <2>5, <2>6 DEF AgeInv, At, Judging
<1>4. ASSUME NEW w \in Workers, Finish(w) PROVE AgeInv'
  <2>1. /\ UNCHANGED <<epoch, disk, engines>>
        /\ worker'[w].step = "idle"
        /\ \A v \in Workers \ {w} : worker'[v] = worker[v]
    BY <1>0, <1>4 DEF Finish, Resting
  <2> QED
    BY <2>1 DEF AgeInv, At, Judging
<1>5. ASSUME NEW w \in Workers, Check(w), ~Take(w), ~Finish(w) PROVE AgeInv'
  <2> DEFINE n == worker[w].id
  <2>1. worker[w].step # "idle"
    BY <1>5 DEF Check, Load, LoadFails, LoadOptedOut, DecideHealth, DecideTraffic, Skip,
                PostHealth, PostTraffic, PostFails, AnswerLost, Save, At
  <2>2. /\ worker'[w].id = n /\ worker'[w].epoch = worker[w].epoch /\ worker'[w].on = worker[w].on
        /\ UNCHANGED epoch
        /\ \A v \in Workers \ {w} : worker'[v] = worker[v]
        /\ \A m \in Nodes \ {n} : engines'[m] = engines[m]
    <3>1. worker'[w].id = n /\ worker'[w].epoch = worker[w].epoch /\ worker'[w].on = worker[w].on
      BY <1>0, <1>5 DEF Check, Load, LoadFails, LoadOptedOut, DecideHealth, DecideTraffic, Skip,
                PostHealth, PostTraffic, PostFails, AnswerLost, Save, Goto, WorkerState
    <3>2. UNCHANGED epoch
      BY <1>5 DEF Check, Load, LoadFails, LoadOptedOut, DecideHealth, DecideTraffic, Skip,
                PostHealth, PostTraffic, PostFails, AnswerLost, Save
    <3> QED
      BY <1>5, <3>1, <3>2, WorkerKeepsCheck
  <2>0. n \in Nodes /\ worker[w].epoch \in Nat /\ engines[n].epoch \in Nat
    <3>1. n \in Nodes /\ worker[w].epoch \in Numbers /\ engines[n] \in Engine
      BY <2>1, BusyFacts
    <3>2. Numbers \subseteq Nat
      BY Constants
    <3> QED
      BY <3>1, <3>2, EpochsAreNumbers
  <2>3. /\ engines'[n].epoch \in Nat /\ engines'[n].epoch <= worker[w].epoch
        /\ Judging(w)' => engines'[n].epoch = worker[w].epoch /\ worker[w].on
    <3>1. CASE Load(w)
      <4>1. engines'[n] = Loaded(w) /\ worker[w].on
        BY <1>0, <2>1, <3>1, BusyFacts DEF Load
      <4> QED
        BY <2>0, <2>1, <4>1, BusyFacts
    <3>2. CASE LoadOptedOut(w)
      <4>1. /\ engines'[n] = Loaded(w) \/ engines'[n] = [Loaded(w) EXCEPT !.state = NoState, !.saved = NoState]
            /\ worker'[w].step = "finished"
        BY <1>0, <2>1, <3>2, BusyFacts DEF LoadOptedOut, Goto, WorkerState
      <4>2. engines'[n].epoch = worker[w].epoch
        BY <2>1, <4>1, BusyFacts DEF Engine
      <4> QED
        BY <2>0, <2>1, <4>1, <4>2, BusyFacts DEF Judging
    <3>3. CASE Save(w)
      <4>1. /\ \/ engines'[n] = [engines[n] EXCEPT !.state = worker[w].state]
               \/ engines'[n] = [[engines[n] EXCEPT !.state = worker[w].state]
                                    EXCEPT !.saved = worker[w].state]
            /\ worker'[w].step = "finished"
        BY <1>0, <2>1, <3>3, BusyFacts DEF Save, Goto, WorkerState
      <4>2. engines'[n].epoch = engines[n].epoch
        BY <2>1, <4>1, BusyFacts DEF Engine
      <4> QED
        <5>1. Judging(w) /\ worker[w].on /\ engines[n].epoch = worker[w].epoch
          BY <3>3 DEF Save, At, Judging, AgeInv
        <5> QED
          BY <2>0, <4>2, <5>1
    <3>4. CASE ~Load(w) /\ ~LoadOptedOut(w) /\ ~Save(w)
      <4>1. UNCHANGED engines
        BY <1>5, <3>4 DEF Check, LoadFails, DecideHealth, DecideTraffic, Skip,
                          PostHealth, PostTraffic, PostFails, AnswerLost
      <4>2. Judging(w)' => Judging(w)
        BY <1>0, <1>5, <3>4 DEF Check, LoadFails, DecideHealth, DecideTraffic, Skip,
               PostHealth, PostTraffic, PostFails, AnswerLost, Judging, At, Goto, WorkerState
      <4> QED
        BY <2>0, <2>1, <4>1, <4>2, BusyFacts DEF AgeInv
    <3> QED
      BY <3>1, <3>2, <3>3, <3>4
  <2>4. \A m \in Nodes : disk'[m] # NoState => disk'[m].epoch <= epoch
    <3>1. CASE Save(w)
      <4>1. \/ UNCHANGED disk
            \/ disk' = [disk EXCEPT ![n] = [epoch |-> worker[w].epoch, state |-> worker[w].state]]
        BY <3>1 DEF Save
      <4> QED
        BY <1>0, <2>1, <4>1, BusyFacts DEF AgeInv
    <3>2. CASE LoadOptedOut(w)
      BY <1>0, <3>2 DEF LoadOptedOut, AgeInv
    <3>3. CASE ~LoadOptedOut(w) /\ ~Save(w)
      BY <1>5, <3>3 DEF AgeInv, Check, Load, LoadFails, DecideHealth, DecideTraffic, Skip,
                        PostHealth, PostTraffic, PostFails, AnswerLost
    <3> QED
      BY <3>1, <3>2, <3>3
  <2>5. \A v \in Workers \ {w} : worker[v].step # "idle" => worker[v].id \in Nodes \ {n}
    BY <2>1, BusyFacts
  <2>6. n \in Nodes /\ worker[w].epoch \in Numbers /\ worker[w].epoch <= epoch /\ worker[w].epoch \in Nat
    BY <2>1, BusyFacts
  <2>7. \A m \in Nodes : engines'[m] # NoState => engines'[m].epoch <= epoch'
    <3>1. engines'[n].epoch <= epoch'
      BY <1>0, <2>2, <2>3, <2>6
    <3> QED
      BY <2>2, <3>1 DEF AgeInv
  <2>8. \A v \in Workers :
           \/ At(v, "idle")'
           \/ /\ worker'[v].id \in Nodes
              /\ worker'[v].epoch \in Numbers /\ worker'[v].epoch <= epoch'
              /\ engines'[worker'[v].id].epoch <= worker'[v].epoch
    <3>1. ASSUME NEW v \in Workers \ {w}, worker[v].step # "idle"
          PROVE  /\ worker'[v].id \in Nodes
                 /\ worker'[v].epoch \in Numbers /\ worker'[v].epoch <= epoch'
                 /\ engines'[worker'[v].id].epoch <= worker'[v].epoch
      BY <2>2, <2>5, <3>1, BusyFacts
    <3>2. /\ worker'[w].id \in Nodes
          /\ worker'[w].epoch \in Numbers /\ worker'[w].epoch <= epoch'
          /\ engines'[worker'[w].id].epoch <= worker'[w].epoch
      BY <2>2, <2>3, <2>6
    <3>3. ASSUME NEW v \in Workers, worker'[v].step # "idle"
          PROVE  /\ worker'[v].id \in Nodes
                 /\ worker'[v].epoch \in Numbers /\ worker'[v].epoch <= epoch'
                 /\ engines'[worker'[v].id].epoch <= worker'[v].epoch
      <4>1. CASE v = w
        BY <3>2, <4>1
      <4>2. CASE v # w
        <5>1. worker[v].step # "idle"
          BY <2>2, <3>3, <4>2
        <5> QED
          BY <3>1, <4>2, <5>1
      <4> QED
        BY <4>1, <4>2
    <3> QED
      BY <3>3 DEF At
  <2>9. \A v \in Workers : Judging(v)' => /\ engines'[worker'[v].id].epoch = worker'[v].epoch
                                          /\ worker'[v].on
    BY <2>2, <2>3, <2>5 DEF AgeInv, At, Judging
  <2> HIDE DEF n
  <2> QED
    BY <2>2, <2>4, <2>7, <2>8, <2>9 DEF AgeInv
<1>6. CASE Crash
  BY <1>6 DEF Crash, NoMemory, Resting, AgeInv, At, Judging
<1>7. ASSUME NEW e \in BOOLEAN, ChangeSettings(e) PROVE AgeInv'
  <2>1. UNCHANGED <<disk, engines, worker>> /\ epoch' = epoch + 1
    BY <1>7 DEF ChangeSettings
  <2>2. /\ \A n \in Nodes : disk[n] # NoState => disk[n].epoch \in Nat
        /\ \A n \in Nodes : engines[n] # NoState => engines[n].epoch \in Nat
    BY <1>0, EpochsAreNumbers
  <2>3. \A w \in Workers : At(w, "idle") \/ worker[w].epoch \in Nat
    BY DEF AgeInv
  <2> QED
    BY <1>0, <2>1, <2>2, <2>3 DEF AgeInv, At, Judging
<1>8. ASSUME NEW n \in Nodes, DeleteNode(n) PROVE AgeInv'
  <2>1. UNCHANGED <<engines, worker, epoch>> /\ disk' = [disk EXCEPT ![n] = NoState]
    BY <1>8 DEF DeleteNode
  <2> QED
    BY <1>0, <2>1 DEF AgeInv, At, Judging
<1>9. ASSUME \/ \E n \in Nodes : ReadDone(n) \/ OptOut(n) \/ OptIn(n) \/ Report(n) \/ Silence(n)
             \/ NewCycle
             \/ UNCHANGED vars
      PROVE  AgeInv'
  <2>1. UNCHANGED <<disk, engines, worker, epoch>>
    BY <1>9 DEF ReadDone, OptOut, OptIn, Report, Silence, NewCycle
  <2> QED
    BY <2>1 DEF AgeInv, At, Judging
<1> QED
  BY <1>1, <1>2, <1>3, <1>4, <1>5, <1>6, <1>7, <1>8, <1>9 DEF Next, Check
-----------------------------------------------------------------------------
(* A node whose judges and whose remembered state stay as they are, and of  *)
(* which the chat learns nothing.                                           *)
LEMMA AgreesFrame ==
    ASSUME NEW n \in Nodes, Agrees(n),
           told'[n] = told[n] \/ told'[n] = "unsure",
           member'[n] # "gone" => member[n] # "gone",
           \A w \in Workers : /\ Judges(w, n)' <=> Judges(w, n)
                              /\ Judges(w, n) => worker'[w].state.off = worker[w].state.off,
           (\A w \in Workers : ~Judges(w, n)) => Remembered(n)' = Remembered(n)
    PROVE  Agrees(n)'
<1> SUFFICES ASSUME member'[n] # "gone", told'[n] # "unsure"
             PROVE  /\ \A w \in Workers : Judges(w, n)' => (worker'[w].state.off <=> told'[n] = "down")
                    /\ (\A w \in Workers : ~Judges(w, n)') => (Remembered(n)'.off <=> told'[n] = "down")
  BY DEF Agrees
<1>1. member[n] # "gone" /\ told[n] # "unsure" /\ told'[n] = told[n]
  OBVIOUS
<1>2. /\ \A w \in Workers : Judges(w, n) => (worker[w].state.off <=> told[n] = "down")
      /\ (\A w \in Workers : ~Judges(w, n)) => (Remembered(n).off <=> told[n] = "down")
  BY <1>1 DEF Agrees
<1> QED
  BY <1>1, <1>2

LEMMA RememberedFrame ==
    ASSUME NEW n \in Nodes, epoch' = epoch, disk'[n] = disk[n],
           \/ engines'[n] = engines[n]
           \/ /\ engines[n] = NoState \/ engines[n].epoch # epoch
              /\ engines'[n] = NoState \/ engines'[n].epoch # epoch
    PROVE  Remembered(n)' = Remembered(n)
BY DEF Remembered, OnDisk, Saved

LEMMA OnlyJudge ==
    ASSUME TypeOK, OneCheck, AgeInv, NEW w \in Workers, worker[w].step # "idle",
           NEW v \in Workers, v # w
    PROVE  ~Judges(v, worker[w].id)
BY BusyFacts DEF Judges, Judging

(* Worker steps after which nothing was said and nothing is remembered.     *)
LEMMA AgreementIdleSteps ==
    ASSUME TypeOK, OneCheck, AgeInv, Agreement, NEW w \in Workers,
           \/ Take(w) \/ Finish(w) \/ LoadFails(w) \/ DecideHealth(w) \/ DecideTraffic(w)
           \/ Skip(w) \/ PostTraffic(w) \/ PostFails(w) \/ AnswerLost(w)
    PROVE  Agreement'
<1>0. worker \in [Workers -> WorkerState] /\ told \in [Nodes -> {"unsure", "up", "down"}]
  BY DEF TypeOK
<1>1. UNCHANGED <<epoch, member, disk, engines>>
  BY DEF Take, Finish, LoadFails, DecideHealth, DecideTraffic, Skip, PostTraffic, PostFails,
         AnswerLost
<1>2. \A v \in Workers \ {w} : worker'[v] = worker[v]
  BY <1>0 DEF Take, Finish, LoadFails, DecideHealth, DecideTraffic, Skip, PostTraffic, PostFails,
         AnswerLost, Goto
<1>3. \A n \in Nodes : told'[n] = told[n] \/ told'[n] = "unsure"
  BY <1>0 DEF Take, Finish, LoadFails, DecideHealth, DecideTraffic, Skip, PostTraffic, PostFails,
         AnswerLost
<1>4. \/ ~Judging(w) /\ ~Judging(w)'
      \/ /\ Judging(w) /\ Judging(w)'
         /\ worker'[w].id = worker[w].id /\ worker'[w].epoch = worker[w].epoch
         /\ worker'[w].state.off = worker[w].state.off
  <2>1. CASE Take(w) \/ Finish(w) \/ LoadFails(w)
    BY <1>0, <2>1 DEF Take, Finish, LoadFails, Goto, At, Judging, Resting, WorkerState
  <2>2. CASE DecideHealth(w) \/ DecideTraffic(w) \/ Skip(w) \/ PostFails(w) \/ AnswerLost(w)
    BY <1>0, <2>2 DEF DecideHealth, DecideTraffic, Skip, PostFails, AnswerLost, Goto, At, Judging,
                      WorkerState
  <2>3. CASE PostTraffic(w)
    BY <1>0, <2>3 DEF PostTraffic, At, Judging, WorkerState, State
  <2> QED
    BY <2>1, <2>2, <2>3
<1>5. SUFFICES ASSUME NEW n \in Nodes PROVE Agrees(n)'
  BY DEF Agreement
<1>6. Agrees(n)
  BY DEF Agreement
<1>7. \A v \in Workers : /\ Judges(v, n)' <=> Judges(v, n)
                         /\ Judges(v, n) => worker'[v].state.off = worker[v].state.off
  BY <1>1, <1>2, <1>4 DEF Judges, Judging
<1>8. Remembered(n)' = Remembered(n)
  BY <1>1, RememberedFrame
<1> QED
  BY <1>1, <1>3, <1>6, <1>7, <1>8, AgreesFrame

(* Worker steps that load, post or save: the other nodes.                   *)
LEMMA AgreementOthers ==
    ASSUME TypeOK, OneCheck, AgeInv, Agreement, NEW w \in Workers,
           Load(w) \/ LoadOptedOut(w) \/ PostHealth(w) \/ Save(w),
           NEW n \in Nodes, n # worker[w].id
    PROVE  Agrees(n)'
<1>0. /\ worker \in [Workers -> WorkerState] /\ told \in [Nodes -> {"unsure", "up", "down"}]
      /\ disk \in [Nodes -> Row \cup {NoState}] /\ engines \in [Nodes -> Engine \cup {NoState}]
  BY DEF TypeOK
<1>1. UNCHANGED <<epoch, member>>
  BY DEF Load, LoadOptedOut, PostHealth, Save
<1>2. \A v \in Workers \ {w} : worker'[v] = worker[v]
  BY <1>0 DEF Load, LoadOptedOut, PostHealth, Save, Goto
<1>3. worker'[w].id = worker[w].id
  BY <1>0 DEF Load, LoadOptedOut, PostHealth, Save, Goto, WorkerState
<1>4. disk'[n] = disk[n] /\ engines'[n] = engines[n] /\ told'[n] = told[n]
  BY <1>0 DEF Load, LoadOptedOut, PostHealth, Save, Relearn
<1>5. Agrees(n)
  BY DEF Agreement
<1>6. \A v \in Workers : /\ Judges(v, n)' <=> Judges(v, n)
                         /\ Judges(v, n) => worker'[v].state.off = worker[v].state.off
  BY <1>1, <1>2, <1>3 DEF Judges, Judging
<1>7. Remembered(n)' = Remembered(n)
  BY <1>1, <1>4, RememberedFrame
<1> QED
  BY <1>1, <1>4, <1>5, <1>6, <1>7, AgreesFrame

(* What a load takes over is what was remembered of the node.               *)
LEMMA LoadRemembers ==
    ASSUME TypeOK, OneCheck, AgeInv, NEW w \in Workers, Load(w),
           NEW n \in Nodes, n = worker[w].id
    PROVE  /\ UNCHANGED <<epoch, member, disk, history>>
           /\ \A v \in Workers : ~Judges(v, n)
           /\ \A v \in Workers \ {w} : ~Judges(v, n)'
           /\ worker[w].epoch = epoch =>
                Judges(w, n)' /\ worker'[w].state = Remembered(n)
           /\ worker[w].epoch # epoch =>
                ~Judges(w, n)' /\ Remembered(n)' = Remembered(n)
<1>0. /\ worker \in [Workers -> WorkerState]
      /\ disk \in [Nodes -> Row \cup {NoState}] /\ engines \in [Nodes -> Engine \cup {NoState}]
      /\ worker[w].step # "idle" /\ epoch \in Nat
  BY Constants DEF TypeOK, Load, At
<1>1. /\ engines[n] \in Engine /\ engines[n].epoch \in Nat
      /\ worker[w].epoch \in Nat /\ worker[w].epoch <= epoch /\ engines[n].epoch <= worker[w].epoch
      /\ Loaded(w) \in Engine /\ Loaded(w).epoch = worker[w].epoch
  BY <1>0, BusyFacts, Constants, EpochsAreNumbers
<1>2. /\ UNCHANGED <<epoch, member, disk, history>>
      /\ worker'[w].id = n /\ worker'[w].epoch = worker[w].epoch
      /\ worker'[w].state = IF Loaded(w).state = NoState THEN Fresh ELSE Loaded(w).state
      /\ ~Judging(w) /\ Judging(w)'
      /\ engines'[n] = Loaded(w)
      /\ \A v \in Workers \ {w} : worker'[v] = worker[v]
  BY <1>0, <1>1 DEF Load, At, Judging, WorkerState
<1>3. \A v \in Workers : ~Judges(v, n)
  BY <1>0, <1>2, OnlyJudge DEF Judges
<1>4. \A v \in Workers \ {w} : ~Judges(v, n)'
  BY <1>2, <1>3 DEF Judges, Judging
<1>5. ASSUME worker[w].epoch = epoch PROVE Judges(w, n)' /\ worker'[w].state = Remembered(n)
  <2>1. CASE engines[n].epoch = epoch
    BY <1>1, <1>2, <1>5, <2>1, NoStateAssumption DEF Remembered, Loaded, Judges
  <2>2. CASE engines[n].epoch # epoch
    <3>1. disk[n] = NoState \/ disk[n].state # NoState
      BY <1>0, <1>1, NoStateAssumption DEF Row
    <3> QED
      BY <1>1, <1>2, <1>5, <2>2, <3>1 DEF Remembered, Loaded, OnDisk, Saved, Judges
  <2> QED
    BY <2>1, <2>2
<1>6. ASSUME worker[w].epoch # epoch PROVE ~Judges(w, n)' /\ Remembered(n)' = Remembered(n)
  <2>1. engines[n].epoch # epoch /\ engines'[n].epoch # epoch
    BY <1>0, <1>1, <1>2, <1>6
  <2> QED
    BY <1>1, <1>2, <1>6, <2>1, RememberedFrame DEF Judges
<1> QED
  BY <1>2, <1>3, <1>4, <1>5, <1>6

(* What a save leaves behind is what its check decided.                     *)
LEMMA SaveRemembers ==
    ASSUME TypeOK, OneCheck, AgeInv, NEW w \in Workers, Save(w),
           NEW n \in Nodes, n = worker[w].id
    PROVE  /\ UNCHANGED <<epoch, member, heard, crashes>>
           /\ \A v \in Workers \ {w} : ~Judges(v, n)
           /\ \A v \in Workers : ~Judges(v, n)'
           /\ worker[w].epoch = epoch =>
                Judges(w, n) /\ Remembered(n)' = worker[w].state
           /\ worker[w].epoch # epoch =>
                ~Judges(w, n) /\ Remembered(n)' = Remembered(n)
<1> DEFINE st == worker[w].state
<1>0. /\ worker \in [Workers -> WorkerState]
      /\ disk \in [Nodes -> Row \cup {NoState}] /\ engines \in [Nodes -> Engine \cup {NoState}]
      /\ worker[w].step # "idle"
  BY DEF TypeOK, Save, At
<1>1. st \in State /\ engines[n] \in Engine
  BY <1>0, BusyFacts
<1>2. Judging(w) /\ engines[n].epoch = worker[w].epoch
  BY DEF Save, At, Judging, AgeInv
<1>3. /\ UNCHANGED <<epoch, member, heard, crashes>>
      /\ ~Judging(w)'
      /\ \A v \in Workers \ {w} : worker'[v] = worker[v]
  BY <1>0 DEF Save, Goto, Judging
<1>4. engines'[n].epoch = engines[n].epoch /\ engines'[n].state = st /\ engines'[n] # NoState
  <2>1. /\ [engines[n] EXCEPT !.state = st] \in Engine
        /\ [[engines[n] EXCEPT !.state = st] EXCEPT !.saved = st] \in Engine
    BY <1>1 DEF Engine
  <2>2. \/ engines'[n] = [engines[n] EXCEPT !.state = st]
        \/ engines'[n] = [[engines[n] EXCEPT !.state = st] EXCEPT !.saved = st]
    BY <1>0, <1>1 DEF Save
  <2> HIDE DEF st
  <2> QED
    BY <1>1, <2>1, <2>2, NoStateAssumption DEF Engine
<1>5. \A v \in Workers \ {w} : ~Judges(v, n)
  BY <1>0, OnlyJudge
<1>6. \A v \in Workers : ~Judges(v, n)'
  BY <1>3, <1>5 DEF Judges, Judging
<1>7. ASSUME worker[w].epoch = epoch PROVE Judges(w, n) /\ Remembered(n)' = st
  BY <1>1, <1>2, <1>3, <1>4, <1>7, NoStateAssumption DEF Remembered, Judges
<1>8. ASSUME worker[w].epoch # epoch PROVE ~Judges(w, n) /\ Remembered(n)' = Remembered(n)
  <2>1. disk'[n] = disk[n]
    BY <1>8 DEF Save, Savable
  <2> QED
    BY <1>1, <1>2, <1>3, <1>4, <1>8, <2>1, RememberedFrame DEF Judges
<1> QED
  BY <1>3, <1>5, <1>6, <1>7, <1>8

(* The node whose check loads, posts or saves.                              *)
LEMMA AgreementLoad ==
    ASSUME TypeOK, OneCheck, AgeInv, Agreement, NEW w \in Workers, Load(w),
           NEW n \in Nodes, n = worker[w].id
    PROVE  Agrees(n)'
<1>1. Agrees(n)
  BY DEF Agreement
<1>2. CASE worker[w].epoch = epoch
  BY <1>1, <1>2, LoadRemembers DEF Agrees
<1>3. CASE worker[w].epoch # epoch
  BY <1>1, <1>3, LoadRemembers, AgreesFrame
<1> QED
  BY <1>2, <1>3

LEMMA AgreementPost ==
    ASSUME TypeOK, OneCheck, AgeInv, Agreement, NEW w \in Workers, PostHealth(w),
           NEW n \in Nodes, n = worker[w].id
    PROVE  Agrees(n)'
<1>0. /\ worker \in [Workers -> WorkerState] /\ told \in [Nodes -> {"unsure", "up", "down"}]
      /\ worker[w].step # "idle"
  BY DEF TypeOK, PostHealth, At
<1>1. n \in Nodes /\ worker[w].state \in State
  BY <1>0, BusyFacts
<1>2. /\ UNCHANGED <<epoch, member, disk, engines>>
      /\ worker'[w].id = n /\ worker'[w].epoch = worker[w].epoch
      /\ worker'[w].state.off = ~worker[w].state.off
      /\ Judging(w) /\ Judging(w)'
      /\ \A v \in Workers \ {w} : worker'[v] = worker[v]
  BY <1>0, <1>1 DEF PostHealth, At, Judging, WorkerState, State
<1>3. Agrees(n)
  BY <1>1 DEF Agreement
<1>4. \A v \in Workers \ {w} : ~Judges(v, n) /\ ~Judges(v, n)'
  <2>1. \A v \in Workers \ {w} : ~Judges(v, n)
    BY <1>0, OnlyJudge
  <2> QED
    BY <1>2, <2>1 DEF Judges, Judging
<1>5. CASE Heard(w)
  <2>1. Judges(w, n) /\ Judges(w, n)'
    BY <1>2, <1>5 DEF Judges, Heard
  <2>2. told'[n] = News(w)
    BY <1>0, <1>1, <1>5 DEF PostHealth
  <2>3. worker'[w].state.off <=> told'[n] = "down"
    BY <1>2, <2>2 DEF News
  <2> QED
    BY <1>4, <2>1, <2>3 DEF Agrees
<1>6. CASE ~Heard(w)
  <2>1. ~Judges(w, n) /\ ~Judges(w, n)'
    BY <1>2, <1>6 DEF Judges, Heard
  <2>2. told'[n] = told[n]
    BY <1>6 DEF PostHealth
  <2>3. Remembered(n)' = Remembered(n)
    BY <1>1, <1>2, RememberedFrame
  <2>4. \A v \in Workers : ~Judges(v, n) /\ ~Judges(v, n)'
    BY <1>4, <2>1
  <2> QED
    BY <1>1, <1>2, <1>3, <2>2, <2>3, <2>4, AgreesFrame
<1> QED
  BY <1>5, <1>6

LEMMA AgreementSave ==
    ASSUME TypeOK, OneCheck, AgeInv, Agreement, NEW w \in Workers, Save(w),
           NEW n \in Nodes, n = worker[w].id
    PROVE  Agrees(n)'
<1>1. Agrees(n)
  BY DEF Agreement
<1>2. CASE worker[w].epoch = epoch
  BY <1>1, <1>2, SaveRemembers DEF Agrees
<1>3. CASE worker[w].epoch # epoch
  BY <1>1, <1>3, SaveRemembers, AgreesFrame
<1> QED
  BY <1>2, <1>3

(* A check that finds its node opted out: the engine knows what it knew, or *)
(* the state is gone.                                                       *)
LEMMA OptedOutRemembers ==
    ASSUME TypeOK, OneCheck, AgeInv, NEW w \in Workers, LoadOptedOut(w),
           NEW n \in Nodes, n = worker[w].id
    PROVE  /\ UNCHANGED <<epoch, member, lost, crashes>>
           /\ \A v \in Workers : ~Judges(v, n) /\ ~Judges(v, n)'
           /\ \/ UNCHANGED <<told, warned>> /\ Remembered(n)' = Remembered(n)
              \/ /\ disk' \in [Nodes -> Row \cup {NoState}] /\ Relearn({n})
                 /\ Remembered(n)' = Saved(disk'[n])
<1>0. /\ worker \in [Workers -> WorkerState]
      /\ disk \in [Nodes -> Row \cup {NoState}] /\ engines \in [Nodes -> Engine \cup {NoState}]
      /\ worker[w].step # "idle" /\ epoch \in Nat
  BY Constants DEF TypeOK, LoadOptedOut, At
<1>1. /\ engines[n] \in Engine /\ engines[n].epoch \in Nat
      /\ worker[w].epoch \in Nat /\ worker[w].epoch <= epoch /\ engines[n].epoch <= worker[w].epoch
      /\ Loaded(w) \in Engine /\ Loaded(w).epoch = worker[w].epoch
  BY <1>0, BusyFacts, Constants, EpochsAreNumbers
<1>2. /\ UNCHANGED <<epoch, member, lost, crashes>>
      /\ worker'[w].step = "finished" /\ worker[w].step = "loading"
      /\ \A v \in Workers \ {w} : worker'[v] = worker[v]
  BY <1>0 DEF LoadOptedOut, At, Goto, WorkerState
<1>3. \A v \in Workers : ~Judges(v, n)
  BY <1>0, <1>2, OnlyJudge DEF Judges, Judging
<1>4. \A v \in Workers : ~Judges(v, n)'
  BY <1>2, <1>3 DEF Judges, Judging
<1>5. CASE engines' = [engines EXCEPT ![n] = Loaded(w)] /\ UNCHANGED <<disk, told, warned>>
  <2>1. engines'[n] = Loaded(w) /\ disk'[n] = disk[n]
    BY <1>0, <1>5
  <2>2. CASE engines[n].epoch = worker[w].epoch
    <3>1. engines'[n] = engines[n]
      BY <2>1, <2>2 DEF Loaded
    <3> QED
      BY <1>2, <1>3, <1>4, <1>5, <2>1, <3>1, RememberedFrame
  <2>3. CASE engines[n].epoch # worker[w].epoch /\ worker[w].epoch = epoch
    <3>1. disk[n] = NoState \/ disk[n].state # NoState
      BY <1>0, <1>1, NoStateAssumption DEF Row
    <3>2. Remembered(n)' = Remembered(n)
      BY <1>1, <1>2, <2>1, <2>3, <3>1, NoStateAssumption DEF Remembered, Loaded, OnDisk, Saved
    <3> QED
      BY <1>2, <1>3, <1>4, <1>5, <3>2
  <2>4. CASE worker[w].epoch # epoch
    <3>1. engines[n].epoch # epoch /\ engines'[n].epoch # epoch
      BY <1>0, <1>1, <2>1, <2>4
    <3> QED
      BY <1>2, <1>3, <1>4, <1>5, <2>1, <3>1, RememberedFrame
  <2> QED
    BY <2>2, <2>3, <2>4
<1>6. CASE /\ disk' = [disk EXCEPT ![n] = NoState] /\ Relearn({n})
           /\ engines' = [engines EXCEPT ![n] = [Loaded(w) EXCEPT !.state = NoState,
                                                                  !.saved = NoState]]
  <2>1. disk' \in [Nodes -> Row \cup {NoState}] /\ disk'[n] = NoState
    BY <1>0, <1>6
  <2>2. engines'[n].state = NoState
    BY <1>0, <1>1, <1>6 DEF Engine
  <2>3. Remembered(n)' = Fresh
    BY <1>2, <2>1, <2>2 DEF Remembered, OnDisk, Saved
  <2>4. Saved(disk'[n]) = Fresh
    BY <2>1 DEF Saved
  <2> QED
    BY <1>2, <1>3, <1>4, <1>6, <2>1, <2>3, <2>4
<1> QED
  BY <1>5, <1>6 DEF LoadOptedOut

LEMMA AgreementOptedOut ==
    ASSUME TypeOK, OneCheck, AgeInv, Agreement, NEW w \in Workers, LoadOptedOut(w),
           NEW n \in Nodes, n = worker[w].id
    PROVE  Agrees(n)'
<1>0. Agrees(n)
  BY DEF Agreement
<1>1. /\ UNCHANGED <<epoch, member, lost, crashes>>
      /\ \A v \in Workers : ~Judges(v, n) /\ ~Judges(v, n)'
  BY OptedOutRemembers
<1>2. CASE UNCHANGED told /\ Remembered(n)' = Remembered(n)
  BY <1>0, <1>1, <1>2, AgreesFrame
<1>3. CASE /\ disk' \in [Nodes -> Row \cup {NoState}] /\ Relearn({n})
           /\ Remembered(n)' = Saved(disk'[n])
  <2>1. told'[n] # "unsure" => (Saved(disk'[n]).off <=> told'[n] = "down")
    BY <1>3, RelearnFacts
  <2> QED
    BY <1>1, <1>3, <2>1 DEF Agrees
<1> QED
  BY <1>2, <1>3, OptedOutRemembers

LEMMA AgreementWorker ==
    ASSUME TypeOK, OneCheck, AgeInv, Agreement, NEW w \in Workers, Check(w)
    PROVE  Agreement'
<1>1. CASE \/ Take(w) \/ Finish(w) \/ LoadFails(w) \/ DecideHealth(w) \/ DecideTraffic(w)
           \/ Skip(w) \/ PostTraffic(w) \/ PostFails(w) \/ AnswerLost(w)
  BY <1>1, AgreementIdleSteps
<1>2. CASE Load(w) \/ LoadOptedOut(w) \/ PostHealth(w) \/ Save(w)
  <2>1. SUFFICES ASSUME NEW n \in Nodes, n = worker[w].id PROVE Agrees(n)'
    BY <1>2, AgreementOthers DEF Agreement
  <2> QED
    BY <1>2, <2>1, AgreementLoad, AgreementOptedOut, AgreementPost, AgreementSave
<1> QED
  BY <1>1, <1>2 DEF Check

(* A forgotten node has no check, and its next engine has the disk.         *)
LEMMA ForgottenRests ==
    ASSUME TypeOK, OneCheck, AgeInv, Tick, NEW n \in Forgotten
    PROVE  /\ \A w \in Workers : ~Judges(w, n)'
           /\ Remembered(n)' = Saved(disk'[n])
<1>1. UNCHANGED <<worker, epoch>> /\ engines'[n] = NoState /\ n \notin pending
  BY DEF Tick, Forgotten
<1>2. \A w \in Workers : worker[w].step # "idle" => worker[w].id \in pending
  BY BusyFacts
<1>3. \A w \in Workers : ~Judges(w, n)'
  BY <1>1, <1>2 DEF Judges, Judging
<1>4. Remembered(n)' = Saved(disk'[n])
  BY <1>1 DEF Remembered, OnDisk, Saved
<1> QED
  BY <1>3, <1>4

(* The steps of the dispatcher, of nodes, settings and the server.          *)
LEMMA AgreementStep ==
    ASSUME TypeOK, OneCheck, AgeInv, Agreement, [Next]_vars
    PROVE  Agreement'
<1>0. /\ told \in [Nodes -> {"unsure", "up", "down"}] /\ member \in [Nodes -> {"on", "out", "gone"}]
      /\ disk \in [Nodes -> Row \cup {NoState}] /\ engines \in [Nodes -> Engine \cup {NoState}]
      /\ worker \in [Workers -> WorkerState] /\ epoch \in Nat /\ epoch # 0
  BY Constants DEF TypeOK, Numbers
<1>1. ASSUME UNCHANGED <<epoch, worker>>, NEW n \in Nodes, disk'[n] = disk[n],
             engines'[n] = engines[n] \/ (engines[n] = NoState /\ engines'[n] = NewEngine),
             told'[n] = told[n], member'[n] # "gone" => member[n] # "gone"
      PROVE  Agrees(n)'
  <2>1. Agrees(n)
    BY DEF Agreement
  <2>2. \A w \in Workers : /\ Judges(w, n)' <=> Judges(w, n)
                           /\ Judges(w, n) => worker'[w].state.off = worker[w].state.off
    BY <1>1 DEF Judges, Judging
  <2>3. Remembered(n)' = Remembered(n)
    <3>1. NewEngine.epoch # epoch
      BY <1>0 DEF NewEngine
    <3> QED
      BY <1>1, <3>1, RememberedFrame
  <2> QED
    BY <1>1, <2>1, <2>2, <2>3, AgreesFrame
<1>2. CASE Tick
  <2>1. UNCHANGED <<epoch, worker, member>>
    BY <1>2 DEF Tick
  <2>2. ASSUME NEW n \in Nodes PROVE Agrees(n)'
    <3>1. CASE n \in Forgotten
      <4>1. told'[n] # "unsure" => (Saved(disk'[n]).off <=> told'[n] = "down")
        BY <1>2, <3>1, TickDisk, RelearnFacts DEF Tick
      <4> QED
        BY <1>2, <3>1, <4>1, ForgottenRests DEF Agrees
    <3>2. CASE n \notin Forgotten
      <4>1. told'[n] = told[n]
        BY <1>2, <3>2, TickDisk, RelearnFacts DEF Tick
      <4>2. disk'[n] = disk[n] /\ engines'[n] = engines[n]
        BY <1>0, <1>2, <3>2, TickDisk DEF Tick
      <4> QED
        BY <1>1, <2>1, <4>1, <4>2
    <3> QED
      BY <3>1, <3>2
  <2> QED
    BY <2>2 DEF Agreement
<1>3. ASSUME NEW m \in Nodes, Admit(m) PROVE Agreement'
  <2>1. UNCHANGED <<epoch, worker, member, told, disk>>
    BY <1>3 DEF Admit
  <2>2. \A n \in Nodes : \/ engines'[n] = engines[n]
                         \/ engines[n] = NoState /\ engines'[n] = NewEngine
    BY <1>0, <1>3 DEF Admit
  <2>3. ASSUME NEW n \in Nodes PROVE Agrees(n)'
    BY <1>1, <2>1, <2>2
  <2> QED
    BY <2>3 DEF Agreement
<1>4. ASSUME NEW w \in Workers, Check(w) PROVE Agreement'
  BY <1>4, AgreementWorker
<1>5. ASSUME NEW e \in BOOLEAN, ChangeSettings(e) PROVE Agreement'
  <2>1. /\ UNCHANGED <<worker, engines, disk>> /\ epoch' = epoch + 1
        /\ told' = [n \in Nodes |-> "up"]
    BY <1>5 DEF ChangeSettings
  <2>2. ASSUME NEW n \in Nodes PROVE Agrees(n)'
    <3>1. \A w \in Workers : ~Judges(w, n)'
      <4>1. \A w \in Workers : Judging(w) => worker[w].epoch \in Nat /\ worker[w].epoch <= epoch
        BY Constants DEF AgeInv, At, Judging
      <4>2. \A w \in Workers : Judging(w) => worker[w].epoch # epoch + 1
        BY <1>0, <4>1
      <4> QED
        BY <2>1, <4>2 DEF Judges, Judging
    <3>2. Remembered(n)' = Fresh
      <4>1. /\ engines[n] # NoState => engines[n].epoch # epoch + 1
            /\ disk[n] # NoState => disk[n].epoch # epoch + 1
        <5>1. /\ engines[n] # NoState => engines[n].epoch \in Nat /\ engines[n].epoch <= epoch
              /\ disk[n] # NoState => disk[n].epoch \in Nat /\ disk[n].epoch <= epoch
          BY <1>0, EpochsAreNumbers DEF AgeInv
        <5> QED
          BY <1>0, <5>1
      <4> QED
        BY <2>1, <4>1 DEF Remembered, OnDisk, Saved
    <3>3. told'[n] = "up" /\ ~Fresh.off
      BY <2>1 DEF Fresh
    <3> QED
      BY <3>1, <3>2, <3>3 DEF Agrees
  <2> QED
    BY <2>2 DEF Agreement
<1>6. ASSUME NEW m \in Nodes, DeleteNode(m) PROVE Agreement'
  <2>1. UNCHANGED <<epoch, worker, engines, told>> /\ member'[m] = "gone"
    BY <1>0, <1>6 DEF DeleteNode
  <2>2. \A n \in Nodes \ {m} : disk'[n] = disk[n] /\ member'[n] = member[n]
    BY <1>0, <1>6 DEF DeleteNode
  <2>3. Agrees(m)'
    BY <2>1 DEF Agrees
  <2>4. ASSUME NEW n \in Nodes, n # m PROVE Agrees(n)'
    <3>1. disk'[n] = disk[n] /\ engines'[n] = engines[n] /\ told'[n] = told[n] /\ member'[n] = member[n]
      BY <2>1, <2>2, <2>4
    <3> QED
      BY <1>1, <2>1, <3>1
  <2> QED
    BY <2>3, <2>4 DEF Agreement
<1>7. CASE Crash
  <2>1. /\ UNCHANGED <<epoch, disk, member>>
        /\ \A n \in Nodes : engines'[n] = NoState
        /\ \A w \in Workers : worker'[w].step = "idle"
    BY <1>7 DEF Crash, NoMemory, Resting
  <2>2. ASSUME NEW n \in Nodes PROVE Agrees(n)'
    <3>1. \A w \in Workers : ~Judges(w, n)'
      BY <2>1 DEF Judges, Judging
    <3>2. Remembered(n)' = OnDisk(n)
      BY <2>1 DEF Remembered, OnDisk, Saved
    <3>3. told'[n] # "unsure" => told'[n] = told[n] /\ (OnDisk(n).off = (told[n] = "down"))
      BY <1>7 DEF Crash
    <3> QED
      BY <3>1, <3>2, <3>3 DEF Agrees
  <2> QED
    BY <2>2 DEF Agreement
<1>8. ASSUME \/ \E n \in Nodes : ReadDone(n) \/ OptOut(n) \/ OptIn(n) \/ Report(n) \/ Silence(n)
             \/ NewCycle
             \/ UNCHANGED vars
      PROVE  Agreement'
  <2>1. UNCHANGED <<disk, engines, worker, epoch, told>>
    BY <1>8 DEF ReadDone, OptOut, OptIn, Report, Silence, NewCycle
  <2>2. \A n \in Nodes : member'[n] # "gone" => member[n] # "gone"
    BY <1>0, <1>8 DEF ReadDone, OptOut, OptIn, Report, Silence, NewCycle
  <2>3. ASSUME NEW n \in Nodes PROVE Agrees(n)'
    BY <1>1, <2>1, <2>2
  <2> QED
    BY <2>3 DEF Agreement
<1> QED
  BY <1>2, <1>3, <1>4, <1>5, <1>6, <1>7, <1>8 DEF Next
-----------------------------------------------------------------------------
(* A message is decided on when chat and server agree, and nothing the chat *)
(* hears between decision and delivery is about the same node.              *)
LEMMA NoRepeatStep ==
    ASSUME TypeOK, OneCheck, AgeInv, Agreement, NoRepeat, [Next]_vars
    PROVE  NoRepeat'
<1>0. /\ told \in [Nodes -> {"unsure", "up", "down"}]
      /\ worker \in [Workers -> WorkerState] /\ epoch \in Nat
  BY Constants DEF TypeOK
<1>1. ASSUME NEW w \in Workers, worker'[w] = worker[w], epoch' = epoch,
             worker[w].step # "idle" => told'[worker[w].id] = told[worker[w].id],
             At(w, "postHealth")', Heard(w)'
      PROVE  told'[worker'[w].id] # News(w)'
  <2>1. At(w, "postHealth") /\ Heard(w) /\ News(w)' = News(w)
    BY <1>1 DEF At, Heard, News
  <2> QED
    BY <1>1, <2>1 DEF NoRepeat, At
<1>2. ASSUME NEW w \in Workers, Check(w) PROVE NoRepeat'
  <2>1. epoch' = epoch /\ \A v \in Workers \ {w} : worker'[v] = worker[v]
    BY <1>0, <1>2 DEF Check, Take, Load, LoadFails, LoadOptedOut, DecideHealth, DecideTraffic,
        Skip, PostHealth, PostTraffic, PostFails, AnswerLost, Save, Finish, Goto
  <2>2. ASSUME NEW v \in Workers \ {w}, worker[v].step # "idle"
        PROVE  told'[worker[v].id] = told[worker[v].id]
    <3>1. CASE UNCHANGED told
      BY <3>1
    <3>2. CASE LoadOptedOut(w) \/ PostHealth(w) \/ AnswerLost(w)
      <4>1. worker[w].step # "idle"
        BY <3>2 DEF LoadOptedOut, PostHealth, AnswerLost, At
      <4>2. worker[v].id \in Nodes /\ worker[v].id # worker[w].id
        BY <2>2, <4>1, BusyFacts
      <4> QED
        BY <1>0, <3>2, <4>2 DEF LoadOptedOut, PostHealth, AnswerLost, Relearn
    <3>3. CASE ~(LoadOptedOut(w) \/ PostHealth(w) \/ AnswerLost(w))
      BY <1>2, <3>3 DEF Check, Take, Load, LoadFails, DecideHealth, DecideTraffic,
        Skip, PostTraffic, PostFails, Save, Finish
    <3> QED
      BY <3>2, <3>3
  <2>3. At(w, "postHealth")' /\ Heard(w)' => told'[worker'[w].id] # News(w)'
    <3>1. CASE DecideHealth(w)
      <4>1. /\ worker[w].step = "health" /\ member[worker[w].id] = "on" /\ epoch = worker[w].epoch
            /\ UNCHANGED told /\ worker'[w].id = worker[w].id /\ worker'[w].state = worker[w].state
        BY <1>0, <3>1 DEF DecideHealth, At, MayPost, Alerted, Goto, WorkerState
      <4>2. worker[w].id \in Nodes /\ worker[w].state \in State
        BY <4>1, BusyFacts
      <4>3. Agrees(worker[w].id) /\ Judges(w, worker[w].id)
        BY <4>1, <4>2 DEF Agreement, Judges, Judging
      <4>4. told[worker[w].id] # "unsure" => (worker[w].state.off <=> told[worker[w].id] = "down")
        BY <4>1, <4>3 DEF Agrees
      <4> QED
        BY <4>1, <4>4 DEF News
    <3>2. CASE ~DecideHealth(w)
      <4>1. worker'[w].step # "postHealth"
        BY <1>0, <1>2, <3>2 DEF Check, Take, Load, LoadFails, LoadOptedOut, DecideTraffic, Skip,
            PostHealth, PostTraffic, PostFails, AnswerLost, Save, Finish, Goto, At, Resting, WorkerState
      <4> QED
        BY <4>1 DEF At
    <3> QED
      BY <3>1, <3>2
  <2> QED
    BY <1>1, <2>1, <2>2, <2>3 DEF NoRepeat
<1>3. CASE Tick
  <2>1. UNCHANGED <<worker, epoch>>
    BY <1>3 DEF Tick
  <2>2. \A w \in Workers : worker[w].step # "idle" => told'[worker[w].id] = told[worker[w].id]
    <3>1. \A w \in Workers : worker[w].step # "idle" =>
                                worker[w].id \in Nodes /\ worker[w].id \in pending
      BY BusyFacts
    <3> QED
      BY <1>0, <1>3, <3>1 DEF Tick, Relearn, Forgotten
  <2> QED
    BY <1>1, <2>1, <2>2 DEF NoRepeat
<1>4. ASSUME NEW e \in BOOLEAN, ChangeSettings(e) PROVE NoRepeat'
  <2>1. UNCHANGED worker /\ epoch' = epoch + 1
    BY <1>4 DEF ChangeSettings
  <2>2. ASSUME NEW w \in Workers, worker[w].step = "postHealth" PROVE worker[w].epoch # epoch + 1
    <3>1. worker[w].epoch \in Nat /\ worker[w].epoch <= epoch
      BY <2>2, Constants DEF AgeInv, At
    <3> QED
      BY <1>0, <3>1
  <2> QED
    BY <2>1, <2>2 DEF NoRepeat, At, Heard
<1>5. CASE Crash
  BY <1>5 DEF Crash, NoMemory, Resting, NoRepeat, At
<1>6. ASSUME \/ \E n \in Nodes : \/ Admit(n) \/ ReadDone(n) \/ OptOut(n) \/ OptIn(n)
                                 \/ DeleteNode(n) \/ Report(n) \/ Silence(n)
             \/ NewCycle
             \/ UNCHANGED vars
      PROVE  NoRepeat'
  <2>1. UNCHANGED <<worker, epoch, told>>
    BY <1>6 DEF Admit, ReadDone, OptOut, OptIn, DeleteNode, Report, Silence, NewCycle
  <2> QED
    BY <1>1, <2>1 DEF NoRepeat
<1> QED
  BY <1>2, <1>3, <1>4, <1>5, <1>6 DEF Next
-----------------------------------------------------------------------------
(* Cycles, warnings and what the bound counts are numbers.                  *)
LEMMA Amounts ==
    ASSUME TypeOK
    PROVE  /\ crashes \in Nat /\ lost \in Nat /\ cycle \in Nat
           /\ \A n \in Nodes, k \in Numbers : warned[n][k] \in Nat
           /\ \A st \in State : st.cycle \in Nat
           /\ \A w \in Workers : worker[w].cycle \in Nat /\ worker[w].state.cycle \in Nat
           /\ \A k \in Numbers : k \in Nat
<1>1. \A k \in Numbers \cup {0} : k \in Nat
  BY Constants
<1>2. crashes \in Nat /\ lost \in Nat /\ cycle \in Nat
  BY <1>1, Constants DEF TypeOK
<1>3. \A n \in Nodes, k \in Numbers : warned[n][k] \in Nat
  BY DEF TypeOK
<1>4. \A st \in State : st.cycle \in Numbers \cup {0}
  BY DEF State
<1>5. \A w \in Workers : worker[w].cycle \in Numbers \cup {0} /\ worker[w].state \in State
  BY DEF TypeOK, WorkerState
<1> QED
  BY <1>1, <1>2, <1>3, <1>4, <1>5

LEMMA NotedLater ==
    ASSUME TypeOK, NEW n \in Nodes, NEW j \in Nat, NEW k \in Nat, j <= k, NotedBy(n, j)
    PROVE  NotedBy(n, k)
<1>1. /\ engines[n] # NoState /\ engines[n].state # NoState => engines[n].state \in State
      /\ disk[n] # NoState => disk[n].state \in State
  BY DEF TypeOK, Engine, Row
<1> QED
  BY <1>1, Amounts DEF NotedBy

LEMMA CycleStep ==
    ASSUME TypeOK, TypeOK', OneCheck, AgeInv, CycleInv, [Next]_vars
    PROVE  CycleInv'
<1>0. /\ worker \in [Workers -> WorkerState]
      /\ disk \in [Nodes -> Row \cup {NoState}] /\ engines \in [Nodes -> Engine \cup {NoState}]
      /\ cycle \in Nat /\ cycle' \in Nat
  BY Amounts, Constants DEF TypeOK
<1>1. ASSUME cycle' = cycle \/ cycle' = cycle + 1,
             \A w \in Workers : worker'[w] = worker[w] \/ worker'[w].step = "idle",
             \A n \in Nodes : /\ engines'[n] = engines[n] \/ engines'[n] \in {NoState, NewEngine}
                              /\ disk'[n] = disk[n] \/ disk'[n] = NoState
      PROVE  CycleInv'
  <2>1. ASSUME NEW n \in Nodes PROVE NotedBy(n, cycle)'
    <3>1. NotedBy(n, cycle')
      BY <1>0, <1>1, NotedLater DEF CycleInv
    <3> QED
      BY <1>1, <3>1 DEF NotedBy, NewEngine
  <2>2. ASSUME NEW w \in Workers, worker'[w].step # "idle"
        PROVE  /\ worker'[w].cycle <= cycle' /\ worker'[w].state.cycle <= worker'[w].cycle
               /\ NotedBy(worker[w].id, worker[w].cycle)'
    <3>1. worker'[w] = worker[w] /\ worker[w].step # "idle"
      BY <1>1, <2>2
    <3>2. /\ worker[w].id \in Nodes /\ worker[w].cycle <= cycle
          /\ worker[w].state.cycle <= worker[w].cycle
          /\ NotedBy(worker[w].id, worker[w].cycle)
      BY <3>1 DEF CycleInv, AgeInv, At
    <3>3. worker'[w].cycle <= cycle'
      BY <1>0, <1>1, <3>1, <3>2, Amounts
    <3> QED
      BY <1>1, <3>1, <3>2, <3>3 DEF NotedBy, NewEngine
  <2> QED
    BY <2>1, <2>2 DEF CycleInv, At
<1>2. ASSUME NEW w \in Workers, ~At(w, "idle"), cycle' = cycle,
             NotedBy(worker[w].id, worker[w].cycle)',
             worker'[w].id = worker[w].id, worker'[w].cycle = worker[w].cycle,
             worker'[w].state.cycle <= worker'[w].cycle,
             \A v \in Workers \ {w} : worker'[v] = worker[v],
             \A n \in Nodes \ {worker[w].id} : engines'[n] = engines[n] /\ disk'[n] = disk[n]
      PROVE  CycleInv'
  <2> DEFINE n == worker[w].id
             c == worker[w].cycle
  <2>1. n \in Nodes /\ c \in Nat /\ c <= cycle
    BY <1>2, Amounts DEF CycleInv, AgeInv, At
  <2>2. NotedBy(n, c)'
    BY <1>2
  <2>3. NotedBy(n, cycle)'
    <3>1. /\ engines'[n] # NoState /\ engines'[n].state # NoState => engines'[n].state \in State
          /\ disk'[n] # NoState => disk'[n].state \in State
      <4>1. engines'[n] \in Engine \cup {NoState} /\ disk'[n] \in Row \cup {NoState}
        BY <2>1 DEF TypeOK
      <4> HIDE DEF n
      <4> QED
        BY <4>1 DEF Engine, Row
    <3>2. \A st \in State : st.cycle \in Nat /\ (st.cycle <= c => st.cycle <= cycle)
      BY <1>0, <2>1, Amounts
    <3> QED
      BY <1>2, <2>2, <3>1, <3>2 DEF NotedBy
  <2>4. \A m \in Nodes \ {n} : NotedBy(m, cycle)'
    BY <1>2 DEF CycleInv, NotedBy
  <2>5. ASSUME NEW v \in Workers \ {w}, worker[v].step # "idle"
        PROVE  NotedBy(worker[v].id, worker[v].cycle)'
    <3>1. worker[v].id \in Nodes \ {n}
      BY <1>2, <2>5, BusyFacts DEF At
    <3> QED
      BY <1>2, <2>5, <3>1 DEF CycleInv, NotedBy, At
  <2> QED
    BY <1>2, <2>1, <2>2, <2>3, <2>4, <2>5 DEF CycleInv, At
<1>3. ASSUME NEW w \in Workers, Take(w) PROVE CycleInv'
  <2>1. Head(jobs).id \in Nodes
    <3>1. jobs \in Seq(Job) /\ jobs # <<>>
      BY <1>3 DEF Take, TypeOK
    <3>2. Head(jobs) \in Job
      BY <3>1
    <3> QED
      BY <3>2 DEF Job
  <2>2. /\ worker'[w].id = Head(jobs).id /\ worker'[w].cycle = cycle
        /\ worker'[w].state.cycle = 0
        /\ \A v \in Workers \ {w} : worker'[v] = worker[v]
        /\ UNCHANGED <<cycle, engines, disk>>
    BY <1>0, <1>3 DEF Take, Fresh
  <2>3. \A n \in Nodes : NotedBy(n, cycle)'
    BY <2>2 DEF CycleInv, NotedBy
  <2>4. ASSUME NEW v \in Workers \ {w}, ~At(v, "idle")
        PROVE  NotedBy(worker[v].id, worker[v].cycle)'
    BY <2>2, <2>4 DEF CycleInv, NotedBy
  <2> QED
    BY <1>0, <2>1, <2>2, <2>3, <2>4 DEF CycleInv, At, NotedBy
<1>4. ASSUME NEW w \in Workers, ~At(w, "idle")
      PROVE  /\ worker[w].id \in Nodes /\ engines[worker[w].id] \in Engine
             /\ worker[w].state \in State /\ worker[w].state.cycle <= worker[w].cycle
             /\ NotedBy(worker[w].id, worker[w].cycle)
             /\ worker[w].cycle \in Nat
             /\ Loaded(w) \in Engine
             /\ Loaded(w).state # NoState => Loaded(w).state.cycle <= worker[w].cycle
  <2>1. /\ worker[w].id \in Nodes /\ engines[worker[w].id] \in Engine
        /\ worker[w].state \in State /\ worker[w].state.cycle <= worker[w].cycle
        /\ NotedBy(worker[w].id, worker[w].cycle)
        /\ worker[w].cycle \in Nat
        /\ Loaded(w) \in Engine
    BY <1>4, BusyFacts, Amounts DEF CycleInv, At
  <2>2. engines[worker[w].id] # NoState
    BY <2>1, NoStateAssumption
  <2>3. Loaded(w).state # NoState => Loaded(w).state.cycle <= worker[w].cycle
    <3>1. CASE engines[worker[w].id].epoch = worker[w].epoch
      BY <2>1, <2>2, <3>1 DEF NotedBy, Loaded
    <3>2. CASE engines[worker[w].id].epoch # worker[w].epoch
      BY <2>1, <3>2 DEF NotedBy, Loaded
    <3> QED
      BY <3>1, <3>2
  <2> QED
    BY <2>1, <2>3
<1>5. ASSUME NEW w \in Workers, Load(w) PROVE CycleInv'
  <2> DEFINE n == worker[w].id
             c == worker[w].cycle
  <2>0. ~At(w, "idle")
    BY <1>5 DEF Load, At
  <2>1. Loaded(w).state # NoState => Loaded(w).state.cycle <= c
    BY <1>4, <2>0
  <2>2. /\ engines'[n] = Loaded(w) /\ UNCHANGED <<cycle, disk>>
        /\ worker'[w].id = n /\ worker'[w].cycle = c
        /\ worker'[w].state = IF Loaded(w).state = NoState THEN Fresh ELSE Loaded(w).state
        /\ \A v \in Workers \ {w} : worker'[v] = worker[v]
        /\ \A m \in Nodes \ {n} : engines'[m] = engines[m]
    BY <1>0, <1>4, <1>5, <2>0 DEF Load, WorkerState
  <2>3. NotedBy(n, c)'
    BY <1>4, <2>0, <2>1, <2>2 DEF NotedBy
  <2>4. worker'[w].state.cycle <= c
    BY <1>4, <2>0, <2>1, <2>2 DEF Fresh
  <2> QED
    BY <1>2, <2>0, <2>2, <2>3, <2>4
<1>6. ASSUME NEW w \in Workers, LoadOptedOut(w) PROVE CycleInv'
  <2> DEFINE n == worker[w].id
             c == worker[w].cycle
  <2>0. ~At(w, "idle")
    BY <1>6 DEF LoadOptedOut, At
  <2>1. /\ Loaded(w) \in Engine
        /\ Loaded(w).state # NoState => Loaded(w).state.cycle <= c
    BY <1>4, <2>0
  <2>2. /\ UNCHANGED cycle
        /\ worker'[w].id = n /\ worker'[w].cycle = c /\ worker'[w].state = worker[w].state
        /\ \A v \in Workers \ {w} : worker'[v] = worker[v]
        /\ \A m \in Nodes \ {n} : engines'[m] = engines[m] /\ disk'[m] = disk[m]
        /\ disk'[n] = NoState \/ disk'[n] = disk[n]
    BY <1>0, <1>4, <1>6, <2>0 DEF LoadOptedOut, Goto, WorkerState
  <2>3. engines'[n].state = NoState \/ engines'[n] = Loaded(w)
    <3>1. \/ engines'[n] = [Loaded(w) EXCEPT !.state = NoState, !.saved = NoState]
          \/ engines'[n] = Loaded(w)
      BY <1>0, <1>4, <1>6, <2>0 DEF LoadOptedOut
    <3>2. [Loaded(w) EXCEPT !.state = NoState, !.saved = NoState].state = NoState
      BY <2>1 DEF Engine
    <3> QED
      BY <3>1, <3>2
  <2>4. NotedBy(n, c)'
    BY <1>4, <2>0, <2>1, <2>2, <2>3 DEF NotedBy
  <2> QED
    BY <1>2, <1>4, <2>0, <2>2, <2>4
<1>7. ASSUME NEW w \in Workers, Save(w) PROVE CycleInv'
  <2> DEFINE n == worker[w].id
             c == worker[w].cycle
             st == worker[w].state
  <2>0. ~At(w, "idle")
    BY <1>7 DEF Save, At
  <2>1. /\ UNCHANGED cycle
        /\ worker'[w].id = n /\ worker'[w].cycle = c /\ worker'[w].state = st
        /\ \A v \in Workers \ {w} : worker'[v] = worker[v]
        /\ \A m \in Nodes \ {n} : engines'[m] = engines[m] /\ disk'[m] = disk[m]
    BY <1>0, <1>4, <1>7, <2>0 DEF Save, Goto, WorkerState
  <2>2. engines'[n].state = st
    BY <1>0, <1>4, <1>7, <2>0 DEF Save, Engine
  <2>3. disk'[n] = disk[n] \/ disk'[n].state = st
    BY <1>0, <1>4, <1>7, <2>0 DEF Save
  <2>4. NotedBy(n, c)'
    BY <1>4, <2>0, <2>1, <2>2, <2>3 DEF NotedBy
  <2> QED
    BY <1>2, <1>4, <2>0, <2>1, <2>4
<1>8. ASSUME NEW w \in Workers,
             \/ LoadFails(w) \/ DecideHealth(w) \/ DecideTraffic(w) \/ Skip(w)
             \/ PostHealth(w) \/ PostTraffic(w) \/ PostFails(w) \/ AnswerLost(w)
      PROVE  CycleInv'
  <2> DEFINE n == worker[w].id
             c == worker[w].cycle
  <2>0. ~At(w, "idle")
    BY <1>8 DEF LoadFails, DecideHealth, DecideTraffic, Skip, PostHealth, PostTraffic, PostFails,
       AnswerLost, At
  <2>1. UNCHANGED <<cycle, engines, disk>> /\ \A v \in Workers \ {w} : worker'[v] = worker[v]
    BY <1>0, <1>8 DEF LoadFails, DecideHealth, DecideTraffic, Skip, PostHealth, PostTraffic,
       PostFails, AnswerLost, Goto
  <2>2. /\ worker'[w].id = n /\ worker'[w].cycle = c
        /\ worker'[w].state.cycle = worker[w].state.cycle \/ worker'[w].state.cycle = c
    <3>1. CASE PostHealth(w)
      BY <1>0, <1>4, <2>0, <3>1 DEF PostHealth, WorkerState, State
    <3>2. CASE PostTraffic(w)
      BY <1>0, <1>4, <2>0, <3>2 DEF PostTraffic, WorkerState, State
    <3>3. CASE LoadFails(w) \/ DecideHealth(w) \/ DecideTraffic(w) \/ Skip(w) \/ PostFails(w)
               \/ AnswerLost(w)
      BY <1>0, <3>3 DEF LoadFails, DecideHealth, DecideTraffic, Skip, PostFails, AnswerLost, Goto,
         WorkerState
    <3> QED
      BY <1>8, <3>1, <3>2, <3>3
  <2>3. NotedBy(n, c)' /\ worker'[w].state.cycle <= c
    BY <1>4, <2>0, <2>1, <2>2 DEF NotedBy
  <2> QED
    BY <1>2, <2>0, <2>1, <2>2, <2>3
<1>9. ASSUME NEW w \in Workers, Finish(w) PROVE CycleInv'
  <2>1. /\ \A v \in Workers : worker'[v] = worker[v] \/ worker'[v].step = "idle"
        /\ UNCHANGED <<cycle, engines, disk>>
    BY <1>0, <1>9 DEF Finish, Resting
  <2> QED
    BY <1>1, <2>1
<1>10. CASE Tick
  <2>1. UNCHANGED <<cycle, worker>>
    BY <1>10 DEF Tick
  <2>2. \A n \in Nodes : /\ engines'[n] = engines[n] \/ engines'[n] = NoState
                         /\ disk'[n] = disk[n] \/ disk'[n] = NoState
    BY <1>10, TickDisk DEF Tick
  <2> QED
    BY <1>1, <2>1, <2>2
<1>11. ASSUME NEW m \in Nodes, Admit(m) PROVE CycleInv'
  <2>1. /\ UNCHANGED <<cycle, worker, disk>>
        /\ \A n \in Nodes : engines'[n] = engines[n] \/ engines'[n] = NewEngine
    BY <1>0, <1>11 DEF Admit
  <2> QED
    BY <1>1, <2>1
<1>12. CASE Crash
  <2>1. /\ UNCHANGED <<cycle, disk>> /\ \A n \in Nodes : engines'[n] = NoState
        /\ \A w \in Workers : worker'[w].step = "idle"
    BY <1>12 DEF Crash, NoMemory, Resting
  <2> QED
    BY <1>1, <2>1
<1>13. ASSUME \/ \E e \in BOOLEAN : ChangeSettings(e)
              \/ \E n \in Nodes : \/ ReadDone(n) \/ OptOut(n) \/ OptIn(n)
                                  \/ Report(n) \/ Silence(n)
              \/ NewCycle \/ UNCHANGED vars
       PROVE  CycleInv'
  <2>1. UNCHANGED <<engines, worker, disk>> /\ (cycle' = cycle \/ cycle' = cycle + 1)
    BY <1>13 DEF ChangeSettings, ReadDone, OptOut, OptIn, Report, Silence, NewCycle
  <2> QED
    BY <1>1, <2>1
<1>14. ASSUME NEW m \in Nodes, DeleteNode(m) PROVE CycleInv'
  <2>1. /\ UNCHANGED <<engines, worker, cycle>>
        /\ \A n \in Nodes : disk'[n] = disk[n] \/ disk'[n] = NoState
    BY <1>0, <1>14 DEF DeleteNode
  <2> QED
    BY <1>1, <2>1
<1> QED
  BY <1>3, <1>5, <1>6, <1>7, <1>8, <1>9, <1>10, <1>11, <1>12, <1>13, <1>14 DEF Next, Check

(* A node whose judges and whose remembered state stay as they are, and     *)
(* which is told no more than is counted.                                   *)
LEMMA CountsFrame ==
    ASSUME NEW n \in Nodes, Counts(n),
           \A k \in Numbers :
               /\ warned[n][k] <= 1 + crashes + lost => warned'[n][k] <= 1 + crashes' + lost'
               /\ Spare(n, k) => Spare(n, k)',
           member'[n] # "gone" => member[n] # "gone",
           \A w \in Workers :
               /\ Judges(w, n)' <=> Judges(w, n)
               /\ Judges(w, n) => worker'[w].state.cycle = worker[w].state.cycle
               /\ Posting(w, n)' => /\ worker'[w].cycle = worker[w].cycle
                                    /\ Posting(w, n) \/ Spare(n, worker[w].cycle),
           (\A w \in Workers : ~Judges(w, n)) => Remembered(n)' = Remembered(n)
    PROVE  Counts(n)'
<1> SUFFICES ASSUME NEW k \in Numbers
             PROVE  /\ warned'[n][k] <= 1 + crashes' + lost'
                    /\ \A w \in Workers : Posting(w, n)' /\ worker'[w].cycle = k => Spare(n, k)'
                    /\ member'[n] # "gone" =>
                        /\ \A w \in Workers : Judges(w, n)' /\ worker'[w].state.cycle < k => Spare(n, k)'
                        /\ (\A w \in Workers : ~Judges(w, n)') /\ Remembered(n)'.cycle < k => Spare(n, k)'
  BY DEF Counts
<1>1. /\ warned[n][k] <= 1 + crashes + lost
      /\ \A w \in Workers : Posting(w, n) /\ worker[w].cycle = k => Spare(n, k)
      /\ member[n] # "gone" =>
          /\ \A w \in Workers : Judges(w, n) /\ worker[w].state.cycle < k => Spare(n, k)
          /\ (\A w \in Workers : ~Judges(w, n)) /\ Remembered(n).cycle < k => Spare(n, k)
  BY DEF Counts
<1>2. warned'[n][k] <= 1 + crashes' + lost' /\ (Spare(n, k) => Spare(n, k)')
  BY <1>1
<1>3. ASSUME NEW w \in Workers, Posting(w, n)', worker'[w].cycle = k PROVE Spare(n, k)'
  BY <1>1, <1>2, <1>3
<1>4. ASSUME NEW w \in Workers, member'[n] # "gone", Judges(w, n)', worker'[w].state.cycle < k
      PROVE  Spare(n, k)'
  BY <1>1, <1>2, <1>4
<1>5. ASSUME member'[n] # "gone", \A w \in Workers : ~Judges(w, n)', Remembered(n)'.cycle < k
      PROVE  Spare(n, k)'
  BY <1>1, <1>2, <1>5
<1> QED
  BY <1>2, <1>3, <1>4, <1>5

(* A node of which the chat's warnings no longer count.                     *)
LEMMA CountsAfresh ==
    ASSUME TypeOK', NEW n \in Nodes, warned'[n] = Unwarned
    PROVE  Counts(n)'
<1>1. crashes' \in Nat /\ lost' \in Nat
  BY Constants DEF TypeOK
<1>2. \A k \in Numbers : warned'[n][k] = 0
  BY DEF Unwarned
<1>3. \A k \in Numbers : Spare(n, k)' /\ warned'[n][k] <= 1 + crashes' + lost'
  BY <1>1, <1>2 DEF Spare
<1> QED
  BY <1>3 DEF Counts

(* A node whose state was forgotten: its warnings count up to the cycle     *)
(* that the disk still names.                                               *)
LEMMA CountsRelearnt ==
    ASSUME TypeOK, WarningInv, NEW n \in Nodes, NEW ns, n \in ns, Relearn(ns),
           disk' \in [Nodes -> Row \cup {NoState}], UNCHANGED <<crashes, lost>>,
           \A w \in Workers : ~Judges(w, n)', Remembered(n)' = Saved(disk'[n])
    PROVE  Counts(n)'
<1>1. \A k \in Numbers : /\ warned'[n][k] = warned[n][k] \/ warned'[n][k] = 0
                         /\ Saved(disk'[n]).cycle < k => warned'[n][k] = 0
  BY RelearnFacts
<1>2. crashes \in Nat /\ lost \in Nat
  BY Constants DEF TypeOK
<1>3. \A k \in Numbers : warned[n][k] <= 1 + crashes + lost
  BY DEF WarningInv, Counts
<1>4. \A k \in Numbers : warned'[n][k] <= 1 + crashes' + lost'
  BY <1>1, <1>2, <1>3
<1>5. \A k \in Numbers : Remembered(n)'.cycle < k => Spare(n, k)'
  BY <1>1, <1>2 DEF Spare
<1> QED
  BY <1>4, <1>5 DEF Counts, Posting

(* A lost answer is counted with the warning it may hide.                   *)
LEMMA LostIsCounted ==
    ASSUME TypeOK, NEW w \in Workers, AnswerLost(w), NEW n \in Nodes, NEW k \in Numbers
    PROVE  /\ warned[n][k] <= 1 + crashes + lost => warned'[n][k] <= 1 + crashes' + lost'
           /\ Spare(n, k) => Spare(n, k)'
<1>1. lost' = lost + 1 /\ crashes' = crashes
  BY DEF AnswerLost
<1>2. warned \in [Nodes -> [Numbers -> Nat]]
  BY DEF TypeOK
<1>3. warned[n] \in [Numbers -> Nat]
  BY <1>2
<1>4. warned'[n] = warned[n] \/ warned'[n] = [warned[n] EXCEPT ![worker[w].cycle] = @ + 1]
  BY <1>2 DEF AnswerLost, Warn
<1>5. warned'[n][k] = warned[n][k] \/ warned'[n][k] = warned[n][k] + 1
  BY <1>3, <1>4
<1> QED
  BY <1>1, <1>5, Amounts DEF Spare

(* Worker steps after which nothing new is remembered; a warning is decided *)
(* on when the cycle has none that the server knows of.                     *)
LEMMA CountsIdleSteps ==
    ASSUME TypeOK, OneCheck, AgeInv, WarningInv, NEW w \in Workers, NEW n \in Nodes,
           \/ Take(w) \/ Finish(w) \/ LoadFails(w) \/ DecideHealth(w) \/ DecideTraffic(w)
           \/ Skip(w) \/ PostHealth(w) \/ PostFails(w) \/ AnswerLost(w)
    PROVE  Counts(n)'
<1>0. worker \in [Workers -> WorkerState]
  BY DEF TypeOK
<1>1. UNCHANGED <<epoch, member, disk, engines>>
  BY DEF Take, Finish, LoadFails, DecideHealth, DecideTraffic, Skip, PostHealth, PostFails,
         AnswerLost
<1>2. \A v \in Workers \ {w} : worker'[v] = worker[v]
  BY <1>0 DEF Take, Finish, LoadFails, DecideHealth, DecideTraffic, Skip, PostHealth, PostFails,
         AnswerLost, Goto
<1>3. \A k \in Numbers :
         /\ warned[n][k] <= 1 + crashes + lost => warned'[n][k] <= 1 + crashes' + lost'
         /\ Spare(n, k) => Spare(n, k)'
  <2>1. CASE AnswerLost(w)
    BY <2>1, LostIsCounted
  <2>2. CASE ~AnswerLost(w)
    <3>1. UNCHANGED <<warned, crashes, lost>>
      BY <2>2 DEF Take, Finish, LoadFails, DecideHealth, DecideTraffic, Skip, PostHealth, PostFails
    <3> QED
      BY <3>1 DEF Spare
  <2> QED
    BY <2>1, <2>2
<1>4. Counts(n)
  BY DEF WarningInv
<1>5. \/ ~Judging(w) /\ ~Judging(w)'
      \/ /\ Judging(w) /\ Judging(w)'
         /\ worker'[w].id = worker[w].id /\ worker'[w].epoch = worker[w].epoch
         /\ worker'[w].state.cycle = worker[w].state.cycle
         /\ worker'[w].cycle = worker[w].cycle
         /\ At(w, "postTraffic")' => DecideTraffic(w)
  <2>1. CASE Take(w) \/ Finish(w) \/ LoadFails(w)
    BY <1>0, <2>1 DEF Take, Finish, LoadFails, Goto, At, Judging, Resting, WorkerState
  <2>2. CASE DecideHealth(w) \/ DecideTraffic(w) \/ Skip(w) \/ PostFails(w) \/ AnswerLost(w)
    BY <1>0, <2>2 DEF DecideHealth, DecideTraffic, Skip, PostFails, AnswerLost, Goto, At, Judging,
                      WorkerState
  <2>3. CASE PostHealth(w)
    BY <1>0, <2>3 DEF PostHealth, At, Judging, WorkerState, State
  <2> QED
    BY <2>1, <2>2, <2>3
<1>6. ASSUME DecideTraffic(w), n = worker[w].id PROVE Spare(n, worker[w].cycle)
  <2>1. /\ member[n] = "on" /\ Judges(w, n)
        /\ worker[w].state.cycle # worker[w].cycle /\ ~At(w, "idle")
    BY <1>6 DEF DecideTraffic, Due, MayPost, Alerted, Judges, Judging, At
  <2>2. worker[w].state.cycle < worker[w].cycle
    BY <2>1, Amounts DEF WarningInv, CycleInv
  <2>3. worker[w].cycle \in Numbers
    <3>1. worker[w].cycle \in Numbers \cup {0} /\ worker[w].cycle # 0
      BY <1>0, <2>2, Amounts DEF WorkerState
    <3> QED
      BY <3>1
  <2> QED
    BY <1>4, <2>1, <2>2, <2>3 DEF Counts
<1>7. \A v \in Workers :
         /\ Judges(v, n)' <=> Judges(v, n)
         /\ Judges(v, n) => worker'[v].state.cycle = worker[v].state.cycle
         /\ Posting(v, n)' => /\ worker'[v].cycle = worker[v].cycle
                              /\ Posting(v, n) \/ Spare(n, worker[v].cycle)
  <2>1. \A v \in Workers \ {w} : /\ Judges(v, n)' <=> Judges(v, n)
                                 /\ Posting(v, n)' <=> Posting(v, n)
    BY <1>1, <1>2 DEF Judges, Judging, Posting, At
  <2>2. Judges(w, n)' <=> Judges(w, n)
    BY <1>1, <1>5 DEF Judges, Judging
  <2>3. Judges(w, n) => worker'[w].state.cycle = worker[w].state.cycle
    BY <1>5 DEF Judges
  <2>4. Posting(w, n)' => worker'[w].cycle = worker[w].cycle /\ Spare(n, worker[w].cycle)
    BY <1>5, <1>6 DEF Posting, Judges
  <2> QED
    BY <1>2, <2>1, <2>2, <2>3, <2>4
<1>8. Remembered(n)' = Remembered(n)
  BY <1>1, RememberedFrame
<1> QED
  BY <1>1, <1>3, <1>4, <1>7, <1>8, CountsFrame

(* Worker steps that load, warn or save: the other nodes.                   *)
LEMMA CountsOthers ==
    ASSUME TypeOK, OneCheck, AgeInv, WarningInv, NEW w \in Workers,
           Load(w) \/ LoadOptedOut(w) \/ PostTraffic(w) \/ Save(w),
           NEW n \in Nodes, n # worker[w].id
    PROVE  Counts(n)'
<1>0. /\ worker \in [Workers -> WorkerState] /\ warned \in [Nodes -> [Numbers -> Nat]]
      /\ disk \in [Nodes -> Row \cup {NoState}] /\ engines \in [Nodes -> Engine \cup {NoState}]
  BY DEF TypeOK
<1>1. UNCHANGED <<epoch, member, crashes, lost>>
  BY DEF Load, LoadOptedOut, PostTraffic, Save
<1>2. \A v \in Workers \ {w} : worker'[v] = worker[v]
  BY <1>0 DEF Load, LoadOptedOut, PostTraffic, Save, Goto
<1>3. worker'[w].id = worker[w].id
  BY <1>0 DEF Load, LoadOptedOut, PostTraffic, Save, Goto, WorkerState
<1>4. disk'[n] = disk[n] /\ engines'[n] = engines[n] /\ warned'[n] = warned[n]
  <2>1. CASE LoadOptedOut(w)
    <3>1. UNCHANGED warned \/ Relearn({worker[w].id})
      BY <2>1 DEF LoadOptedOut
    <3>2. warned'[n] = warned[n]
      <4>1. CASE Relearn({worker[w].id})
        <5>1. warned'[n] = [k \in Numbers |-> warned[n][k]]
          BY <4>1 DEF Relearn
        <5>2. warned[n] \in [Numbers -> Nat]
          BY <1>0
        <5> QED
          BY <5>1, <5>2
      <4> QED
        BY <3>1, <4>1
    <3> QED
      BY <1>0, <2>1, <3>2 DEF LoadOptedOut
  <2>2. CASE Load(w) \/ PostTraffic(w) \/ Save(w)
    BY <1>0, <2>2 DEF Load, PostTraffic, Warn, Save
  <2> QED
    BY <2>1, <2>2
<1>5. Counts(n)
  BY DEF WarningInv
<1>6. \A v \in Workers :
         /\ Judges(v, n)' <=> Judges(v, n)
         /\ Judges(v, n) => worker'[v].state.cycle = worker[v].state.cycle
         /\ Posting(v, n)' => worker'[v].cycle = worker[v].cycle /\ Posting(v, n)
  BY <1>1, <1>2, <1>3 DEF Judges, Judging, Posting, At
<1>7. Remembered(n)' = Remembered(n)
  BY <1>1, <1>4, RememberedFrame
<1>8. \A k \in Numbers :
         /\ warned[n][k] <= 1 + crashes + lost => warned'[n][k] <= 1 + crashes' + lost'
         /\ Spare(n, k) => Spare(n, k)'
  BY <1>1, <1>4 DEF Spare
<1> QED
  BY <1>1, <1>5, <1>6, <1>7, <1>8, CountsFrame

(* The node whose check finds it opted out.                                 *)
LEMMA CountsOptedOut ==
    ASSUME TypeOK, OneCheck, AgeInv, WarningInv, NEW w \in Workers, LoadOptedOut(w),
           NEW n \in Nodes, n = worker[w].id
    PROVE  Counts(n)'
<1>1. /\ UNCHANGED <<epoch, member, lost, crashes>>
      /\ \A v \in Workers : ~Judges(v, n) /\ ~Judges(v, n)'
  BY OptedOutRemembers
<1>2. CASE UNCHANGED warned /\ Remembered(n)' = Remembered(n)
  <2>1. Counts(n)
    BY DEF WarningInv
  <2>2. \A k \in Numbers : Spare(n, k)' <=> Spare(n, k)
    BY <1>1, <1>2 DEF Spare
  <2> QED
    BY <1>1, <1>2, <2>1, <2>2 DEF Counts, Posting
<1>3. CASE /\ disk' \in [Nodes -> Row \cup {NoState}] /\ Relearn({n})
           /\ Remembered(n)' = Saved(disk'[n])
  BY <1>1, <1>3, CountsRelearnt
<1> QED
  BY <1>2, <1>3, OptedOutRemembers

(* The node whose check loads, warns or saves.                              *)
LEMMA CountsLoad ==
    ASSUME TypeOK, OneCheck, AgeInv, WarningInv, NEW w \in Workers, Load(w),
           NEW n \in Nodes, n = worker[w].id
    PROVE  Counts(n)'
<1>1. Counts(n)
  BY DEF WarningInv
<1>2. UNCHANGED <<member, warned, crashes, lost>>
  BY LoadRemembers
<1>3. \A v \in Workers : ~Posting(v, n)'
  <2>1. worker'[w].step = "health"
    BY DEF Load, TypeOK, WorkerState
  <2> QED
    BY <2>1, LoadRemembers DEF Posting, At
<1>4. CASE worker[w].epoch = epoch
  <2>1. /\ \A v \in Workers : ~Judges(v, n)
        /\ \A v \in Workers \ {w} : ~Judges(v, n)'
        /\ Judges(w, n)' /\ worker'[w].state = Remembered(n)
    BY <1>4, LoadRemembers
  <2> QED
    BY <1>1, <1>2, <1>3, <2>1 DEF Counts, Spare
<1>5. CASE worker[w].epoch # epoch
  <2>1. /\ \A v \in Workers : ~Judges(v, n) /\ ~Judges(v, n)'
        /\ Remembered(n)' = Remembered(n)
    BY <1>5, LoadRemembers
  <2> QED
    BY <1>1, <1>2, <1>3, <2>1 DEF Counts, Spare
<1> QED
  BY <1>4, <1>5

LEMMA CountsSave ==
    ASSUME TypeOK, OneCheck, AgeInv, WarningInv, NEW w \in Workers, Save(w),
           NEW n \in Nodes, n = worker[w].id
    PROVE  Counts(n)'
<1>1. Counts(n)
  BY DEF WarningInv
<1>2. UNCHANGED <<member, warned, crashes, lost>>
  BY SaveRemembers
<1>3. \A v \in Workers : ~Posting(v, n)' /\ ~Judges(v, n)'
  BY SaveRemembers DEF Posting
<1>4. CASE worker[w].epoch = epoch
  <2>1. Judges(w, n) /\ Remembered(n)' = worker[w].state
    BY <1>4, SaveRemembers
  <2> QED
    BY <1>1, <1>2, <1>3, <2>1 DEF Counts, Spare
<1>5. CASE worker[w].epoch # epoch
  <2>1. (\A v \in Workers : ~Judges(v, n)) /\ Remembered(n)' = Remembered(n)
    BY <1>5, SaveRemembers
  <2> QED
    BY <1>1, <1>2, <1>3, <2>1 DEF Counts, Spare
<1> QED
  BY <1>4, <1>5

LEMMA CountsPost ==
    ASSUME TypeOK, OneCheck, AgeInv, WarningInv, NEW w \in Workers, PostTraffic(w),
           NEW n \in Nodes, n = worker[w].id
    PROVE  Counts(n)'
<1> DEFINE c == worker[w].cycle
<1>0. /\ worker \in [Workers -> WorkerState] /\ warned \in [Nodes -> [Numbers -> Nat]]
      /\ worker[w].step = "postTraffic" /\ worker[w].step # "idle"
      /\ worker[w].state \in State
  BY DEF TypeOK, PostTraffic, At, WorkerState
<1>1. /\ UNCHANGED <<epoch, member, disk, engines, crashes, lost>>
      /\ worker'[w].id = n /\ worker'[w].epoch = worker[w].epoch
      /\ worker'[w].state.cycle = c
      /\ worker'[w].step = "saving" /\ Judging(w) /\ Judging(w)'
      /\ \A v \in Workers \ {w} : worker'[v] = worker[v]
  BY <1>0 DEF PostTraffic, Judging, WorkerState, State
<1>2. Counts(n)
  BY DEF WarningInv
<1>3. \A v \in Workers \ {w} : ~Judges(v, n) /\ ~Judges(v, n)'
  <2>1. \A v \in Workers \ {w} : ~Judges(v, n)
    BY <1>0, OnlyJudge
  <2> QED
    BY <1>1, <2>1 DEF Judges, Judging
<1>4. \A v \in Workers : ~Posting(v, n)'
  BY <1>1, <1>3 DEF Posting, At
<1>5. CASE Heard(w)
  <2>1. Judges(w, n) /\ Judges(w, n)' /\ Posting(w, n)
    BY <1>0, <1>1, <1>5 DEF Judges, Heard, Posting, At
  <2>2. \A k \in Numbers : warned'[n][k] = IF k = c THEN warned[n][k] + 1 ELSE warned[n][k]
    <3>1. warned[n] \in [Numbers -> Nat] /\ warned'[n] = [warned[n] EXCEPT ![c] = @ + 1]
      BY <1>0, <1>5 DEF PostTraffic, Warn
    <3> QED
      BY <3>1
  <2>3. ASSUME NEW k \in Numbers PROVE warned'[n][k] <= 1 + crashes' + lost'
    <3>1. CASE k = c
      <4>1. Spare(n, k)
        BY <1>2, <2>1, <3>1 DEF Counts
      <4> QED
        BY <1>1, <2>2, <3>1, <4>1, Amounts DEF Spare
    <3>2. CASE k # c
      BY <1>1, <1>2, <2>2, <3>2 DEF Counts
    <3> QED
      BY <3>1, <3>2
  <2>4. ASSUME NEW k \in Numbers, member'[n] # "gone", worker'[w].state.cycle < k
        PROVE  Spare(n, k)'
    <3>1. worker[w].state.cycle <= c
      BY <1>0 DEF WarningInv, CycleInv, At
    <3>2. c < k /\ worker[w].state.cycle < k
      BY <1>1, <2>4, <3>1, Amounts
    <3>3. Spare(n, k) /\ warned'[n][k] = warned[n][k]
      BY <1>1, <1>2, <2>1, <2>2, <2>4, <3>2, Amounts DEF Counts
    <3> QED
      BY <1>1, <3>3 DEF Spare
  <2> QED
    BY <1>3, <1>4, <2>1, <2>3, <2>4 DEF Counts
<1>6. CASE ~Heard(w)
  <2>1. ~Judges(w, n) /\ ~Judges(w, n)' /\ UNCHANGED warned
    BY <1>1, <1>6 DEF Judges, Heard, PostTraffic, Warn
  <2>2. Remembered(n)' = Remembered(n)
    BY <1>1, RememberedFrame
  <2>3. \A k \in Numbers : Spare(n, k)' <=> Spare(n, k)
    BY <1>1, <2>1 DEF Spare
  <2> QED
    BY <1>1, <1>2, <1>3, <1>4, <2>1, <2>2, <2>3 DEF Counts
<1> QED
  BY <1>5, <1>6

LEMMA CountsStep ==
    ASSUME TypeOK, TypeOK', OneCheck, AgeInv, WarningInv, [Next]_vars, NEW n \in Nodes
    PROVE  Counts(n)'
<1>0. /\ member \in [Nodes -> {"on", "out", "gone"}] /\ warned \in [Nodes -> [Numbers -> Nat]]
      /\ disk \in [Nodes -> Row \cup {NoState}] /\ engines \in [Nodes -> Engine \cup {NoState}]
      /\ epoch # 0 /\ Counts(n)
  <2>1. epoch # 0
    BY Constants DEF TypeOK, Numbers
  <2> QED
    BY <2>1 DEF TypeOK, WarningInv
<1>1. ASSUME UNCHANGED <<epoch, worker, crashes, lost>>, disk'[n] = disk[n],
             engines'[n] = engines[n] \/ (engines[n] = NoState /\ engines'[n] = NewEngine),
             warned'[n] = warned[n], member'[n] # "gone" => member[n] # "gone"
      PROVE  Counts(n)'
  <2>1. \A w \in Workers : /\ Judges(w, n)' <=> Judges(w, n)
                           /\ Posting(w, n)' <=> Posting(w, n)
    BY <1>1 DEF Judges, Judging, Posting, At
  <2>2. Remembered(n)' = Remembered(n)
    <3>1. NewEngine.epoch # epoch
      BY <1>0 DEF NewEngine
    <3> QED
      BY <1>1, <3>1, RememberedFrame
  <2>3. \A k \in Numbers :
           /\ warned[n][k] <= 1 + crashes + lost => warned'[n][k] <= 1 + crashes' + lost'
           /\ Spare(n, k) => Spare(n, k)'
    BY <1>1 DEF Spare
  <2> QED
    BY <1>0, <1>1, <2>1, <2>2, <2>3, CountsFrame
<1>2. CASE Tick
  <2>1. UNCHANGED <<epoch, worker, member, crashes, lost>>
    BY <1>2 DEF Tick
  <2>2. CASE n \in Forgotten
    <3>1. /\ \A w \in Workers : ~Judges(w, n)'
          /\ Remembered(n)' = Saved(disk'[n])
      BY <1>2, <2>2, ForgottenRests
    <3> QED
      BY <1>2, <2>1, <2>2, <3>1, TickDisk, CountsRelearnt DEF Tick
  <2>3. CASE n \notin Forgotten
    <3>1. warned'[n] = warned[n]
      BY <1>2, <2>3, TickDisk, RelearnFacts DEF Tick
    <3>2. disk'[n] = disk[n] /\ engines'[n] = engines[n]
      BY <1>0, <1>2, <2>3, TickDisk DEF Tick
    <3> QED
      BY <1>1, <2>1, <3>1, <3>2
  <2> QED
    BY <2>2, <2>3
<1>3. ASSUME NEW m \in Nodes, Admit(m) PROVE Counts(n)'
  <2>1. UNCHANGED <<epoch, worker, member, warned, disk, crashes, lost>>
    BY <1>3 DEF Admit
  <2>2. engines'[n] = engines[n] \/ (engines[n] = NoState /\ engines'[n] = NewEngine)
    BY <1>0, <1>3 DEF Admit
  <2> QED
    BY <1>1, <2>1, <2>2
<1>4. ASSUME NEW w \in Workers, Check(w) PROVE Counts(n)'
  <2>1. CASE \/ Take(w) \/ Finish(w) \/ LoadFails(w) \/ DecideHealth(w) \/ DecideTraffic(w)
             \/ Skip(w) \/ PostHealth(w) \/ PostFails(w) \/ AnswerLost(w)
    BY <2>1, CountsIdleSteps
  <2>2. CASE Load(w) \/ LoadOptedOut(w) \/ PostTraffic(w) \/ Save(w)
    <3>1. CASE n # worker[w].id
      BY <2>2, <3>1, CountsOthers
    <3>2. CASE n = worker[w].id /\ LoadOptedOut(w)
      BY <3>2, CountsOptedOut
    <3>3. CASE n = worker[w].id /\ ~LoadOptedOut(w)
      BY <2>2, <3>3, CountsLoad, CountsPost, CountsSave
    <3> QED
      BY <3>1, <3>2, <3>3
  <2> QED
    BY <1>4, <2>1, <2>2 DEF Check
<1>5. ASSUME NEW e \in BOOLEAN, ChangeSettings(e) PROVE Counts(n)'
  <2>1. warned'[n] = Unwarned
    BY <1>5 DEF ChangeSettings
  <2> QED
    BY <2>1, CountsAfresh
<1>6. ASSUME NEW m \in Nodes, DeleteNode(m) PROVE Counts(n)'
  <2>1. UNCHANGED <<epoch, worker, engines, warned, crashes, lost>>
    BY <1>6 DEF DeleteNode
  <2>2. CASE n = m
    <3>1. member'[n] = "gone"
      BY <1>0, <1>6, <2>2 DEF DeleteNode
    <3>2. \A w \in Workers : Posting(w, n)' <=> Posting(w, n)
      BY <2>1 DEF Judges, Judging, Posting, At
    <3> QED
      BY <1>0, <2>1, <3>1, <3>2 DEF Counts, Spare
  <2>3. CASE n # m
    <3>1. disk'[n] = disk[n] /\ member'[n] = member[n]
      BY <1>0, <1>6, <2>3 DEF DeleteNode
    <3> QED
      BY <1>1, <2>1, <3>1
  <2> QED
    BY <2>2, <2>3
<1>7. CASE Crash
  <2>1. /\ crashes' = crashes + 1 /\ UNCHANGED <<lost, warned>>
        /\ \A w \in Workers : worker'[w].step = "idle"
    BY <1>7 DEF Crash, NoMemory, Resting
  <2>2. \A k \in Numbers : Spare(n, k)' /\ warned'[n][k] <= 1 + crashes' + lost'
    <3>1. \A k \in Numbers : warned[n][k] <= 1 + crashes + lost
      BY <1>0 DEF Counts
    <3> QED
      BY <2>1, <3>1, Amounts DEF Spare
  <2> QED
    BY <2>2 DEF Counts
<1>8. ASSUME \/ \E m \in Nodes : ReadDone(m) \/ OptOut(m) \/ OptIn(m) \/ Report(m) \/ Silence(m)
             \/ NewCycle
             \/ UNCHANGED vars
      PROVE  Counts(n)'
  <2>1. UNCHANGED <<disk, engines, worker, epoch, warned, crashes, lost>>
    BY <1>8 DEF ReadDone, OptOut, OptIn, Report, Silence, NewCycle
  <2>2. member'[n] # "gone" => member[n] # "gone"
    BY <1>0, <1>8 DEF ReadDone, OptOut, OptIn, Report, Silence, NewCycle
  <2> QED
    BY <1>1, <2>1, <2>2
<1> QED
  BY <1>2, <1>3, <1>4, <1>5, <1>6, <1>7, <1>8 DEF Next
-----------------------------------------------------------------------------
LEMMA AlertInit == Init => AlertInv
<1> SUFFICES ASSUME Init PROVE AlertInv
  OBVIOUS
<1>1. \A w \in Workers : worker[w] = Resting /\ Resting.step = "idle"
  BY DEF Init, Resting
<1>2. /\ jobs = <<>> /\ done = {} /\ pending = {}
      /\ \A n \in Nodes : /\ engines[n] = NoState /\ disk[n] = NoState
                          /\ told[n] = "up" /\ member[n] = "on"
  BY DEF Init
<1>3. OneCheck
  BY <1>1, <1>2 DEF OneCheck, Queued, Busy
<1>4. AgeInv /\ NoStateOfDeleted /\ NoRepeat
  BY <1>1, <1>2 DEF AgeInv, At, Judging, NoStateOfDeleted, NoRepeat
<1>5. Agreement
  BY <1>1, <1>2 DEF Agreement, Agrees, Judges, Judging, Remembered, OnDisk, Saved,
        Fresh
<1> QED
  BY TypeInit, <1>3, <1>4, <1>5 DEF AlertInv

(* The inductive invariant holds: it is what the theorems below follow from.*)
THEOREM AlertInvariant == Spec => []AlertInv
<1>1. AlertInv /\ [Next]_vars => AlertInv'
  <2> SUFFICES ASSUME AlertInv, [Next]_vars PROVE AlertInv'
    OBVIOUS
  <2>1. TypeOK /\ CountInv /\ RoundInv /\ OneCheck /\ NoStateOfDeleted /\ AgeInv /\ Agreement /\ NoRepeat
    BY DEF AlertInv
  <2>2. TypeOK' /\ CountInv'
    BY <2>1, TypeNext
  <2>3. RoundInv' /\ OneCheck'
    BY <2>1, RoundStep, OneCheckStep
  <2>4. NoStateOfDeleted' /\ AgeInv'
    BY <2>1, DeletedStep, AgeStep
  <2>5. Agreement' /\ NoRepeat'
    BY <2>1, AgreementStep, NoRepeatStep
  <2> QED
    BY <2>2, <2>3, <2>4, <2>5 DEF AlertInv
<1> QED
  BY AlertInit, <1>1, PTL DEF Spec

(* Every variable keeps its type; the queue keeps its capacity              *)
(* (telegram_queue.go:22, 97).                                              *)
THEOREM AlertTypeCorrect == Spec => []TypeOK
<1>1. AlertInv => TypeOK
  BY DEF AlertInv
<1> QED
  BY <1>1, AlertInvariant, PTL

(* At any time a node has at most one check, queued, running or finished    *)
(* and not yet read, and the dispatcher counts it as pending: no engine is  *)
(* shared by two goroutines (telegram_queue.go:97).                         *)
THEOREM ChecksAreExclusive == Spec => []OneCheck
<1>1. AlertInv => OneCheck
  BY DEF AlertInv
<1> QED
  BY <1>1, AlertInvariant, PTL

(* Whatever check was under way when a node was deleted, no alert state of  *)
(* it is left (telegram_state.go:35).                                       *)
THEOREM DeletedLeavesNoAlertState == Spec => []NoStateOfDeleted
<1>1. AlertInv => NoStateOfDeleted
  BY DEF AlertInv
<1> QED
  BY <1>1, AlertInvariant, PTL

(* The chat is never sent the message it already has: between two outages   *)
(* it hears of the recovery, and the other way round (telegram.go:98-113).  *)
THEOREM NoMessageIsRepeated == Spec => []NoRepeat
<1>1. AlertInv => NoRepeat
  BY DEF AlertInv
<1> QED
  BY <1>1, AlertInvariant, PTL

(* A cycle's warning comes once, and once more for each crash or lost       *)
(* answer that hid a delivered one (telegram.go:183, 191).                  *)
THEOREM WarningsAreFew == Spec => []FewWarnings
<1>1. Init => WarningInv
  <2> SUFFICES ASSUME Init PROVE WarningInv
    OBVIOUS
  <2>1. /\ \A w \in Workers : worker[w].step = "idle"
        /\ \A n \in Nodes : engines[n] = NoState /\ disk[n] = NoState
        /\ \A n \in Nodes, k \in Numbers : warned[n][k] = 0
        /\ crashes = 0 /\ lost = 0
    BY DEF Init, Resting, Unwarned
  <2> QED
    BY <2>1 DEF WarningInv, CycleInv, NotedBy, At, Counts, Spare
<1>2. AlertInv /\ AlertInv' /\ WarningInv /\ [Next]_vars => WarningInv'
  <2> SUFFICES ASSUME AlertInv, AlertInv', WarningInv, [Next]_vars PROVE WarningInv'
    OBVIOUS
  <2>1. TypeOK /\ TypeOK' /\ OneCheck /\ AgeInv /\ CycleInv
    BY DEF AlertInv, WarningInv
  <2>2. CycleInv' /\ \A n \in Nodes : Counts(n)'
    BY <2>1, CycleStep, CountsStep
  <2> QED
    BY <2>2 DEF WarningInv
<1>3. WarningInv => FewWarnings
  BY DEF WarningInv, Counts, FewWarnings
<1> QED
  BY <1>1, <1>2, <1>3, AlertInvariant, PTL DEF Spec
=============================================================================
