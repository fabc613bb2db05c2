----------------------------- MODULE WSHubProofs -----------------------------
(***************************************************************************)
(* Proofs about WSHub.  Types are not inductive by themselves: a queue     *)
(* takes what a broadcast serialised or what a reader was about to send,   *)
(* so both must be payloads, and a reader may send what the cache holds.   *)
(* HubInv groups the type invariant by what changes together and adds      *)
(* those facts; that no connection outlives Close is one more part.        *)
(***************************************************************************)
EXTENDS WSHub, FiniteSetTheorems, TLAPS

(* The state and the run goroutine's own variables.                         *)
FlagsOK ==
    /\ content \in Contents /\ version \in 0..MaxChanges
    /\ notified \in 0..version /\ covered \in 0..version
    /\ hub \in {"open", "closing", "stopped"}
    /\ trigger \in BOOLEAN /\ timer \in BOOLEAN /\ spaced \in BOOLEAN

(* A cache that is young enough holds a payload.                            *)
CacheOK ==
    /\ cache \in [payload: Payload, young: BOOLEAN]
    /\ cache.young => cache.payload \in Contents

CastType == [step: {"idle", "listed", "serialised", "queueing"},
             force: BOOLEAN, to: SUBSET Clients,
             payload: Payload, drop: SUBSET Clients]

(* A broadcast past its serialisation has a payload.                        *)
CastOK ==
    /\ cast \in [Casters -> CastType]
    /\ \A b \in Casters : cast[b].step \in {"serialised", "queueing"} => cast[b].payload \in Contents

(* A reader that sends has a payload.                                       *)
ConnOK ==
    /\ conn \in [Clients -> {"off", "accepted"} \cup Registered]
    /\ out \in [Clients -> Payload]
    /\ \A c \in Clients : conn[c] \in {"sending", "dropped"} => out[c] \in Contents
    /\ alive \in [Clients -> BOOLEAN]

MembersOK ==
    /\ clients \subseteq Clients /\ Cardinality(clients) <= MaxClients
    /\ clients = {c \in Clients : conn[c] \in Registered}

QueueOK ==
    /\ queue \in [Clients -> Seq(Contents)]
    /\ \A c \in Clients : Len(queue[c]) <= ClientQueueCap
    /\ got \in [Clients -> Payload]

HubInv == FlagsOK /\ CacheOK /\ last \in Payload /\ CastOK /\ ConnOK
          /\ MembersOK /\ QueueOK /\ NoOrphan

LEMMA HubInvType == HubInv => HubTypeOK
  BY DEF HubInv, FlagsOK, CacheOK, CastOK, CastType, ConnOK, MembersOK, QueueOK, HubTypeOK
-----------------------------------------------------------------------------
LEMMA HubInitInv == HubInit => HubInv
  <1> SUFFICES ASSUME HubInit PROVE HubInv
    OBVIOUS
  <1> USE HubAssumption DEF HubInit
  <1>1. FlagsOK
    <2>1. content \in Contents /\ version = 0 /\ notified = 0 /\ covered = 0 /\ hub = "open"
      OBVIOUS
    <2>2. trigger \in BOOLEAN /\ timer \in BOOLEAN /\ spaced \in BOOLEAN
      OBVIOUS
    <2> HIDE DEF HubInit
    <2> QED
      BY <2>1, <2>2 DEF FlagsOK
  <1>2. CacheOK /\ last \in Payload
    BY DEF CacheOK, Payload
  <1>3. CastOK
    BY DEF CastOK, CastType, NoCast, Payload
  <1>4. ConnOK
    BY DEF ConnOK, Payload
  <1>5. MembersOK
    BY FS_EmptySet DEF MembersOK, Registered
  <1>6. QueueOK
    <2>1. <<>> \in Seq(Contents) /\ Len(<<>>) = 0
      OBVIOUS
    <2> QED
      BY <2>1 DEF QueueOK, Payload
  <1>7. NoOrphan
    BY DEF NoOrphan
  <1> QED
    BY <1>1, <1>2, <1>3, <1>4, <1>5, <1>6, <1>7 DEF HubInv
-----------------------------------------------------------------------------
(* Which actions touch which variables.                                     *)
LEMMA CastChangers ==
    ASSUME HubNext, cast' # cast
    PROVE  \/ \E b \in Casters, f \in BOOLEAN : List(b, f)
           \/ \E b \in Casters : Serialise(b) \/ Compare(b)
           \/ \E b \in Casters, c \in Clients : Queue(b, c) \/ QueueAgain(b, c)
           \/ \E c \in Clients : Leave(c)
  <1> DEFINE Goal == \/ \E b \in Casters, f \in BOOLEAN : List(b, f)
                     \/ \E b \in Casters : Serialise(b) \/ Compare(b)
                     \/ \E b \in Casters, c \in Clients : Queue(b, c) \/ QueueAgain(b, c)
                     \/ \E c \in Clients : Leave(c)
  <1>1. ASSUME NEW v \in Contents, Change(v) \/ Drift(v) PROVE FALSE
    BY <1>1 DEF Change, Drift
  <1>2. ~(IntervalPasses \/ CacheAges \/ OnStop \/ Close)
    BY DEF IntervalPasses, CacheAges, OnStop, Close
  <1>3. CASE OnTrigger \/ OnTimer \/ OnTick
    <2>1. List("run", FALSE)
      BY <1>3 DEF OnTrigger, OnTimer, OnTick, Flush
    <2> QED
      BY <2>1 DEF Casters
  <1>4. ASSUME NEW b \in Handlers, ForceBroadcast(b) PROVE Goal
    BY <1>4 DEF ForceBroadcast, Casters
  <1>5. ASSUME NEW c \in Clients, \/ Accept(c) \/ Register(c) \/ Snapshot(c) \/ QueueSnapshot(c)
                                  \/ QueueSnapshotAgain(c) \/ Resync(c) \/ Deliver(c) \/ Break(c)
        PROVE  FALSE
    BY <1>5 DEF Accept, Register, Snapshot, QueueSnapshot, QueueSnapshotAgain, Resync, Deliver, Break
  <1> QED
    BY <1>1, <1>2, <1>3, <1>4, <1>5 DEF HubNext, HubStep, Loop, Broadcast, Reader

LEMMA ConnChangers ==
    ASSUME HubNext, ~UNCHANGED <<conn, clients, alive, out>>
    PROVE  \/ \E c \in Clients : Accept(c) \/ Reader(c) \/ Resync(c) \/ Break(c)
           \/ Close
  <1>1. ASSUME NEW v \in Contents, Change(v) \/ Drift(v) PROVE FALSE
    BY <1>1 DEF Change, Drift, conns
  <1>2. ~(IntervalPasses \/ CacheAges \/ Loop)
    BY DEF IntervalPasses, CacheAges, Loop, OnTrigger, OnTimer, OnTick, OnStop, conns
  <1>3. ASSUME NEW b \in Handlers, ForceBroadcast(b) PROVE FALSE
    BY <1>3 DEF ForceBroadcast, conns
  <1>4. ASSUME NEW b \in Casters, Broadcast(b) PROVE FALSE
    BY <1>4 DEF Broadcast, Serialise, Compare, Queue, QueueAgain, conns
  <1>5. ASSUME NEW c \in Clients, Deliver(c) PROVE FALSE
    BY <1>5 DEF Deliver, conns
  <1> QED
    BY <1>1, <1>2, <1>3, <1>4, <1>5 DEF HubNext, HubStep

LEMMA QueueChangers ==
    ASSUME HubNext, ~UNCHANGED <<queue, got>>
    PROVE  \/ \E b \in Casters, c \in Clients : Queue(b, c) \/ QueueAgain(b, c)
           \/ \E c \in Clients : QueueSnapshot(c) \/ QueueSnapshotAgain(c) \/ Leave(c) \/ Deliver(c)
  <1>1. ASSUME NEW v \in Contents, Change(v) \/ Drift(v) PROVE FALSE
    BY <1>1 DEF Change, Drift
  <1>2. ~(IntervalPasses \/ CacheAges \/ Loop \/ Close)
    BY DEF IntervalPasses, CacheAges, Loop, OnTrigger, OnTimer, OnTick, OnStop, Close
  <1>3. ASSUME NEW b \in Casters, ForceBroadcast(b) \/ Serialise(b) \/ Compare(b) PROVE FALSE
    BY <1>3 DEF ForceBroadcast, Serialise, Compare
  <1>4. ASSUME NEW c \in Clients, Accept(c) \/ Register(c) \/ Snapshot(c) \/ Resync(c) \/ Break(c)
        PROVE  FALSE
    BY <1>4 DEF Accept, Register, Snapshot, Resync, Break
  <1> QED
    BY <1>1, <1>2, <1>3, <1>4 DEF HubNext, HubStep, Broadcast, Reader, Casters
-----------------------------------------------------------------------------
LEMMA FlagsStep == ASSUME HubInv, HubNext PROVE FlagsOK'
  <1> USE HubAssumption DEF HubInv, FlagsOK
  <1>1. ASSUME NEW v \in Contents, Change(v) \/ Drift(v) PROVE FlagsOK'
    <2>1. /\ content' = v /\ version' = version + 1 /\ version < MaxChanges
          /\ notified' \in {notified, version + 1} /\ covered' = covered
          /\ hub' = hub /\ trigger' \in BOOLEAN /\ timer' = timer /\ spaced' = spaced
      BY <1>1 DEF Change, Drift, loop
    <2> QED
      BY <2>1
  <1>2. CASE IntervalPasses \/ CacheAges \/ Close \/ OnStop
    BY <1>2 DEF IntervalPasses, CacheAges, Close, OnStop, state, loop
  <1>3. CASE OnTrigger \/ OnTimer \/ OnTick
    <2>1. /\ UNCHANGED <<content, version, notified, hub>>
          /\ trigger' \in BOOLEAN /\ timer' \in BOOLEAN /\ spaced' \in BOOLEAN
          /\ covered' \in {version, covered}
      BY <1>3 DEF OnTrigger, OnTimer, OnTick, Flush, List, state
    <2> QED
      BY <2>1
  <1>4. ASSUME NEW b \in Casters, \/ ForceBroadcast(b) \/ Serialise(b) \/ Compare(b)
                                  \/ \E c \in Clients : Queue(b, c) \/ QueueAgain(b, c)
        PROVE  FlagsOK'
    <2>1. UNCHANGED <<state, loop>> /\ covered' \in {version, covered}
      BY <1>4 DEF ForceBroadcast, List, Serialise, Compare, Queue, QueueAgain
    <2> QED
      BY <2>1 DEF state, loop
  <1>5. ASSUME NEW c \in Clients, Accept(c) \/ Reader(c) \/ Resync(c) \/ Deliver(c) \/ Break(c)
        PROVE  FlagsOK'
    <2>1. UNCHANGED <<state, loop, covered>>
      BY <1>5 DEF Accept, Reader, Register, Snapshot, QueueSnapshot, QueueSnapshotAgain, Leave,
                  Resync, Deliver, Break
    <2> QED
      BY <2>1 DEF state, loop
  <1> QED
    BY <1>1, <1>2, <1>3, <1>4, <1>5 DEF HubNext, HubStep, Loop, Broadcast, Casters

LEMMA CacheStep == ASSUME HubInv, HubNext PROVE CacheOK' /\ last' \in Payload
  <1> USE HubAssumption DEF HubInv, CacheOK, Payload
  <1>1. CASE UNCHANGED <<cache, last>>
    BY <1>1
  <1>2. CASE CacheAges
    BY <1>2 DEF CacheAges
  <1>3. ASSUME NEW b \in Handlers, ForceBroadcast(b) PROVE CacheOK' /\ last' \in Payload
    BY <1>3 DEF ForceBroadcast
  <1>4. ASSUME NEW b \in Casters, Serialise(b) PROVE CacheOK' /\ last' \in Payload
    BY <1>4 DEF Serialise, FlagsOK
  <1>5. ASSUME NEW b \in Casters, Compare(b) PROVE CacheOK' /\ last' \in Payload
    <2>1. cast[b].payload \in Contents
      BY <1>5 DEF Compare, CastOK
    <2> QED
      BY <1>5, <2>1 DEF Compare
  <1>6. ASSUME NEW c \in Clients, Snapshot(c) PROVE CacheOK' /\ last' \in Payload
    BY <1>6 DEF Snapshot, FlagsOK
  <1>7. ASSUME NEW v \in Contents, Change(v) \/ Drift(v) PROVE UNCHANGED <<cache, last>>
    BY <1>7 DEF Change, Drift
  <1>8. ASSUME IntervalPasses \/ Loop \/ Close PROVE UNCHANGED <<cache, last>>
    BY <1>8 DEF IntervalPasses, Loop, OnTrigger, OnTimer, OnTick, OnStop, Close
  <1>9. ASSUME NEW b \in Casters, NEW c \in Clients, Queue(b, c) \/ QueueAgain(b, c)
        PROVE  UNCHANGED <<cache, last>>
    BY <1>9 DEF Queue, QueueAgain
  <1>10. ASSUME NEW c \in Clients, \/ Accept(c) \/ Register(c) \/ QueueSnapshot(c) \/ Break(c)
                                   \/ QueueSnapshotAgain(c) \/ Leave(c) \/ Resync(c) \/ Deliver(c)
         PROVE  UNCHANGED <<cache, last>>
    BY <1>10 DEF Accept, Register, QueueSnapshot, QueueSnapshotAgain, Leave, Resync, Deliver, Break
  <1> QED
    BY <1>1, <1>2, <1>3, <1>4, <1>5, <1>6, <1>7, <1>8, <1>9, <1>10
       DEF HubNext, HubStep, Broadcast, Reader

LEMMA WithoutType ==
    ASSUME NEW p \in CastType, NEW c \in Clients
    PROVE  /\ Without(p, c) \in CastType
           /\ Without(p, c).step \in {"serialised", "queueing"} =>
                 Without(p, c).step = p.step /\ Without(p, c).payload = p.payload
  BY DEF Without, CastType, NoCast, Payload

LEMMA ListedType ==
    ASSUME NEW p \in CastType, NEW f \in BOOLEAN, NEW s \in SUBSET Clients
    PROVE  LET q == [p EXCEPT !.step = "listed", !.force = f, !.to = s]
           IN  q \in CastType /\ q.step = "listed"
  <1> DEFINE a == [p EXCEPT !.step = "listed"]
             b == [a EXCEPT !.force = f]
             q == [b EXCEPT !.to = s]
  <1>1. a \in CastType /\ a.step = "listed"
    BY DEF CastType
  <1> HIDE DEF a
  <1>2. b \in CastType /\ b.step = "listed"
    BY <1>1 DEF CastType
  <1> HIDE DEF b
  <1>3. q \in CastType /\ q.step = "listed"
    BY <1>2 DEF CastType
  <1> QED
    BY <1>3 DEF a, b

LEMMA CastStep == ASSUME HubInv, HubNext PROVE CastOK'
  <1> USE DEF HubInv, CastOK
  <1>1. CASE cast' = cast
    BY <1>1
  <1>2. ASSUME NEW b \in Casters, NEW f \in BOOLEAN, List(b, f) PROVE CastOK'
    <2> DEFINE p == [NoCast EXCEPT !.step = "listed", !.force = f, !.to = clients]
    <2>1. clients \in SUBSET Clients
      BY Zenon DEF MembersOK
    <2>2. p \in CastType /\ p.step = "listed"
      <3>1. NoCast \in CastType
        BY DEF CastType, NoCast, Payload
      <3> QED
        BY <2>1, <3>1, ListedType
    <2>3. cast' = cast \/ cast' = [cast EXCEPT ![b] = p]
      BY <1>2, Zenon DEF List
    <2> HIDE DEF p
    <2> QED
      BY <1>1, <2>2, <2>3
  <1>3. ASSUME NEW b \in Casters, Serialise(b) PROVE CastOK'
    <2> DEFINE p == [[cast[b] EXCEPT !.step = "serialised"] EXCEPT !.payload = content]
    <2>1. cast[b] \in CastType /\ content \in Contents /\ content \in Payload
      BY DEF FlagsOK, Payload
    <2>2. p \in CastType /\ p.payload = content
      BY <2>1 DEF CastType
    <2>3. cast' = [cast EXCEPT ![b] = p]
      BY <1>3 DEF Serialise
    <2> HIDE DEF p
    <2> QED
      BY <2>1, <2>2, <2>3
  <1>4. ASSUME NEW b \in Casters, Compare(b) PROVE CastOK'
    <2>1. cast[b] \in CastType /\ cast[b].payload \in Contents
      BY <1>4 DEF Compare
    <2>2. NoCast \in CastType /\ [cast[b] EXCEPT !.step = "queueing"] \in CastType
      BY <2>1 DEF CastType, NoCast, Payload
    <2>3. \/ cast' = [cast EXCEPT ![b] = NoCast]
          \/ cast' = [cast EXCEPT ![b] = [@ EXCEPT !.step = "queueing"]]
      BY <1>4 DEF Compare
    <2>4. NoCast.step = "idle" /\ [cast[b] EXCEPT !.step = "queueing"].payload = cast[b].payload
      BY <2>1 DEF NoCast, CastType
    <2>5. CASE cast' = [cast EXCEPT ![b] = NoCast]
      BY <2>2, <2>4, <2>5
    <2>6. CASE cast' = [cast EXCEPT ![b] = [@ EXCEPT !.step = "queueing"]]
      BY <2>1, <2>2, <2>4, <2>6
    <2> QED
      BY <2>3, <2>5, <2>6
  <1>5. ASSUME NEW b \in Casters, NEW c \in Clients, Queue(b, c) \/ QueueAgain(b, c) PROVE CastOK'
    <2>1. cast[b] \in CastType /\ cast[b].payload \in Contents
      BY <1>5 DEF Queue, QueueAgain
    <2>2. \/ cast' = [cast EXCEPT ![b] = Without(@, c)]
          \/ cast' = [cast EXCEPT ![b].drop = {c}]
      BY <1>5 DEF Queue, QueueAgain
    <2>3. CASE cast' = [cast EXCEPT ![b] = Without(@, c)]
      BY <2>1, <2>3, WithoutType
    <2>4. CASE cast' = [cast EXCEPT ![b].drop = {c}]
      BY <2>1, <2>4 DEF CastType
    <2> QED
      BY <2>2, <2>3, <2>4
  <1>6. ASSUME NEW c \in Clients, Leave(c) PROVE CastOK'
    <2> SUFFICES ASSUME NEW b \in Casters
                 PROVE  /\ cast'[b] \in CastType
                        /\ cast'[b].step \in {"serialised", "queueing"} => cast'[b].payload \in Contents
      BY <1>6 DEF Leave
    <2>1. /\ cast[b] \in CastType
          /\ \/ cast'[b] = cast[b]
             \/ cast'[b] = Without(cast[b], c)
             \/ cast'[b] = [cast[b] EXCEPT !.to = @ \ {c}]
      BY <1>6 DEF Leave
    <2>2. CASE cast'[b] = Without(cast[b], c)
      BY <2>1, <2>2, WithoutType
    <2>3. CASE cast'[b] = [cast[b] EXCEPT !.to = @ \ {c}]
      BY <2>1, <2>3 DEF CastType
    <2> QED
      BY <2>1, <2>2, <2>3
  <1> QED
    BY <1>1, <1>2, <1>3, <1>4, <1>5, <1>6, CastChangers

LEMMA ConnStep == ASSUME HubInv, HubNext PROVE ConnOK'
  <1> USE DEF HubInv, ConnOK, Registered
  <1>1. CASE UNCHANGED <<conn, alive, out>>
    BY <1>1
  <1>2. ASSUME NEW c \in Clients, Accept(c) \/ Register(c) \/ Resync(c) \/ Break(c) \/ Leave(c)
        PROVE  ConnOK'
    BY <1>2 DEF Accept, Register, Resync, Break, Leave
  <1>3. ASSUME NEW c \in Clients, Snapshot(c) PROVE ConnOK'
    <2>1. cache'.payload \in Contents
      BY <1>3 DEF Snapshot, CacheOK, FlagsOK
    <2> QED
      BY <1>3, <2>1 DEF Snapshot, Payload
  <1>4. ASSUME NEW c \in Clients, QueueSnapshot(c) \/ QueueSnapshotAgain(c) PROVE ConnOK'
    BY <1>4 DEF QueueSnapshot, QueueSnapshotAgain, Payload
  <1>5. CASE Close
    BY <1>5 DEF Close
  <1> QED
    BY <1>1, <1>2, <1>3, <1>4, <1>5, ConnChangers DEF Reader

(* The list follows the handlers and keeps its limit.                       *)
LEMMA MembersStep == ASSUME HubInv, HubNext PROVE MembersOK'
  <1> USE HubAssumption DEF HubInv, MembersOK, ConnOK, Registered
  <1>1. IsFiniteSet(clients) /\ Cardinality(clients) \in Nat
    BY FS_Subset, FS_CardinalityType
  <1>2. CASE UNCHANGED <<conn, clients>>
    BY <1>2
  <1>3. ASSUME NEW c \in Clients, Register(c) PROVE MembersOK'
    <2>1. c \notin clients
      BY <1>3 DEF Register
    <2>2. Cardinality(clients \cup {c}) = Cardinality(clients) + 1
      BY <1>1, <2>1, FS_AddElement
    <2>3. CASE hub = "open" /\ Cardinality(clients) < MaxClients
      <3>1. clients' = clients \cup {c} /\ conn' = [conn EXCEPT ![c] = "reading"]
        BY <1>3, <2>3 DEF Register
      <3>2. Cardinality(clients') <= MaxClients
        BY <1>1, <2>2, <2>3, <3>1
      <3> QED
        BY <3>1, <3>2
    <2>4. CASE ~(hub = "open" /\ Cardinality(clients) < MaxClients)
      BY <1>3, <2>1, <2>4 DEF Register
    <2> QED
      BY <2>3, <2>4
  <1>4. ASSUME NEW c \in Clients, Leave(c) PROVE MembersOK'
    <2>1. c \in clients /\ clients' = clients \ {c} /\ conn' = [conn EXCEPT ![c] = "off"]
      BY <1>4 DEF Leave
    <2>2. Cardinality(clients \ {c}) = Cardinality(clients) - 1
      BY <1>1, <2>1, FS_RemoveElement
    <2>3. Cardinality(clients') <= MaxClients
      BY <1>1, <2>1, <2>2
    <2> QED
      BY <2>1, <2>3
  <1>5. ASSUME NEW c \in Clients, \/ Accept(c) \/ Resync(c) \/ Break(c)
                                  \/ Snapshot(c) \/ QueueSnapshot(c) \/ QueueSnapshotAgain(c)
        PROVE  MembersOK'
    <2>1. clients' = clients
      BY <1>5 DEF Accept, Resync, Break, Snapshot, QueueSnapshot, QueueSnapshotAgain
    <2>2. /\ \A d \in Clients \ {c} : conn'[d] = conn[d]
          /\ conn'[c] \in Registered <=> conn[c] \in Registered
      BY <1>5 DEF Accept, Resync, Break, Snapshot, QueueSnapshot, QueueSnapshotAgain
    <2> QED
      BY <2>1, <2>2
  <1>6. CASE Close
    BY <1>6 DEF Close
  <1> QED
    BY <1>2, <1>3, <1>4, <1>5, <1>6, ConnChangers DEF Reader

(* What a full queue drops leaves a place, and nothing is queued without.   *)
LEMMA QueueStep == ASSUME HubInv, HubNext PROVE QueueOK'
  <1> USE HubAssumption DEF HubInv, QueueOK
  <1> DEFINE Queued(c, v) == [queue EXCEPT ![c] = Append(@, v)]
             Dropped(c)   == [queue EXCEPT ![c] = Tail(@)]
  <1>1. CASE UNCHANGED <<queue, got>>
    BY <1>1
  <1>2. ASSUME NEW c \in Clients, NEW v \in Contents, Len(queue[c]) < ClientQueueCap,
               queue' = Queued(c, v), got' = got
        PROVE  QueueOK'
    <2>1. /\ Append(queue[c], v) \in Seq(Contents)
          /\ Len(Append(queue[c], v)) <= ClientQueueCap
      BY <1>2
    <2> QED
      BY <1>2, <2>1
  <1>3. ASSUME NEW c \in Clients, queue[c] # <<>>, queue' = Dropped(c), got' \in [Clients -> Payload]
        PROVE  QueueOK'
    <2>1. /\ Tail(queue[c]) \in Seq(Contents)
          /\ Len(Tail(queue[c])) <= ClientQueueCap
      BY <1>3
    <2> QED
      BY <1>3, <2>1
  <1>4. \A c \in Clients : ~(Len(queue[c]) < ClientQueueCap) => queue[c] # <<>>
    OBVIOUS
  <1>5. ASSUME NEW b \in Casters, NEW c \in Clients, Queue(b, c) \/ QueueAgain(b, c)
        PROVE  QueueOK'
    <2>1. got' = got
      BY <1>5 DEF Queue, QueueAgain
    <2>2. cast[b].payload \in Contents
      BY <1>5 DEF Queue, QueueAgain, CastOK
    <2>3. \/ Len(queue[c]) < ClientQueueCap /\ queue' = Queued(c, cast[b].payload)
          \/ ~(Len(queue[c]) < ClientQueueCap) /\ queue' = Dropped(c)
          \/ queue' = queue
      BY <1>5 DEF Queue, QueueAgain
    <2> QED
      BY <1>1, <1>2, <1>3, <1>4, <2>1, <2>2, <2>3
  <1>6. ASSUME NEW c \in Clients, QueueSnapshot(c) \/ QueueSnapshotAgain(c)
        PROVE  QueueOK'
    <2>1. got' = got
      BY <1>6 DEF QueueSnapshot, QueueSnapshotAgain
    <2>2. out[c] \in Contents
      BY <1>6 DEF QueueSnapshot, QueueSnapshotAgain, ConnOK
    <2>3. \/ Len(queue[c]) < ClientQueueCap /\ queue' = Queued(c, out[c])
          \/ ~(Len(queue[c]) < ClientQueueCap) /\ queue' = Dropped(c)
          \/ queue' = queue
      BY <1>6 DEF QueueSnapshot, QueueSnapshotAgain
    <2> QED
      BY <1>1, <1>2, <1>3, <1>4, <2>1, <2>2, <2>3
  <1>7. ASSUME NEW c \in Clients, Leave(c) PROVE QueueOK'
    <2>1. <<>> \in Seq(Contents) /\ Len(<<>>) <= ClientQueueCap
      OBVIOUS
    <2> QED
      BY <1>7, <2>1 DEF Leave
  <1>8. ASSUME NEW c \in Clients, Deliver(c) PROVE QueueOK'
    <2>1. queue[c] # <<>> /\ Head(queue[c]) \in Payload
      BY <1>8 DEF Deliver, Payload
    <2>2. got' \in [Clients -> Payload] /\ queue' = Dropped(c)
      BY <1>8, <2>1 DEF Deliver
    <2> QED
      BY <1>3, <2>1, <2>2
  <1> QED
    BY <1>1, <1>5, <1>6, <1>7, <1>8, QueueChangers

(* A connection works only from a handshake the open hub accepted, and the  *)
(* list that Close breaks grows no more once the hub is closed.             *)
LEMMA OrphanStep == ASSUME HubInv, HubNext PROVE NoOrphan'
  <1> USE DEF HubInv, NoOrphan, MembersOK, ConnOK, Registered
  <1>1. hub' # "open" => hub # "open" \/ Close
    <2>1. ASSUME NEW v \in Contents, Change(v) \/ Drift(v) PROVE hub' = hub
      BY <2>1 DEF Change, Drift, loop
    <2>2. CASE IntervalPasses \/ CacheAges \/ Loop
      BY <2>2 DEF IntervalPasses, CacheAges, Loop, OnTrigger, OnTimer, OnTick, OnStop, loop
    <2>3. ASSUME NEW b \in Casters, \/ ForceBroadcast(b) \/ Serialise(b) \/ Compare(b)
                                    \/ \E c \in Clients : Queue(b, c) \/ QueueAgain(b, c)
          PROVE  hub' = hub
      BY <2>3 DEF ForceBroadcast, Serialise, Compare, Queue, QueueAgain, loop
    <2>4. ASSUME NEW c \in Clients, Accept(c) \/ Reader(c) \/ Resync(c) \/ Deliver(c) \/ Break(c)
          PROVE  hub' = hub
      BY <2>4 DEF Accept, Reader, Register, Snapshot, QueueSnapshot, QueueSnapshotAgain, Leave,
                  Resync, Deliver, Break, loop
    <2> QED
      BY <2>1, <2>2, <2>3, <2>4 DEF HubNext, HubStep, Broadcast, Casters
  <1>2. CASE Close
    BY <1>2 DEF Close
  <1>3. CASE hub' # "open" /\ ~Close
    <2>1. hub # "open"
      BY <1>1, <1>3
    <2>2. \A c \in clients : ~alive[c]
      BY <2>1
    <2>3. CASE UNCHANGED <<conn, clients, alive, out>>
      BY <2>2, <2>3
    <2>4. ASSUME NEW c \in Clients, Accept(c) \/ Reader(c) \/ Resync(c) \/ Break(c)
          PROVE  clients' \subseteq clients /\ \A d \in Clients : alive'[d] => alive[d]
      BY <2>1, <2>4 DEF Accept, Reader, Register, Snapshot, QueueSnapshot, QueueSnapshotAgain,
                        Leave, Resync, Break
    <2> QED
      BY <1>3, <2>2, <2>3, <2>4, ConnChangers
  <1> QED
    BY <1>2, <1>3

LEMMA HubNextInv == HubInv /\ [HubNext]_hubVars => HubInv'
  <1> SUFFICES ASSUME HubInv, [HubNext]_hubVars PROVE HubInv'
    OBVIOUS
  <1>1. CASE UNCHANGED hubVars
    BY <1>1 DEF hubVars, state, loop, conns, HubInv, FlagsOK, CacheOK, CastOK, ConnOK,
                MembersOK, QueueOK, NoOrphan
  <1>2. CASE HubNext
    BY <1>2, FlagsStep, CacheStep, CastStep, ConnStep, MembersStep, QueueStep, OrphanStep DEF HubInv
  <1> QED
    BY <1>1, <1>2

LEMMA HubInvariant == HubSpec => []HubInv
  BY HubInitInv, HubNextInv, PTL DEF HubSpec
-----------------------------------------------------------------------------
(* Types, and with them the limits: of clients however many handshakes are  *)
(* under way, and of every queue however many senders compete for a place   *)
(* (ws_hub.go:222, 354).                                                    *)
THEOREM HubTypeCorrect == HubSpec => []HubTypeOK
  BY HubInvType, HubInvariant, PTL

(* No connection outlives Close, whatever handshakes are under way.         *)
THEOREM NoConnectionOutlivesClose == HubSpec => []NoOrphan
  <1>1. HubInv => NoOrphan
    BY DEF HubInv
  <1> QED
    BY <1>1, HubInvariant, PTL
=============================================================================
