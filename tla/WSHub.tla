------------------------------- MODULE WSHub --------------------------------
(***************************************************************************)
(* The WebSocket hub (internal/server/ws_hub.go).  One goroutine, "run",   *)
(* turns change notifications into broadcasts at most once per minimum     *)
(* interval; a settings handler broadcasts at once, in a goroutine of its  *)
(* own; each client has a reader, which queues the first snapshot and the  *)
(* ones it asks for, and a writer, which empties its queue.                *)
(*                                                                         *)
(* A broadcast is four kinds of steps, each under its own lock or none:    *)
(* list the clients, serialise the state, compare with the last broadcast, *)
(* queue to the clients one by one.  Readers and other broadcasts run in   *)
(* between.  A payload is the value it shows.  The two formats (full and   *)
(* dashboard) never meet, so one stands for both.  Time appears as two     *)
(* flags that it sets or clears: the minimum interval has passed since the *)
(* last broadcast, the cached payload is younger than that interval.       *)
(***************************************************************************)
EXTENDS Naturals, Sequences, FiniteSets

CONSTANTS Clients,     \* browser tabs
          Contents,      \* states of nodes and settings, as a payload shows them
          Handlers,    \* settings handlers that may broadcast at a time
          None,        \* no payload
          ClientQueueCap,    \* capacity of a client's queue
          MaxClients,  \* maxWSClients
          MaxChanges   \* bound: changes of the state

ASSUME HubAssumption ==
    /\ IsFiniteSet(Clients)
    /\ None \notin Contents
    /\ "run" \notin Handlers
    /\ ClientQueueCap \in Nat \ {0} /\ MaxClients \in Nat /\ MaxChanges \in Nat

VARIABLES content,     \* what nodesPayload would serialise now
          version,     \* changes so far
          notified,    \* history: the last version notifyUpdate was called for
          covered,     \* history: the last version a broadcast serialised
          hub,         \* "open", "closing" (closed, stop closed), "stopped"
          trigger,     \* WSHub.trigger holds a token
          timer,       \* the local variable pending is not nil
          spaced,      \* minWSUpdateInterval passed since lastBroadcast
          cache,       \* payloadCache, and whether it is young enough
          last,        \* lastPayload
          cast,        \* the broadcast each goroutine is doing
          clients,     \* WSHub.clients
          conn,        \* where each client's handler is
          alive,       \* the connection works
          out,         \* the snapshot a reader is about to queue
          queue,       \* wsClient.sendCh
          got          \* history: the last message the browser received

loop  == <<hub, trigger, timer, spaced>>
state == <<content, version, notified>>
conns == <<clients, conn, alive, out>>
hubVars  == <<state, covered, loop, cache, last, cast, conns, queue, got>>

Casters == Handlers \cup {"run"}
Payload == Contents \cup {None}
NoCast == [step |-> "idle", force |-> FALSE, to |-> {}, payload |-> None, drop |-> {}]
Registered == {"reading", "sending", "dropped", "open"}

HubTypeOK ==
    /\ content \in Contents /\ version \in 0..MaxChanges
    /\ notified \in 0..version /\ covered \in 0..version
    /\ hub \in {"open", "closing", "stopped"}
    /\ trigger \in BOOLEAN /\ timer \in BOOLEAN /\ spaced \in BOOLEAN
    /\ cache \in [payload: Payload, young: BOOLEAN]
    /\ last \in Payload
    /\ cast \in [Casters -> [step: {"idle", "listed", "serialised", "queueing"},
                             force: BOOLEAN, to: SUBSET Clients,
                             payload: Payload, drop: SUBSET Clients]]
    /\ clients \subseteq Clients /\ Cardinality(clients) <= MaxClients
    /\ conn \in [Clients -> {"off", "accepted"} \cup Registered]
    /\ clients = {c \in Clients : conn[c] \in Registered}
    /\ alive \in [Clients -> BOOLEAN]
    /\ out \in [Clients -> Payload]
    /\ queue \in [Clients -> Seq(Contents)]
    /\ \A c \in Clients : Len(queue[c]) <= ClientQueueCap
    /\ got \in [Clients -> Payload]
-----------------------------------------------------------------------------
HubInit ==
    /\ content \in Contents /\ version = 0 /\ notified = 0 /\ covered = 0
    /\ hub = "open" /\ trigger = FALSE /\ timer = FALSE /\ spaced = FALSE
    /\ cache = [payload |-> None, young |-> FALSE]
    /\ last = None
    /\ cast = [b \in Casters |-> NoCast]
    /\ clients = {}
    /\ conn = [c \in Clients |-> "off"]
    /\ alive = [c \in Clients |-> FALSE]
    /\ out = [c \in Clients |-> None]
    /\ queue = [c \in Clients |-> <<>>]
    /\ got = [c \in Clients |-> None]

(* The store changes under its lock and calls notifyUpdate there, which     *)
(* leaves a token unless there is one; Close removes the callback.          *)
Change(v) ==
    /\ version < MaxChanges /\ v # content
    /\ content' = v
    /\ version' = version + 1
    /\ notified' = version + 1
    /\ trigger' = (trigger \/ hub = "open")
    /\ UNCHANGED <<covered, hub, timer, spaced, cache, last, cast, conns, queue, got>>

(* A node goes offline because time passes: nobody is told.                 *)
Drift(v) ==
    /\ version < MaxChanges /\ v # content
    /\ content' = v
    /\ version' = version + 1
    /\ UNCHANGED <<notified, covered, loop, cache, last, cast, conns, queue, got>>

IntervalPasses ==
    /\ ~spaced
    /\ spaced' = TRUE
    /\ UNCHANGED <<state, covered, hub, trigger, timer, cache, last, cast, conns, queue, got>>

CacheAges ==
    /\ cache.young
    /\ cache' = [cache EXCEPT !.young = FALSE]
    /\ UNCHANGED <<state, covered, loop, last, cast, conns, queue, got>>
-----------------------------------------------------------------------------
(* doBroadcastNodes begins: the clients of that moment; none, none to tell. *)
List(b, force) ==
    /\ cast' = IF clients = {} THEN cast
               ELSE [cast EXCEPT ![b] = [NoCast EXCEPT !.step = "listed",
                                                       !.force = force, !.to = clients]]
    /\ covered' = IF clients = {} THEN version ELSE covered

(* The run goroutine selects.  flush stops the timer and broadcasts.        *)
Selecting == hub # "stopped" /\ cast["run"] = NoCast

Flush == timer' = FALSE /\ spaced' = FALSE /\ List("run", FALSE)

\* Mutant: a notification inside the interval is forgotten.
OnTriggerForgets ==
    /\ Selecting /\ trigger
    /\ trigger' = FALSE
    /\ IF spaced THEN Flush ELSE UNCHANGED <<timer, spaced, cast, covered>>
    /\ UNCHANGED <<state, hub, cache, last, conns, queue, got>>

OnTrigger ==
    /\ Selecting /\ trigger
    /\ trigger' = FALSE
    /\ IF spaced THEN Flush ELSE timer' = TRUE /\ UNCHANGED <<spaced, cast, covered>>
    /\ UNCHANGED <<state, hub, cache, last, conns, queue, got>>

OnTimer ==
    /\ Selecting /\ timer /\ spaced
    /\ Flush
    /\ UNCHANGED <<state, hub, trigger, cache, last, conns, queue, got>>

OnTick ==
    /\ Selecting /\ spaced
    /\ Flush
    /\ UNCHANGED <<state, hub, trigger, cache, last, conns, queue, got>>

OnStop ==
    /\ Selecting /\ hub = "closing"
    /\ hub' = "stopped"
    /\ UNCHANGED <<state, covered, trigger, timer, spaced, cache, last, cast, conns, queue, got>>

(* forceBroadcastNodes: forget the cache, then broadcast.                   *)
ForceBroadcast(b) ==
    /\ b \in Handlers /\ cast[b] = NoCast
    /\ cache' = [payload |-> None, young |-> FALSE]
    /\ List(b, TRUE)
    /\ UNCHANGED <<state, loop, last, conns, queue, got>>
-----------------------------------------------------------------------------
Serialise(b) ==
    /\ cast[b].step = "listed"
    /\ cache' = [payload |-> content, young |-> TRUE]
    /\ cast' = [cast EXCEPT ![b].step = "serialised", ![b].payload = content]
    /\ covered' = version
    /\ UNCHANGED <<state, loop, last, conns, queue, got>>

Compare(b) ==
    /\ cast[b].step = "serialised"
    /\ IF ~cast[b].force /\ last = cast[b].payload
       THEN cast' = [cast EXCEPT ![b] = NoCast] /\ UNCHANGED last
       ELSE /\ cast' = [cast EXCEPT ![b] = IF cast[b].to = {} THEN NoCast
                                           ELSE [@ EXCEPT !.step = "queueing"]]
            /\ last' = cast[b].payload
    /\ UNCHANGED <<state, covered, loop, cache, conns, queue, got>>

(* The broadcast goes on with the clients other than c, or is over.         *)
Without(p, c) == IF p.to \subseteq {c} THEN NoCast
                 ELSE [p EXCEPT !.to = @ \ {c}, !.drop = {}]

(* A send that finds the queue full drops the oldest message first, ...     *)
Queue(b, c) ==
    /\ cast[b].step = "queueing" /\ cast[b].drop = {} /\ c \in cast[b].to
    /\ IF Len(queue[c]) < ClientQueueCap
       THEN /\ queue' = [queue EXCEPT ![c] = Append(@, cast[b].payload)]
            /\ cast' = [cast EXCEPT ![b] = Without(@, c)]
       ELSE /\ queue' = [queue EXCEPT ![c] = Tail(@)]
            /\ cast' = [cast EXCEPT ![b].drop = {c}]
    /\ UNCHANGED <<state, covered, loop, cache, last, conns, got>>

(* ... and gives up if another sender took the place.                       *)
QueueAgain(b, c) ==
    /\ cast[b].step = "queueing" /\ c \in cast[b].drop
    /\ queue' = IF Len(queue[c]) < ClientQueueCap
                THEN [queue EXCEPT ![c] = Append(@, cast[b].payload)] ELSE queue
    /\ cast' = [cast EXCEPT ![b] = Without(@, c)]
    /\ UNCHANGED <<state, covered, loop, cache, last, conns, got>>

Broadcast(b) == \/ Serialise(b)
                \/ Compare(b)
                \/ \E c \in Clients : Queue(b, c) \/ QueueAgain(b, c)
-----------------------------------------------------------------------------
(* HandleWS.  The first test is made before the handshake, ...              *)
Accept(c) ==
    /\ conn[c] = "off"
    /\ hub = "open" /\ Cardinality(clients) < MaxClients
    /\ conn' = [conn EXCEPT ![c] = "accepted"]
    /\ alive' = [alive EXCEPT ![c] = TRUE]
    /\ UNCHANGED <<state, covered, loop, cache, last, cast, clients, out, queue, got>>

\* Mutant: the limit is tested before the handshake only.
RegisterUnlimited(c) ==
    /\ conn[c] = "accepted"
    /\ IF hub = "open"
       THEN /\ clients' = clients \cup {c}
            /\ conn' = [conn EXCEPT ![c] = "reading"]
            /\ UNCHANGED alive
       ELSE /\ conn' = [conn EXCEPT ![c] = "off"]
            /\ alive' = [alive EXCEPT ![c] = FALSE]
            /\ UNCHANGED clients
    /\ UNCHANGED <<state, covered, loop, cache, last, cast, out, queue, got>>

\* Mutant: a hub that was closed meanwhile still registers the client.
RegisterAfterClose(c) ==
    /\ conn[c] = "accepted"
    /\ IF Cardinality(clients) < MaxClients
       THEN /\ clients' = clients \cup {c}
            /\ conn' = [conn EXCEPT ![c] = "reading"]
            /\ UNCHANGED alive
       ELSE /\ conn' = [conn EXCEPT ![c] = "off"]
            /\ alive' = [alive EXCEPT ![c] = FALSE]
            /\ UNCHANGED clients
    /\ UNCHANGED <<state, covered, loop, cache, last, cast, out, queue, got>>

(* ... and again by registerClient, under the lock.                         *)
Register(c) ==
    /\ conn[c] = "accepted"
    /\ IF hub = "open" /\ Cardinality(clients) < MaxClients
       THEN /\ clients' = clients \cup {c}
            /\ conn' = [conn EXCEPT ![c] = "reading"]
            /\ UNCHANGED alive
       ELSE /\ conn' = [conn EXCEPT ![c] = "off"]
            /\ alive' = [alive EXCEPT ![c] = FALSE]
            /\ UNCHANGED clients
    /\ UNCHANGED <<state, covered, loop, cache, last, cast, out, queue, got>>

(* sendNodesTo: a cached payload if it is young, else a new one, ...        *)
Snapshot(c) ==
    /\ conn[c] = "reading"
    /\ cache' = IF cache.young THEN cache ELSE [payload |-> content, young |-> TRUE]
    /\ out' = [out EXCEPT ![c] = cache'.payload]
    /\ conn' = [conn EXCEPT ![c] = "sending"]
    /\ UNCHANGED <<state, covered, loop, last, cast, clients, alive, queue, got>>

(* ... queued the way a broadcast is.                                       *)
QueueSnapshot(c) ==
    /\ conn[c] = "sending"
    /\ IF Len(queue[c]) < ClientQueueCap
       THEN /\ queue' = [queue EXCEPT ![c] = Append(@, out[c])]
            /\ conn' = [conn EXCEPT ![c] = "open"]
            /\ out' = [out EXCEPT ![c] = None]
       ELSE /\ queue' = [queue EXCEPT ![c] = Tail(@)]
            /\ conn' = [conn EXCEPT ![c] = "dropped"]
            /\ UNCHANGED out
    /\ UNCHANGED <<state, covered, loop, cache, last, cast, clients, alive, got>>

QueueSnapshotAgain(c) ==
    /\ conn[c] = "dropped"
    /\ queue' = IF Len(queue[c]) < ClientQueueCap
                THEN [queue EXCEPT ![c] = Append(@, out[c])] ELSE queue
    /\ conn' = [conn EXCEPT ![c] = "open"]
    /\ out' = [out EXCEPT ![c] = None]
    /\ UNCHANGED <<state, covered, loop, cache, last, cast, clients, alive, got>>

(* The client asks for a snapshot.                                          *)
Resync(c) ==
    /\ conn[c] = "open" /\ alive[c]
    /\ conn' = [conn EXCEPT ![c] = "reading"]
    /\ UNCHANGED <<state, covered, loop, cache, last, cast, clients, alive, out, queue, got>>

(* The writer sends the oldest message and the browser receives it.         *)
Deliver(c) ==
    /\ conn[c] \in Registered /\ alive[c]
    /\ queue[c] # <<>>
    /\ got' = [got EXCEPT ![c] = Head(queue[c])]
    /\ queue' = [queue EXCEPT ![c] = Tail(@)]
    /\ UNCHANGED <<state, covered, loop, cache, last, cast, conns>>

(* The connection breaks, or a write takes longer than three seconds.       *)
Break(c) ==
    /\ conn[c] \in Registered /\ alive[c]
    /\ alive' = [alive EXCEPT ![c] = FALSE]
    /\ UNCHANGED <<state, covered, loop, cache, last, cast, clients, conn, out, queue, got>>

(* The reader notices and the client leaves the hub; what a broadcast still *)
(* puts into its queue reaches nobody.                                      *)
Leave(c) ==
    /\ conn[c] = "open" /\ ~alive[c]
    /\ clients' = clients \ {c}
    /\ conn' = [conn EXCEPT ![c] = "off"]
    /\ queue' = [queue EXCEPT ![c] = <<>>]
    /\ cast' = [b \in Casters |->
                  IF c \in cast[b].to
                  THEN IF cast[b].step = "queueing" THEN Without(cast[b], c)
                       ELSE [cast[b] EXCEPT !.to = @ \ {c}]
                  ELSE cast[b]]
    /\ UNCHANGED <<state, covered, loop, cache, last, alive, out, got>>

\* Mutant: connections are left to their browsers.
CloseLeavesConnections ==
    /\ hub = "open"
    /\ hub' = "closing"
    /\ UNCHANGED <<state, covered, trigger, timer, spaced, cache, last, cast, conns, queue, got>>

(* WSHub.Close; it then waits for the run goroutine.                        *)
Close ==
    /\ hub = "open"
    /\ hub' = "closing"
    /\ alive' = [c \in Clients |-> alive[c] /\ c \notin clients]
    /\ UNCHANGED <<state, covered, trigger, timer, spaced, cache, last, cast,
                   clients, conn, out, queue, got>>
-----------------------------------------------------------------------------
Loop == OnTrigger \/ OnTimer \/ OnTick \/ OnStop

Reader(c) == Register(c) \/ Snapshot(c) \/ QueueSnapshot(c) \/ QueueSnapshotAgain(c) \/ Leave(c)

(* Everything but what a browser sees of its own connection and asks for.   *)
HubStep ==
    \/ \E v \in Contents : Change(v) \/ Drift(v)
    \/ IntervalPasses \/ CacheAges
    \/ Loop
    \/ \E b \in Handlers : ForceBroadcast(b)
    \/ \E b \in Casters : Broadcast(b)
    \/ \E c \in Clients : Accept(c) \/ Reader(c)
    \/ Close

HubNext == HubStep \/ \E c \in Clients : Resync(c) \/ Deliver(c) \/ Break(c)

HubSpec == HubInit /\ [][HubNext]_hubVars

(* Time passes, goroutines run, and select takes each ready branch at some  *)
(* time.  The ticker is left out: what the hub is told needs no ticker.     *)
HubFairness ==
    /\ WF_hubVars(IntervalPasses)
    /\ SF_hubVars(OnTrigger) /\ SF_hubVars(OnTimer) /\ SF_hubVars(OnStop)
    /\ \A b \in Casters : WF_hubVars(Broadcast(b))
    /\ \A c \in Clients : WF_hubVars(Reader(c))

FairHubSpec == HubSpec /\ HubFairness

(* Besides, the ticker ticks, payloads age and connections deliver.         *)
TickingSpec ==
    /\ FairHubSpec
    /\ WF_hubVars(CacheAges) /\ SF_hubVars(OnTick)
    /\ \A c \in Clients : SF_hubVars(Deliver(c))
-----------------------------------------------------------------------------
(* No connection outlives Close: a client is either in the list Close takes *)
(* or finds the hub closed, whatever handshakes are under way               *)
(* (ws_hub.go:119, 222).                                                    *)
NoOrphan == hub # "open" => \A c \in clients : ~alive[c]

(* A change the store announces is serialised by a later broadcast, without *)
(* waiting for the ticker: neither the one-token channel nor the minimum    *)
(* interval loses it (ws_hub.go:102).                                        *)
AnnouncedChangesBroadcast ==
    \A v \in 1..MaxChanges :
        (hub = "open" /\ notified = v) ~> (hub # "open" \/ covered >= v)

(* Close returns and every client leaves (ws_hub.go:119-137, 176).          *)
CloseEnds == hub = "closing" ~> (hub = "stopped" /\ clients = {})

(* A browser that stays connected ends with the current state: what a      *)
(* broadcast skips as identical would have been redundant (ws_hub.go:288).  *)
ClientsConverge ==
    \A c \in Clients :
        <>[](conn[c] \in Registered /\ alive[c]) => <>[](got[c] = content)
=============================================================================
