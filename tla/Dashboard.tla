----------------------------- MODULE Dashboard ------------------------------
(***************************************************************************)
(* The node list of the public dashboard (internal/web/dist/app.js) over   *)
(* the WebSocket hub.  A page shows the last message it received.  When    *)
(* none came for ten seconds, or the connection is gone, it asks           *)
(* /api/nodes every five seconds, whether or not an earlier request is     *)
(* answered; answers that newer data overtook are thrown away.  The page   *)
(* is visible.  The site settings have requests of their own, which no     *)
(* revision guards; they are not modelled.                                 *)
(***************************************************************************)
EXTENDS WSHub

VARIABLES shown,    \* what the page shows
          silent,   \* not hasFreshWSData()
          fetched,  \* the answers under way of this dashboardRevision
          caught    \* history: the page has shown what the state is since

page == <<shown, silent, fetched, caught>>
all  == <<hubVars, page>>

DashboardInit ==
    /\ HubInit
    /\ shown = [c \in Clients |-> None]
    /\ silent = [c \in Clients |-> TRUE]
    /\ fetched = [c \in Clients |-> {}]
    /\ caught = [c \in Clients |-> FALSE]

\* Mutant: newer data do not begin a revision.
AcceptedUnrevised(c, v) ==
    /\ shown' = [shown EXCEPT ![c] = v]
    /\ fetched' = [fetched EXCEPT ![c] = @ \ {v}]
    /\ caught' = [caught EXCEPT ![c] = caught[c] \/ v = content]

(* acceptNodeSnapshot: what was asked before is of an older revision.       *)
Accepted(c, v) ==
    /\ shown' = [shown EXCEPT ![c] = v]
    /\ fetched' = [fetched EXCEPT ![c] = {}]
    /\ caught' = [caught EXCEPT ![c] = caught[c] \/ v = content]

(* ws.onmessage.                                                            *)
Show(c) ==
    /\ Deliver(c)
    /\ Accepted(c, Head(queue[c]))
    /\ silent' = [silent EXCEPT ![c] = FALSE]

(* ws.onclose, then a new connection after three seconds.                   *)
Lose(c) ==
    /\ Break(c)
    /\ silent' = [silent EXCEPT ![c] = TRUE]
    /\ UNCHANGED <<shown, fetched, caught>>

\* Mutant: while a connection is up its data never count as old.
SilenceWhenOff(c) ==
    /\ ~silent[c] /\ conn[c] = "off"
    /\ silent' = [silent EXCEPT ![c] = TRUE]
    /\ UNCHANGED <<hubVars, shown, fetched, caught>>

(* Ten seconds without a message.                                           *)
Silence(c) ==
    /\ ~silent[c]
    /\ silent' = [silent EXCEPT ![c] = TRUE]
    /\ UNCHANGED <<hubVars, shown, fetched, caught>>

(* fetchNodes asks; the answer is what the store holds then, ...            *)
Fetch(c) ==
    /\ silent[c]
    /\ hub = "open"
    /\ fetched' = [fetched EXCEPT ![c] = @ \cup {content}]
    /\ UNCHANGED <<hubVars, shown, silent, caught>>

(* ... and it is shown, or the request fails.                               *)
Answer(c, v) ==
    /\ v \in fetched[c]
    /\ \/ Accepted(c, v)
       \/ fetched' = [fetched EXCEPT ![c] = @ \ {v}] /\ UNCHANGED <<shown, caught>>
    /\ UNCHANGED <<hubVars, silent>>

PageStep(c) == Show(c) \/ Lose(c) \/ Silence(c) \/ Fetch(c) \/ \E v \in Contents : Answer(c, v)

(* What was caught counts until the state changes again.                    *)
Forget == caught' = [c \in Clients |-> caught[c] /\ version' = version]

DashboardNext ==
    \/ HubStep /\ Forget /\ UNCHANGED <<shown, silent, fetched>>
    \/ \E c \in Clients : PageStep(c)

(* The hub needs no more than that time passes and that what began goes on; *)
(* a request that keeps being made is answered at some time.                *)
Hub(A) == A /\ UNCHANGED page

DashboardFairness ==
    /\ WF_all(Hub(IntervalPasses)) /\ WF_all(Hub(CacheAges))
    /\ \A b \in Casters : WF_all(Hub(Broadcast(b)))
    /\ \A c \in Clients :
         /\ WF_all(Hub(Reader(c)))
         /\ SF_all(Show(c)) /\ WF_all(Silence(c)) /\ WF_all(Fetch(c))
         /\ SF_all(\E v \in Contents : Answer(c, v) /\ shown'[c] = v)

DashboardSpec == DashboardInit /\ [][DashboardNext]_all /\ DashboardFairness

(* When the state rests, every open page ends with it, whatever the hub     *)
(* skipped, dropped, reordered or lost with a connection (app.js:438, 451). *)
PagesConverge ==
    \A c \in Clients : <>[](hub = "open" => shown[c] = content)

(* Once a page has shown the present state, only a message may show it      *)
(* anything else: no answer that newer data overtook does (app.js:449, 451).*)
NothingOvertaken ==
    [][\A c \in Clients :
         caught[c] /\ shown'[c] # shown[c] => shown'[c] = content \/ queue'[c] # queue[c]]_all
=============================================================================
