----------------------------- MODULE MCLiveParts ----------------------------
(* Three components that share no state, each with its fairness: in a       *)
(* behaviour the summaries, the agent with its panel, or the pages with     *)
(* their hub move, and the others stay as they began.                       *)
EXTENDS AgentLink, HistoryRollup, Dashboard

VARIABLE moves

NothingToSummarise ==
    /\ now = [hour |-> FirstHour, part |-> 0]
    /\ nodes = {} /\ raw = {} /\ rolled = {} /\ dirty = {}
    /\ completedBefore = Today
    /\ cleanup = "idle" /\ writes = 0

PagesUpToDate ==
    /\ HubInit
    /\ shown = [c \in Clients |-> content]
    /\ silent = [c \in Clients |-> TRUE]
    /\ fetched = [c \in Clients |-> {}]
    /\ caught = [c \in Clients |-> FALSE]

(* The contents are alike: they begin with one of them.                     *)
LiveInit ==
    /\ moves \in {"summaries", "agent", "pages"}
    /\ LinkInit /\ content = CHOOSE v \in Contents : TRUE
    /\ IF moves = "summaries" THEN Init ELSE NothingToSummarise
    /\ IF moves = "pages" THEN DashboardInit ELSE PagesUpToDate

LiveNext ==
    /\ UNCHANGED moves
    /\ \/ moves = "summaries" /\ Next /\ UNCHANGED <<linkVars, all>>
       \/ moves = "agent" /\ LinkNext /\ UNCHANGED <<vars, all>>
       \/ moves = "pages" /\ DashboardNext /\ UNCHANGED <<vars, linkVars>>

LiveSpec ==
    /\ LiveInit /\ [][LiveNext]_<<moves, vars, linkVars, all>>
    /\ \/ moves = "summaries" /\ Fairness
       \/ moves = "agent" /\ LinkFairness
       \/ moves = "pages" /\ DashboardFairness
=============================================================================
