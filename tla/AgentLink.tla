------------------------------ MODULE AgentLink ------------------------------
(***************************************************************************)
(* One agent and its panel (internal/agent/client.go and                   *)
(* network_identity.go against HandleV2RPC in internal/server).  The       *)
(* agent's main loop posts reports and basic information one at a time and *)
(* takes the panel's answers; the ping worker and the identity worker run  *)
(* beside it and are told of news through channels of one place.           *)
(* Posts are lost, refused, answered in vain or ingested late;             *)
(* the panel restarts, with a new identity epoch and the metadata it last  *)
(* saved; the agent restarts with nothing.  Identities are numbered in the *)
(* order of the lookups that found them, 0 is none.                        *)
(***************************************************************************)
EXTENDS Naturals

CONSTANTS TargetLists,   \* what the panel may ask an agent to measure
          Nothing,       \* the empty list, and results of no target
          Unknown,       \* pingTargets before the first answer
          MaxEvents      \* bound: faults, restarts, changes, timed lookups

ASSUME LinkAssumption ==
    /\ MaxEvents \in Nat
    /\ Nothing \notin TargetLists /\ Unknown \notin TargetLists \cup {Nothing}

VARIABLES
    epoch, assigned, held, results,        \* panel: its epoch, the node's targets and
                                           \* identity, the targets of its last results
    late, events,                          \* network: requests under way; what happened
    main, post, due,                       \* main loop; due: lastBasicInfo is zero or 15
                                           \* minutes old
    refreshed, identityTrigger, pingTrigger,
    identityEpoch, identity, pingTargets, pingResults,   \* Client, under mu
    looking, lookedUp, lookups,            \* identity worker
    probing                                \* ping worker

panel    == <<epoch, assigned, held, results>>
network  == <<late, events>>
mainLoop == <<main, post, due>>
channels == <<refreshed, identityTrigger, pingTrigger>>
client   == <<identityEpoch, identity, pingTargets, pingResults>>
lookup   == <<looking, lookedUp, lookups>>
linkVars == <<panel, network, mainLoop, channels, client, lookup, probing>>

NoAnswer == [epoch |-> 0, targets |-> Nothing]
Basic    == [kind |-> "basic", identity |-> identity, results |-> Nothing, answer |-> NoAnswer]
Report   == [kind |-> "report", identity |-> 0, results |-> pingResults, answer |-> NoAnswer]

FirstPost == [kind |-> "basic", identity |-> 0, results |-> Nothing, answer |-> NoAnswer]

LinkInit ==
    /\ epoch = 1 /\ assigned = Nothing /\ held = 0 /\ results = Nothing
    /\ late = {} /\ events = 0 /\ lookups = 0
    /\ main = "off" /\ due = TRUE /\ post = FirstPost
    /\ refreshed = FALSE /\ identityTrigger = FALSE /\ pingTrigger = FALSE
    /\ identityEpoch = 0 /\ identity = 0
    /\ pingTargets = Unknown /\ pingResults = Nothing
    /\ looking = "off" /\ lookedUp = 0 /\ probing = "off"

Event == events < MaxEvents /\ events' = events + 1
-----------------------------------------------------------------------------
(* IngestBasicInfo and IngestReport; an agent that has no lookup result yet *)
(* leaves the identity.                                                     *)
Apply(p) ==
    IF p.kind = "basic"
    THEN held' = (IF p.identity = 0 THEN held ELSE p.identity) /\ UNCHANGED results
    ELSE results' = p.results /\ UNCHANGED held

(* The panel ingests a post and answers with its epoch and the targets.     *)
Ingest ==
    /\ main = "posting" /\ post.answer = NoAnswer
    /\ Apply(post)
    /\ post' = [post EXCEPT !.answer = [epoch |-> epoch, targets |-> assigned]]
    /\ UNCHANGED <<epoch, assigned, network, main, due, channels,
                   client, lookup, probing>>

(* A request the agent gave up is ingested after all.                       *)
IngestLate ==
    /\ \E p \in late : Apply(p) /\ late' = late \ {p}
    /\ UNCHANGED <<epoch, assigned, events, mainLoop, channels, client, lookup, probing>>

(* Run with another panel process; what it saved may be older.              *)
PanelRestarts ==
    /\ Event
    /\ epoch' = epoch + 1
    /\ held' \in 0..held
    /\ UNCHANGED <<assigned, results, late, mainLoop, channels, client, lookup, probing>>

Assign ==
    /\ Event
    /\ assigned' \in (TargetLists \cup {Nothing}) \ {assigned}
    /\ UNCHANGED <<epoch, held, results, late, mainLoop, channels, client, lookup, probing>>

(* The agent process comes and goes, and keeps nothing.                     *)
AgentStarts ==
    /\ main = "off"
    /\ main' = "posting"
    /\ UNCHANGED <<panel, network, post, due, channels, client, lookup, probing>>

AgentStops ==
    /\ main # "off" /\ Event
    /\ main' = "off" /\ due' = TRUE /\ post' = FirstPost
    /\ refreshed' = FALSE /\ identityTrigger' = FALSE /\ pingTrigger' = FALSE
    /\ identityEpoch' = 0 /\ identity' = 0
    /\ pingTargets' = Unknown /\ pingResults' = Nothing
    /\ looking' = "off" /\ lookedUp' = 0 /\ probing' = "off"
    /\ late' \in IF main = "posting" /\ post.answer = NoAnswer THEN {late, late \cup {post}} ELSE {late}
    /\ UNCHANGED <<panel, lookups>>
-----------------------------------------------------------------------------
(* The workers start after the first basic information, come what may.      *)
Start ==
    IF looking = "off"
    THEN looking' = "begin" /\ probing' = "starting" /\ UNCHANGED <<lookedUp, lookups>>
    ELSE UNCHANGED <<lookup, probing>>

Send(p) == main' = "posting" /\ post' = p

(* postRPCContext returns an error: nothing came of it, or the request is   *)
(* still under way, or the answer is lost.                                  *)
PostFails ==
    /\ main = "posting" /\ Event
    /\ main' = "idle"
    /\ late' \in IF post.answer = NoAnswer THEN {late, late \cup {post}} ELSE {late}
    /\ due' = (due \/ post.kind = "report")
    /\ Start
    /\ post' = FirstPost
    /\ UNCHANGED <<panel, channels, client>>

(* handleRPCResult: the epoch, ...                                          *)
Answered ==
    /\ main = "posting" /\ post.answer # NoAnswer
    /\ due' = (due /\ post.kind = "report")
    /\ identityEpoch' = post.answer.epoch
    /\ main' = IF identityEpoch = post.answer.epoch THEN "adopting" ELSE "signalling"
    /\ UNCHANGED <<panel, network, post, channels, identity, pingTargets, pingResults,
                   lookup, probing>>

\* Mutant: the channel has no place, the send finds nobody waiting.
SignalUnbuffered ==
    /\ main = "signalling"
    /\ identityTrigger' = (looking = "wait")
    /\ main' = "adopting"
    /\ UNCHANGED <<panel, network, post, due, refreshed, pingTrigger,
                   client, lookup, probing>>

(* ... a signal to the identity worker, ...                                 *)
Signal ==
    /\ main = "signalling"
    /\ identityTrigger' = TRUE
    /\ main' = "adopting"
    /\ UNCHANGED <<panel, network, post, due, refreshed, pingTrigger,
                   client, lookup, probing>>

(* ... the targets, ...                                                     *)
Adopt ==
    /\ main = "adopting"
    /\ pingTargets' = post.answer.targets
    /\ main' = IF pingTargets = post.answer.targets THEN "finishing" ELSE "prompting"
    /\ UNCHANGED <<panel, network, post, due, channels, identityEpoch,
                   identity, pingResults, lookup, probing>>

\* Mutant: the same without a place for the ping worker.
PromptUnbuffered ==
    /\ main = "prompting"
    /\ pingTrigger' = (probing = "idle")
    /\ main' = "finishing"
    /\ UNCHANGED <<panel, network, post, due, refreshed, identityTrigger,
                   client, lookup, probing>>

(* ... and a signal to the ping worker.                                     *)
Prompt ==
    /\ main = "prompting"
    /\ pingTrigger' = TRUE
    /\ main' = "finishing"
    /\ UNCHANGED <<panel, network, post, due, refreshed, identityTrigger,
                   client, lookup, probing>>

\* Mutant: no report is followed by basic information that is due.
FinishOnly ==
    /\ main = "finishing"
    /\ main' = "idle" /\ post' = FirstPost
    /\ Start
    /\ UNCHANGED <<panel, network, due, channels, client>>

(* After a report, basic information if it is due; else back to the select. *)
Finish ==
    /\ main = "finishing"
    /\ IF post.kind = "report" /\ due
       THEN Send(Basic)
       ELSE main' = "idle" /\ post' = FirstPost
    /\ Start
    /\ UNCHANGED <<panel, network, due, channels, client>>

(* The cases of the select.                                                 *)
TakeRefreshed ==
    /\ main = "idle" /\ refreshed
    /\ refreshed' = FALSE
    /\ Send(Basic)
    /\ UNCHANGED <<panel, network, due, identityTrigger, pingTrigger,
                   client, lookup, probing>>

TakeQuarter ==
    /\ main = "idle"
    /\ Send(Basic)
    /\ UNCHANGED <<panel, network, due, channels, client, lookup, probing>>

(* A tick finds the report that the sampler put into the channel last.      *)
TakeTick ==
    /\ main = "idle"
    /\ Send(Report)
    /\ UNCHANGED <<panel, network, due, channels, client, lookup, probing>>

(* Fifteen minutes since the last submission that succeeded.                *)
BasicAges ==
    /\ ~due
    /\ due' = TRUE
    /\ UNCHANGED <<panel, network, main, post, channels, client, lookup, probing>>
-----------------------------------------------------------------------------
(* runNetworkIdentityLoop: it forgets a signal from before its first lookup *)
(* and waits for one, or for the timer, before the next.                    *)
Look ==
    /\ looking = "begin" \/ (looking = "wait" /\ identityTrigger)
    /\ identityTrigger' = FALSE
    /\ looking' = "lookup"
    /\ lookedUp' = identityEpoch
    /\ UNCHANGED <<panel, network, mainLoop, refreshed, pingTrigger, client, lookups, probing>>

LookByTimer ==
    /\ looking = "wait" /\ Event
    /\ looking' = "lookup"
    /\ lookedUp' = identityEpoch
    /\ UNCHANGED <<panel, late, mainLoop, channels, client, lookups, probing>>

Found ==
    /\ looking = "lookup"
    /\ lookups' = lookups + 1 /\ identity' = lookups + 1
    /\ looking' = "found"
    /\ UNCHANGED <<panel, network, mainLoop, channels, identityEpoch, pingTargets,
                   pingResults, lookedUp, probing>>

Announce ==
    /\ looking = "found"
    /\ refreshed' = TRUE
    /\ looking' = "wait"
    /\ UNCHANGED <<panel, network, mainLoop, identityTrigger, pingTrigger, client,
                   lookedUp, lookups, probing>>

(* runPingWorker and measurePings: a copy of the targets, ...               *)
Copy ==
    IF pingTargets \in TargetLists
    THEN probing' = pingTargets /\ UNCHANGED pingResults
    ELSE pingResults' = Nothing /\ probing' = "idle"

Measure ==
    /\ \/ probing = "starting" /\ UNCHANGED pingTrigger
       \/ probing = "idle" /\ pingTrigger /\ pingTrigger' = FALSE
    /\ Copy
    /\ UNCHANGED <<panel, network, mainLoop, refreshed, identityTrigger, identityEpoch,
                   identity, pingTargets, lookup>>

MeasureByTicker ==
    /\ probing = "idle"
    /\ Copy
    /\ UNCHANGED <<panel, network, mainLoop, channels, identityEpoch, identity,
                   pingTargets, lookup>>

(* ... and their results in place of the ones before.                       *)
Measured ==
    /\ probing \in TargetLists
    /\ pingResults' = probing
    /\ probing' = "idle"
    /\ UNCHANGED <<panel, network, mainLoop, channels, identityEpoch, identity,
                   pingTargets, lookup>>
-----------------------------------------------------------------------------
LinkNext ==
    \/ Ingest \/ IngestLate \/ PanelRestarts \/ Assign \/ AgentStarts \/ AgentStops
    \/ PostFails \/ Answered \/ Signal \/ Adopt \/ Prompt \/ Finish
    \/ TakeRefreshed \/ TakeQuarter \/ TakeTick
    \/ BasicAges
    \/ Look \/ LookByTimer \/ Found \/ Announce
    \/ Measure \/ MeasureByTicker \/ Measured

LinkSpec == LinkInit /\ [][LinkNext]_linkVars

(* A post comes to an end, the goroutines run, time passes, and the select  *)
(* passes over neither a report nor news of a lookup for ever.  Its fifteen *)
(* minutes' ticker and the 25-second ticker are not needed.                 *)
LinkFairness ==
    /\ WF_linkVars(Ingest) /\ WF_linkVars(Answered) /\ WF_linkVars(Signal)
    /\ WF_linkVars(Adopt) /\ WF_linkVars(Prompt) /\ WF_linkVars(Finish)
    /\ SF_linkVars(TakeRefreshed) /\ SF_linkVars(TakeTick) /\ WF_linkVars(BasicAges)
    /\ WF_linkVars(Look) /\ WF_linkVars(Found) /\ WF_linkVars(Announce)
    /\ SF_linkVars(Measure) /\ WF_linkVars(Measured)

FairLinkSpec == LinkSpec /\ LinkFairness
-----------------------------------------------------------------------------
(* An agent that runs on leaves its panel with the identity it found last,  *)
(* although posts fail and arrive late, a restarted panel knows an older    *)
(* one, and a restarted agent submits none at first (client.go:157,         *)
(* store.go:1137).                                                          *)
IdentityDelivered == <>[](main = "off" \/ (identity # 0 /\ held = identity))

(* The results that reach the panel are in the end those of the targets it  *)
(* assigned, without the 25-second ticker of the ping worker                *)
(* (client.go:279).                                                         *)
TargetsMeasured == <>[](main = "off" \/ results = assigned)

(* Each panel process gets a lookup that began when the agent knew of it,   *)
(* though signals are merged and the worker drops one as it starts          *)
(* (client.go:241, network_identity.go:227).                                *)
EpochsLookedUp == <>[](main = "off" \/ lookedUp = epoch)
=============================================================================
