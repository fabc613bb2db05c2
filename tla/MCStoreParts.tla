---------------------------- MODULE MCStoreParts -----------------------------
(* Accounts of internal/store that share no state, checked side by side: in *)
(* a behaviour one of them moves and the others stay as they began.         *)
EXTENDS TrafficAccounting, OnlineHistory, PingSeries, TLC

Symmetry == Permutations(Interfaces) \cup Permutations(Methods)

(* Months with a last day before the day a cycle begins on.                 *)
MCMonths  == <<2, 2, 3, 1, 2, 2>>
MCOffsets == {-3, 0}

VARIABLE part  \* the account that moves

partsVars == <<part, trafficVars, onlineVars, pingVars>>

(* An account that stays does so in one state.                              *)
Unmoved ==
    /\ part # "traffic" => host.selected = Interfaces /\ node.reset = 1
    /\ part # "online" => moment = 0 /\ threshold = CHOOSE t \in Thresholds : TRUE
    /\ part # "pings" => probe.host = CHOOSE h \in Hosts : TRUE

PartsInit ==
    /\ part \in {"traffic", "online", "pings"}
    /\ TrafficInit /\ OnlineInit /\ PingInit
    /\ Unmoved

PartsNext ==
    /\ UNCHANGED part
    /\ \/ part = "traffic" /\ TrafficNext /\ UNCHANGED <<onlineVars, pingVars>>
       \/ part = "online" /\ OnlineNext /\ UNCHANGED <<trafficVars, pingVars>>
       \/ part = "pings" /\ PingNext /\ UNCHANGED <<trafficVars, onlineVars>>

PartsSpec == PartsInit /\ [][PartsNext]_partsVars
=============================================================================
