---------------------------- MODULE MCServerParts ----------------------------
(* Parts of internal/server that share no state, checked side by side: in a *)
(* behaviour one of them moves and the others stay as they began.           *)
EXTENDS WSHub, AdminSession, LoginLimit, RpcLimit, Registration, TelegramAlerts, TLC

Symmetry == Permutations(Clients) \cup Permutations(Contents)

VARIABLE part  \* the part that moves

partsVars == <<part, hubVars, sessionVars, loginVars, rpcVars, registrationVars, vars>>

Parts == {"hub", "sessions", "logins", "calls", "registration", "alerts"}

(* A part that stays does so in one state.                                  *)
Unmoved ==
    /\ part # "hub" => content = CHOOSE v \in Contents : TRUE
    /\ part # "sessions" => /\ secret = CHOOSE w \in Passwords : TRUE
                            /\ \A l \in Logins : login[l].typed = secret
    /\ part # "registration" => /\ \A n \in Names : nodes[n] = 0
                                /\ \A i \in Installs : install[i].name = CHOOSE n \in Names : TRUE

PartsInit ==
    /\ part \in Parts
    /\ HubInit /\ SessionInit /\ LoginInit /\ RpcInit /\ RegistrationInit /\ Init
    /\ Unmoved

PartsNext ==
    /\ UNCHANGED part
    /\ \/ /\ part = "hub" /\ HubNext
          /\ UNCHANGED <<sessionVars, loginVars, rpcVars, registrationVars, vars>>
       \/ /\ part = "sessions" /\ SessionNext
          /\ UNCHANGED <<hubVars, loginVars, rpcVars, registrationVars, vars>>
       \/ /\ part = "logins" /\ LoginNext
          /\ UNCHANGED <<hubVars, sessionVars, rpcVars, registrationVars, vars>>
       \/ /\ part = "calls" /\ RpcNext
          /\ UNCHANGED <<hubVars, sessionVars, loginVars, registrationVars, vars>>
       \/ /\ part = "registration" /\ RegistrationNext
          /\ UNCHANGED <<hubVars, sessionVars, loginVars, rpcVars, vars>>
       \/ /\ part = "alerts" /\ Next
          /\ UNCHANGED <<hubVars, sessionVars, loginVars, rpcVars, registrationVars>>

PartsSpec == PartsInit /\ [][PartsNext]_partsVars
=============================================================================
