---------------------------- MODULE Registration ----------------------------
(***************************************************************************)
(* Self-registration (store/registration.go, HandleRegister in             *)
(* server/rpc_handler.go, createNodeContext in store/store.go).  The panel *)
(* opens a window with a new key; a request that shows the key of the open *)
(* window is admitted, may be refused for its address, and then creates a  *)
(* node under the name its machine gave, unless a node has that name.      *)
(* Writers of the store hold persistMu from their first look to the        *)
(* publication; the window is read under mu alone.                         *)
(***************************************************************************)
EXTENDS Naturals

CONSTANTS Installs,    \* registration requests
          Names,       \* names of machines, upper and lower case alike
          Nobody,      \* persistMu is free
          MaxWindows   \* bound: windows opened

ASSUME RegistrationAssumption ==
    /\ MaxWindows \in Nat
    /\ {"panel", Nobody} \cap Installs = {} /\ Nobody # "panel"

VARIABLES window,      \* AutoDiscoveryKey (0: none), and whether RegisterUntil lies ahead
          drawn,       \* keys that windows were opened with
          next,        \* the window the panel is about to store
          nodes,       \* how many nodes have a name
          install,     \* where each request is
          persistMu    \* its holder

registrationVars == <<window, drawn, next, nodes, install, persistMu>>

DrawnKeys   == 0..MaxWindows
WindowState == [key : DrawnKeys, ahead : BOOLEAN]
Shut        == [key |-> 0, ahead |-> FALSE]

RegistrationTypeOK ==
    /\ window \in WindowState /\ next \in WindowState /\ drawn \in DrawnKeys
    /\ nodes \in [Names -> Nat]
    /\ install \in [Installs -> [step : {"new", "admitted", "creating", "over"},
                                 name : Names]]
    /\ persistMu \in Installs \cup {"panel", Nobody}

RegistrationInit ==
    /\ window = Shut /\ next = Shut /\ drawn = 0
    /\ nodes \in [Names -> 0..1]
    /\ \E n \in [Installs -> Names] :
          install = [i \in Installs |-> [step |-> "new", name |-> n[i]]]
    /\ persistMu = Nobody
-----------------------------------------------------------------------------
(* OpenRegistration draws a key, CloseRegistration forgets it; ...          *)
BeginWindow(w) ==
    /\ persistMu = Nobody
    /\ persistMu' = "panel"
    /\ next' = w
    /\ UNCHANGED <<window, drawn, nodes, install>>

(* ... the configuration is stored while mu is free, or is not.             *)
EndWindow ==
    /\ persistMu = "panel"
    /\ persistMu' = Nobody
    /\ \/ UNCHANGED <<window, drawn>>
       \/ window' = next /\ drawn' = IF next = Shut THEN drawn ELSE next.key
    /\ next' = Shut
    /\ UNCHANGED <<nodes, install>>

WindowLapses ==
    /\ window.ahead
    /\ window' = [window EXCEPT !.ahead = FALSE]
    /\ UNCHANGED <<drawn, next, nodes, install, persistMu>>

(* A machine that was given the k-th command runs it.                       *)
Present(i, k) ==
    /\ install[i].step = "new"
    /\ install' = [install EXCEPT ![i].step =
                      IF window.ahead /\ window.key = k THEN "admitted" ELSE "over"]
    /\ UNCHANGED <<window, drawn, next, nodes, persistMu>>

(* Too many registrations from this address.                                *)
Refuse(i) ==
    /\ install[i].step = "admitted"
    /\ install' = [install EXCEPT ![i].step = "over"]
    /\ UNCHANGED <<window, drawn, next, nodes, persistMu>>

\* Mutant: the name is looked up before the writer's lock is taken.
BeginNodeUnlocked(i) ==
    /\ install[i].step = "admitted"
    /\ install' = [install EXCEPT ![i].step =
                      IF nodes[install[i].name] > 0 THEN "over" ELSE "creating"]
    /\ UNCHANGED <<window, drawn, next, nodes, persistMu>>

(* createNodeContext looks for the name, ...                                *)
BeginNode(i) ==
    /\ install[i].step = "admitted" /\ persistMu = Nobody
    /\ IF nodes[install[i].name] > 0
       THEN /\ install' = [install EXCEPT ![i].step = "over"]
            /\ UNCHANGED persistMu
       ELSE /\ install' = [install EXCEPT ![i].step = "creating"]
            /\ persistMu' = i
    /\ UNCHANGED <<window, drawn, next, nodes>>

(* ... stores the node while mu is free and publishes it, or fails.         *)
EndNode(i) ==
    /\ install[i].step = "creating"
    /\ install' = [install EXCEPT ![i].step = "over"]
    /\ persistMu' = IF persistMu = i THEN Nobody ELSE persistMu
    /\ \/ nodes' = [nodes EXCEPT ![install[i].name] = @ + 1]
       \/ UNCHANGED nodes
    /\ UNCHANGED <<window, drawn, next>>
-----------------------------------------------------------------------------
RegistrationNext ==
    \/ drawn < MaxWindows /\ BeginWindow([key |-> drawn + 1, ahead |-> TRUE])
    \/ BeginWindow(Shut)
    \/ EndWindow \/ WindowLapses
    \/ \E i \in Installs :
          \/ \E k \in 1..drawn : Present(i, k)
          \/ Refuse(i) \/ BeginNode(i) \/ EndNode(i)

RegistrationSpec == RegistrationInit /\ [][RegistrationNext]_registrationVars
-----------------------------------------------------------------------------
(* Machines that install at a time never leave two nodes of one name, which *)
(* nothing in the panel could tell apart (rpc_handler.go:195).              *)
NamesUnique == \A n \in Names : nodes[n] <= 1
=============================================================================
