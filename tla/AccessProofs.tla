---------------------------- MODULE AccessProofs ----------------------------
(***************************************************************************)
(* Proofs about who gets in: administrators, by their sessions, and        *)
(* machines, by their registration.                                        *)
(***************************************************************************)
EXTENDS AdminSession, Registration, TLAPS
-----------------------------------------------------------------------------
(***************************************************************************)
(* Proofs about AdminSession.  Neither property is inductive: that a       *)
(* session belongs to the current hash rests on what a login that has not  *)
(* ended yet remembers (Remembered) and on who holds authMu (LockHeld);    *)
(* that a change is asked for with a current session rests on nothing      *)
(* touching that session's hash while the lock is held (SavingCurrent).    *)
(***************************************************************************)

(* authMu is held exactly from the second look at the session to the end.   *)
LockHeld ==
    \A r \in Requests : /\ authMu = r <=> request[r].step \in {"saving", "saved"}
                        /\ request[r].step # "idle" => request[r].token \in Logins

(* A login compares a hash at least as new as the copy it took.             *)
Remembered ==
    \A l \in Logins :
        /\ login[l].step \in {"looked", "verified"} => login[l].seen <= hash
        /\ login[l].step = "verified" => /\ login[l].seen <= login[l].proof
                                         /\ login[l].proof <= hash

(* A session is current, or about to be ended.                              *)
CurrentOrEnding ==
    \A l \in Logins : session[l] # "none" =>
        /\ login[l].step = "over"
        /\ login[l].proof = hash \/ \E r \in Requests : Ending(r)

(* What is saved was asked for with a session that is current.              *)
SavingCurrent ==
    \A r \in Requests : request[r].step = "saving" =>
        /\ login[request[r].token].step = "over"
        /\ login[request[r].token].proof = hash

SessionInv ==
    SessionTypeOK /\ LockHeld /\ Remembered /\ CurrentOrEnding /\ SavingCurrent
-----------------------------------------------------------------------------
LEMMA InitInv == SessionInit => SessionInv
  <1> SUFFICES ASSUME SessionInit PROVE SessionInv
    OBVIOUS
  <1> USE SessionAssumption DEF SessionInit
  <1>1. PICK p \in [Logins -> Passwords] :
           login = [l \in Logins |-> [step |-> "new", typed |-> p[l], seen |-> 0, proof |-> 0]]
    OBVIOUS
  <1>2. SessionTypeOK
    BY <1>1 DEF SessionTypeOK, Login, Request, Arrived, Hashes
  <1>3. LockHeld
    BY DEF LockHeld, Arrived
  <1>4. Remembered /\ CurrentOrEnding /\ SavingCurrent
    BY <1>1 DEF Remembered, CurrentOrEnding, SavingCurrent, Arrived
  <1> QED
    BY <1>2, <1>3, <1>4 DEF SessionInv

(* While nobody holds the lock nothing is saved or about to be ended.       *)
LEMMA LockFree ==
    ASSUME SessionInv, authMu = NoOne
    PROVE  /\ \A r \in Requests : request[r].step \notin {"saving", "saved"} /\ ~Ending(r)
           /\ \A l \in Logins : session[l] # "none" =>
                  login[l].step = "over" /\ login[l].proof = hash
  BY SessionAssumption DEF SessionInv, LockHeld, Ending, CurrentOrEnding
-----------------------------------------------------------------------------
(* The steps of a login touch neither a session nor a login that is over.   *)
LEMMA LoginSteps ==
    ASSUME SessionInv, NEW l \in Logins, LookUp(l) \/ Verify(l)
    PROVE  SessionInv'
  <1> USE SessionAssumption DEF SessionInv
  <1>1. /\ login[l].step \in {"new", "looked"}
        /\ UNCHANGED <<secret, hash, session, request, authMu>>
        /\ login' \in [Logins -> Login]
        /\ \A k \in Logins \ {l} : login'[k] = login[k]
    BY DEF LookUp, Verify, SessionTypeOK, Login, Hashes
  <1>2. SessionTypeOK'
    BY <1>1 DEF SessionTypeOK
  <1>3. LockHeld'
    BY <1>1 DEF LockHeld
  <1>4. Remembered'
    <2>1. CASE LookUp(l)
      BY <1>1, <2>1 DEF LookUp, Remembered, SessionTypeOK, Login, Hashes
    <2>2. CASE Verify(l)
      BY <1>1, <2>2 DEF Verify, Remembered, SessionTypeOK, Login, Hashes
    <2> QED
      BY <2>1, <2>2
  <1>5. CurrentOrEnding'
    BY <1>1 DEF CurrentOrEnding, Ending
  <1>6. SavingCurrent'
    BY <1>1 DEF SavingCurrent, LockHeld
  <1> QED
    BY <1>2, <1>3, <1>4, <1>5, <1>6

(* A token is handed out only for credentials that did not change.          *)
LEMMA IssueStep ==
    ASSUME SessionInv, NEW l \in Logins, Issue(l)
    PROVE  SessionInv'
  <1> USE SessionAssumption DEF SessionInv
  <1>1. /\ login[l].step = "verified" /\ authMu = NoOne
        /\ login' = [login EXCEPT ![l].step = "over"]
        /\ session' = IF login[l].seen = hash THEN [session EXCEPT ![l] = "live"] ELSE session
        /\ UNCHANGED <<secret, hash, request, authMu>>
    BY DEF Issue
  <1>2. /\ login' \in [Logins -> Login]
        /\ \A k \in Logins : login'[k].proof = login[k].proof /\ login'[k].seen = login[k].seen
        /\ \A k \in Logins \ {l} : login'[k] = login[k]
        /\ login'[l].step = "over"
    BY <1>1 DEF SessionTypeOK, Login
  <1>3. SessionTypeOK'
    BY <1>1, <1>2 DEF SessionTypeOK
  <1>4. LockHeld'
    BY <1>1 DEF LockHeld
  <1>5. Remembered'
    BY <1>1, <1>2 DEF Remembered
  <1>6. CurrentOrEnding'
    <2> SUFFICES ASSUME NEW k \in Logins, session'[k] # "none"
                 PROVE  login'[k].step = "over" /\ login'[k].proof = hash'
      BY DEF CurrentOrEnding
    <2>1. CASE k = l /\ login[l].seen = hash
      <3>1. login[l].seen \in Nat /\ login[l].proof \in Nat /\ hash \in Nat
        BY DEF SessionTypeOK, Login, Hashes
      <3> QED
        BY <1>1, <1>2, <2>1, <3>1 DEF Remembered
    <2>2. CASE ~(k = l /\ login[l].seen = hash)
      <3>1. session'[k] = session[k]
        BY <1>1, <2>2 DEF SessionTypeOK
      <3> QED
        BY <1>1, <1>2, <3>1, LockFree
    <2> QED
      BY <2>1, <2>2
  <1>7. SavingCurrent'
    BY <1>1, LockFree DEF SavingCurrent
  <1> QED
    BY <1>3, <1>4, <1>5, <1>6, <1>7

(* Steps that only end a session or let it expire, and whatever a request   *)
(* does before it has the lock.                                             *)
LEMMA SessionSteps ==
    ASSUME SessionInv,
           \/ PruneTokens
           \/ \E l \in Logins : Expire(l) \/ Logout(l)
           \/ \E r \in Requests, l \in Logins, p \in Passwords \cup {NoOne} : CheckAdmin(r, l, p)
    PROVE  SessionInv'
  <1> USE SessionAssumption DEF SessionInv
  <1>1. /\ UNCHANGED <<secret, hash, login, authMu>>
        /\ session' \in [Logins -> {"none", "live", "expired"}]
        /\ \A k \in Logins : session'[k] # "none" => session[k] # "none"
    BY DEF PruneTokens, Expire, Logout, CheckAdmin, SessionTypeOK
  <1>2. /\ request' \in [Requests -> Request]
        /\ \A r \in Requests : \/ request'[r] = request[r]
                               \/ /\ request[r].step = "idle" /\ request'[r].step = "checked"
                                  /\ request'[r].token \in Logins
    <2>1. CASE UNCHANGED request
      BY <2>1 DEF SessionTypeOK
    <2>2. CASE \E r \in Requests, l \in Logins, p \in Passwords \cup {NoOne} : CheckAdmin(r, l, p)
      BY <2>2 DEF CheckAdmin, SessionTypeOK, Request, Arrived
    <2> QED
      BY <2>1, <2>2 DEF PruneTokens, Expire, Logout
  <1>3. SessionTypeOK'
    BY <1>1, <1>2 DEF SessionTypeOK
  <1>4. LockHeld'
    BY <1>1, <1>2 DEF LockHeld
  <1>5. Remembered'
    BY <1>1 DEF Remembered
  <1>6. CurrentOrEnding'
    <2>1. \A r \in Requests : Ending(r) => Ending(r)'
      BY <1>1, <1>2 DEF Ending
    <2> QED
      BY <1>1, <2>1 DEF CurrentOrEnding
  <1>7. SavingCurrent'
    BY <1>1, <1>2 DEF SavingCurrent
  <1> QED
    BY <1>3, <1>4, <1>5, <1>6, <1>7

LEMMA LockStep ==
    ASSUME SessionInv, NEW r \in Requests, LockSettings(r)
    PROVE  SessionInv'
  <1> USE SessionAssumption DEF SessionInv
  <1>1. /\ request[r].step = "checked" /\ authMu = NoOne
        /\ UNCHANGED <<secret, hash, session, login>>
        /\ \A s \in Requests \ {r} : request'[s] = request[s]
        /\ request' \in [Requests -> Request]
    BY DEF LockSettings, SessionTypeOK, Request, Arrived
  <1>2. CurrentOrEnding'
    BY <1>1, LockFree DEF CurrentOrEnding
  <1>3. Remembered'
    BY <1>1 DEF Remembered
  <1>4. CASE session[request[r].token] # "none"
    <2>1. /\ request' = [request EXCEPT ![r].step = "saving"] /\ authMu' = r
          /\ request'[r].step = "saving" /\ request'[r].token = request[r].token
          /\ request[r].token \in Logins
      BY <1>1, <1>4 DEF LockSettings, SessionTypeOK, LockHeld, Request
    <2>2. SessionTypeOK'
      BY <1>1, <2>1 DEF SessionTypeOK
    <2>3. LockHeld'
      BY <1>1, <2>1 DEF LockHeld
    <2>4. SavingCurrent'
      BY <1>1, <1>4, <2>1, LockFree DEF SavingCurrent
    <2> QED
      BY <1>2, <1>3, <2>2, <2>3, <2>4
  <1>5. CASE session[request[r].token] = "none"
    <2>1. request'[r] = Arrived /\ authMu' = authMu
      BY <1>1, <1>5 DEF LockSettings, SessionTypeOK
    <2>2. SessionTypeOK'
      BY <1>1, <2>1 DEF SessionTypeOK
    <2>3. LockHeld'
      BY <1>1, <2>1 DEF LockHeld, Arrived
    <2>4. SavingCurrent'
      BY <1>1, <2>1, LockFree DEF SavingCurrent, Arrived
    <2> QED
      BY <1>2, <1>3, <2>2, <2>3, <2>4
  <1> QED
    BY <1>4, <1>5

(* While a request holds the lock no other one has got as far.              *)
LEMMA LockOwned ==
    ASSUME SessionInv, NEW r \in Requests, request[r].step \in {"saving", "saved"}
    PROVE  /\ authMu = r
           /\ \A s \in Requests \ {r} : request[s].step \notin {"saving", "saved"} /\ ~Ending(s)
  BY DEF SessionInv, LockHeld, Ending

LEMMA SaveStep ==
    ASSUME SessionInv, NEW r \in Requests, SaveSettings(r)
    PROVE  SessionInv'
  <1> USE SessionAssumption DEF SessionInv
  <1>1. /\ request[r].step = "saving" /\ authMu = r
        /\ request' = [request EXCEPT ![r].step = "saved"]
        /\ UNCHANGED <<session, login, authMu>>
    BY LockOwned DEF SaveSettings
  <1>2. /\ request' \in [Requests -> Request]
        /\ request'[r].step = "saved" /\ request'[r].token = request[r].token
        /\ request'[r].change = request[r].change
        /\ \A s \in Requests \ {r} : request'[s] = request[s]
    BY <1>1 DEF SessionTypeOK, Request
  <1>3. LockHeld'
    BY <1>1, <1>2 DEF LockHeld
  <1>4. SavingCurrent'
    BY <1>1, <1>2, LockOwned DEF SavingCurrent
  <1>5. CASE request[r].change = NoOne
    <2>1. UNCHANGED <<secret, hash>>
      BY <1>5 DEF SaveSettings
    <2>2. SessionTypeOK'
      BY <1>1, <1>2, <2>1 DEF SessionTypeOK
    <2>3. Remembered'
      BY <1>1, <2>1 DEF Remembered
    <2>4. \A s \in Requests : ~Ending(s)
      BY <1>1, LockOwned DEF Ending
    <2>5. CurrentOrEnding'
      BY <1>1, <2>1, <2>4 DEF CurrentOrEnding
    <2> QED
      BY <1>3, <1>4, <2>2, <2>3, <2>5
  <1>6. CASE request[r].change # NoOne
    <2>1. /\ hash < MaxPasswords /\ hash' = hash + 1
          /\ secret' = request[r].change
      BY <1>6 DEF SaveSettings
    <2>2. request[r].change \in Passwords
      BY <1>6 DEF SessionTypeOK, Request
    <2>3. SessionTypeOK'
      BY <1>1, <1>2, <2>1, <2>2 DEF SessionTypeOK, Hashes
    <2>4. Remembered'
      BY <1>1, <2>1 DEF Remembered, SessionTypeOK, Login, Hashes
    <2>5. Ending(r)'
      BY <1>1, <1>2, <1>6 DEF Ending
    <2>6. CurrentOrEnding'
      BY <1>1, <2>5 DEF CurrentOrEnding
    <2> QED
      BY <1>3, <1>4, <2>3, <2>4, <2>6
  <1> QED
    BY <1>5, <1>6

LEMMA EndSteps ==
    ASSUME SessionInv, NEW r \in Requests, SaveFails(r) \/ EndRequest(r)
    PROVE  SessionInv'
  <1> USE SessionAssumption DEF SessionInv
  <1>1. /\ request[r].step \in {"saving", "saved"} /\ authMu = r
        /\ request' = [request EXCEPT ![r] = Arrived] /\ authMu' = NoOne
        /\ UNCHANGED <<secret, hash, login>>
    BY LockOwned DEF SaveFails, EndRequest
  <1>2. /\ request' \in [Requests -> Request] /\ request'[r].step = "idle"
        /\ \A s \in Requests \ {r} : request'[s] = request[s]
    BY <1>1 DEF SessionTypeOK, Request, Arrived
  <1>3. session' \in [Logins -> {"none", "live", "expired"}]
    BY DEF SaveFails, EndRequest, SessionTypeOK
  <1>4. SessionTypeOK'
    BY <1>1, <1>2, <1>3 DEF SessionTypeOK
  <1>5. LockHeld'
    BY <1>1, <1>2, LockOwned DEF LockHeld
  <1>6. Remembered'
    BY <1>1 DEF Remembered
  <1>7. SavingCurrent'
    BY <1>1, <1>2, LockOwned DEF SavingCurrent
  <1>8. CurrentOrEnding'
    <2> SUFFICES ASSUME NEW l \in Logins, session'[l] # "none"
                 PROVE  login'[l].step = "over" /\ login'[l].proof = hash'
      BY DEF CurrentOrEnding
    <2>1. session' = session /\ ~Ending(r)
      BY DEF SaveFails, EndRequest, Ending
    <2> QED
      BY <1>1, <2>1, LockOwned DEF CurrentOrEnding
  <1> QED
    BY <1>4, <1>5, <1>6, <1>7, <1>8

LEMMA NextInv == SessionInv /\ [SessionNext]_sessionVars => SessionInv'
  <1> SUFFICES ASSUME SessionInv, [SessionNext]_sessionVars PROVE SessionInv'
    OBVIOUS
  <1>1. CASE UNCHANGED sessionVars
    BY <1>1 DEF sessionVars, SessionInv, SessionTypeOK, LockHeld, Remembered,
                CurrentOrEnding, SavingCurrent, Ending
  <1>2. CASE SessionNext
    BY <1>2, LoginSteps, IssueStep, SessionSteps, LockStep, SaveStep, EndSteps DEF SessionNext
  <1> QED
    BY <1>1, <1>2

LEMMA InductiveInv == SessionSpec => []SessionInv
  BY InitInv, NextInv, PTL DEF SessionSpec
-----------------------------------------------------------------------------
(* Every variable keeps its type.                                           *)
THEOREM SessionTypeCorrect == SessionSpec => []SessionTypeOK
  <1>1. SessionInv => SessionTypeOK
    BY DEF SessionInv
  <1> QED
    BY <1>1, InductiveInv, PTL

(* Whatever number of logins and settings requests interleave: once a       *)
(* password change is over, no session opened with an older hash is left.   *)
THEOREM StaleSessionsEnd == SessionSpec => []NoStaleSession
  <1>1. SessionInv => NoStaleSession
    BY DEF SessionInv, NoStaleSession, CurrentOrEnding
  <1> QED
    BY <1>1, InductiveInv, PTL

(* A password is replaced only through a session opened with it.            *)
THEOREM CurrentReplaces == SessionSpec => OnlyCurrentReplaces
  <1>1. SessionInv /\ [SessionNext]_sessionVars =>
            [hash' # hash =>
                \E r \in Requests : authMu = r /\ login[request[r].token].proof = hash]_sessionVars
    <2> SUFFICES ASSUME SessionInv, SessionNext, hash' # hash
                 PROVE  \E r \in Requests :
                            authMu = r /\ login[request[r].token].proof = hash
      OBVIOUS
    <2>1. PICK r \in Requests : SaveSettings(r)
      BY DEF SessionNext, PruneTokens, LookUp, Verify, Issue, Expire, Logout, CheckAdmin,
             LockSettings, SaveFails, EndRequest
    <2>2. request[r].step = "saving"
      BY <2>1 DEF SaveSettings
    <2> QED
      BY <2>2, LockOwned DEF SessionInv, SavingCurrent, LockHeld
  <1> QED
    BY <1>1, InductiveInv, PTL DEF SessionSpec, OnlyCurrentReplaces
-----------------------------------------------------------------------------
(***************************************************************************)
(* Proofs about Registration.  That names are unique rests on what a       *)
(* request knows while it stores its node: it holds persistMu, so no other *)
(* request does, and its name is still free (Creating).                    *)
(***************************************************************************)

Creating ==
    \A i \in Installs : install[i].step = "creating" =>
        persistMu = i /\ nodes[install[i].name] = 0

RegistrationInv == RegistrationTypeOK /\ Creating /\ NamesUnique
-----------------------------------------------------------------------------
LEMMA RegistrationInitInv == RegistrationInit => RegistrationInv
  <1> SUFFICES ASSUME RegistrationInit PROVE RegistrationInv
    OBVIOUS
  <1> USE RegistrationAssumption DEF RegistrationInit
  <1>1. PICK n \in [Installs -> Names] :
           install = [i \in Installs |-> [step |-> "new", name |-> n[i]]]
    OBVIOUS
  <1>2. RegistrationTypeOK
    <2>1. nodes \in [Names -> Nat]
      OBVIOUS
    <2>2. 0 \in DrawnKeys /\ Shut \in WindowState
      BY DEF DrawnKeys, WindowState, Shut
    <2>3. install \in [Installs -> [step : {"new", "admitted", "creating", "over"}, name : Names]]
      BY <1>1
    <2> QED
      BY <2>1, <2>2, <2>3 DEF RegistrationTypeOK
  <1>3. Creating
    BY <1>1 DEF Creating
  <1>4. NamesUnique
    <2>1. nodes \in [Names -> 0..1]
      OBVIOUS
    <2> HIDE DEF RegistrationInit
    <2> QED
      BY <2>1 DEF NamesUnique
  <1> QED
    BY <1>2, <1>3, <1>4 DEF RegistrationInv

(* The panel's steps create no node.                                        *)
LEMMA PanelSteps ==
    ASSUME RegistrationInv,
           \/ drawn < MaxWindows /\ BeginWindow([key |-> drawn + 1, ahead |-> TRUE])
           \/ BeginWindow(Shut)
           \/ EndWindow \/ WindowLapses
    PROVE  RegistrationInv'
  <1> USE RegistrationAssumption DEF RegistrationInv
  <1>1. /\ UNCHANGED <<nodes, install>>
        /\ window' \in WindowState /\ next' \in WindowState /\ drawn' \in DrawnKeys
    <2>1. Shut \in WindowState /\ drawn \in DrawnKeys
      BY DEF RegistrationTypeOK, WindowState, DrawnKeys, Shut
    <2>2. CASE drawn < MaxWindows /\ BeginWindow([key |-> drawn + 1, ahead |-> TRUE])
      <3>1. [key |-> drawn + 1, ahead |-> TRUE] \in WindowState
        BY <2>1, <2>2 DEF WindowState, DrawnKeys
      <3> QED
        BY <2>2, <3>1 DEF BeginWindow, RegistrationTypeOK
    <2>3. CASE BeginWindow(Shut)
      BY <2>1, <2>3 DEF BeginWindow, RegistrationTypeOK
    <2>4. CASE EndWindow
      <3>1. next.key \in DrawnKeys
        BY DEF RegistrationTypeOK, WindowState
      <3> QED
        BY <2>1, <2>4, <3>1 DEF EndWindow, RegistrationTypeOK
    <2>5. CASE WindowLapses
      BY <2>5 DEF WindowLapses, RegistrationTypeOK, WindowState
    <2> QED
      BY <2>2, <2>3, <2>4, <2>5
  <1>2. /\ persistMu' \in Installs \cup {"panel", Nobody}
        /\ persistMu \in Installs => persistMu' = persistMu
    BY DEF BeginWindow, EndWindow, WindowLapses, RegistrationTypeOK
  <1>3. RegistrationTypeOK'
    BY <1>1, <1>2 DEF RegistrationTypeOK
  <1>4. Creating' /\ NamesUnique'
    BY <1>1, <1>2 DEF Creating, NamesUnique
  <1> QED
    BY <1>3, <1>4

(* A request that only moves on leaves the nodes alone, and takes the lock  *)
(* when it found its name free.                                             *)
LEMMA RequestSteps ==
    ASSUME RegistrationInv, NEW i \in Installs,
           \/ \E k \in 1..drawn : Present(i, k)
           \/ Refuse(i) \/ BeginNode(i)
    PROVE  RegistrationInv'
  <1> USE RegistrationAssumption DEF RegistrationInv
  <1>1. /\ UNCHANGED <<window, drawn, next, nodes>>
        /\ install[i].step # "creating"
        /\ install' \in [Installs -> [step : {"new", "admitted", "creating", "over"}, name : Names]]
        /\ install'[i].name = install[i].name
        /\ \A j \in Installs \ {i} : install'[j] = install[j]
    BY DEF Present, Refuse, BeginNode, RegistrationTypeOK
  <1>2. \/ install'[i].step # "creating" /\ persistMu' = persistMu
        \/ /\ persistMu = Nobody /\ persistMu' = i
           /\ nodes[install[i].name] = 0
    BY DEF Present, Refuse, BeginNode, RegistrationTypeOK
  <1>3. RegistrationTypeOK'
    BY <1>1, <1>2 DEF RegistrationTypeOK
  <1>4. Creating'
    BY <1>1, <1>2 DEF Creating
  <1>5. NamesUnique'
    BY <1>1 DEF NamesUnique
  <1> QED
    BY <1>3, <1>4, <1>5

(* The node appears under a name that was free all the while.               *)
LEMMA NodeStep ==
    ASSUME RegistrationInv, NEW i \in Installs, EndNode(i)
    PROVE  RegistrationInv'
  <1> USE RegistrationAssumption DEF RegistrationInv
  <1>1. /\ persistMu = i /\ nodes[install[i].name] = 0 /\ install[i].name \in Names
        /\ \A j \in Installs \ {i} : install[j].step # "creating"
    BY DEF EndNode, Creating, RegistrationTypeOK
  <1>2. /\ UNCHANGED <<window, drawn, next>> /\ persistMu' = Nobody
        /\ install' = [install EXCEPT ![i].step = "over"]
        /\ \/ nodes' = [nodes EXCEPT ![install[i].name] = @ + 1]
           \/ nodes' = nodes
    BY <1>1 DEF EndNode
  <1>3. RegistrationTypeOK'
    BY <1>1, <1>2 DEF RegistrationTypeOK
  <1>4. Creating'
    BY <1>1, <1>2 DEF Creating, RegistrationTypeOK
  <1>5. NamesUnique'
    BY <1>1, <1>2 DEF NamesUnique, RegistrationTypeOK
  <1> QED
    BY <1>3, <1>4, <1>5

LEMMA RegistrationNextInv ==
    RegistrationInv /\ [RegistrationNext]_registrationVars => RegistrationInv'
  <1> SUFFICES ASSUME RegistrationInv, [RegistrationNext]_registrationVars
               PROVE  RegistrationInv'
    OBVIOUS
  <1>1. CASE UNCHANGED registrationVars
    BY <1>1 DEF registrationVars, RegistrationInv, RegistrationTypeOK, Creating, NamesUnique
  <1>2. CASE RegistrationNext
    BY <1>2, PanelSteps, RequestSteps, NodeStep DEF RegistrationNext
  <1> QED
    BY <1>1, <1>2
-----------------------------------------------------------------------------
(* However many machines register at a time, and however windows are opened *)
(* and closed meanwhile, no two nodes get one name (store.go:893).          *)
THEOREM NamesStayUnique == RegistrationSpec => []NamesUnique
  <1>1. RegistrationInv => NamesUnique
    BY DEF RegistrationInv
  <1> QED
    BY <1>1, RegistrationInitInv, RegistrationNextInv, PTL DEF RegistrationSpec
=============================================================================
