---------------------------- MODULE AdminSession ----------------------------
(***************************************************************************)
(* Administrator sessions (internal/server/auth_routes.go and the settings *)
(* route).  A login compares a password outside every lock and only then,  *)
(* under authMu for reading, hands out a token; a settings request checks  *)
(* its session first, reads its body, and only then, under authMu for      *)
(* writing, saves and, when it changed the password, ends every session.   *)
(* Logout and the cleaner take no lock at all.  A token is named after the *)
(* login that drew it; bcrypt salts, so each change makes another hash,    *)
(* also of a password used before.  Tokens live in memory: a restart ends  *)
(* every session and is left out.                                          *)
(***************************************************************************)
EXTENDS Naturals

CONSTANTS Logins,       \* login requests
          Requests,     \* settings requests under way at a time
          Passwords,    \* what people type
          NoOne,        \* nobody holds authMu, nothing is changed
          MaxPasswords  \* bound: password changes

ASSUME SessionAssumption ==
    /\ MaxPasswords \in Nat
    /\ NoOne \notin Requests \cup Passwords

VARIABLES secret,    \* the password the stored hash belongs to
          hash,      \* which hash it is
          session,   \* adminTokens
          login,     \* the local variables of each login request
          request,   \* the local variables of each settings request
          authMu     \* who holds authMu for writing

sessionVars == <<secret, hash, session, login, request, authMu>>

Hashes    == 0..MaxPasswords
Login     == [step: {"new", "looked", "verified", "over"}, typed: Passwords,
              seen: Hashes, proof: Hashes]
Arrived   == [step |-> "idle", token |-> NoOne, change |-> NoOne]
Request   == [step: {"idle", "checked", "saving", "saved"},
              token: Logins \cup {NoOne}, change: Passwords \cup {NoOne}]

SessionTypeOK ==
    /\ secret \in Passwords /\ hash \in Hashes
    /\ session \in [Logins -> {"none", "live", "expired"}]
    /\ login \in [Logins -> Login]
    /\ request \in [Requests -> Request]
    /\ authMu \in Requests \cup {NoOne}

SessionInit ==
    /\ secret \in Passwords /\ hash = 0
    /\ session = [l \in Logins |-> "none"]
    /\ \E p \in [Logins -> Passwords] :
          login = [l \in Logins |-> [step |-> "new", typed |-> p[l], seen |-> 0, proof |-> 0]]
    /\ request = [r \in Requests |-> Arrived]
    /\ authMu = NoOne
-----------------------------------------------------------------------------
(* The login handler takes a copy of the configuration, ...                 *)
LookUp(l) ==
    /\ login[l].step = "new"
    /\ login' = [login EXCEPT ![l].step = "looked", ![l].seen = hash]
    /\ UNCHANGED <<secret, hash, session, request, authMu>>

(* ... compares the password with the hash it finds then, ...               *)
Verify(l) ==
    /\ login[l].step = "looked"
    /\ login' = [login EXCEPT ![l].step = IF login[l].typed = secret
                                          THEN "verified" ELSE "over",
                              ![l].proof = hash]
    /\ UNCHANGED <<secret, hash, session, request, authMu>>

\* Mutant: the credentials are not looked at again.
IssueUnseen(l) ==
    /\ login[l].step = "verified" /\ authMu = NoOne
    /\ login' = [login EXCEPT ![l].step = "over"]
    /\ session' = [session EXCEPT ![l] = "live"]
    /\ UNCHANGED <<secret, hash, request, authMu>>

(* ... and hands out a token unless the credentials are no longer those of  *)
(* the copy.                                                                *)
Issue(l) ==
    /\ login[l].step = "verified" /\ authMu = NoOne
    /\ login' = [login EXCEPT ![l].step = "over"]
    /\ session' = IF login[l].seen = hash THEN [session EXCEPT ![l] = "live"] ELSE session
    /\ UNCHANGED <<secret, hash, request, authMu>>

(* Seven days later.                                                        *)
Expire(l) ==
    /\ session[l] = "live"
    /\ session' = [session EXCEPT ![l] = "expired"]
    /\ UNCHANGED <<secret, hash, login, request, authMu>>

(* pruneExpiredTokens, every 15 minutes.                                    *)
PruneTokens ==
    /\ \E l \in Logins : session[l] = "expired"
    /\ session' = [l \in Logins |-> IF session[l] = "expired" THEN "none" ELSE session[l]]
    /\ UNCHANGED <<secret, hash, login, request, authMu>>

Logout(l) ==
    /\ session[l] # "none"
    /\ session' = [session EXCEPT ![l] = "none"]
    /\ UNCHANGED <<secret, hash, login, request, authMu>>
-----------------------------------------------------------------------------
(* A settings request: checkAdmin, then the body, which may ask for a new   *)
(* password; checkAdmin removes a token that expired.                       *)
CheckAdmin(r, l, p) ==
    /\ request[r] = Arrived /\ authMu = NoOne /\ session[l] # "none"
    /\ IF session[l] = "live"
       THEN /\ request' = [request EXCEPT ![r] = [step |-> "checked", token |-> l, change |-> p]]
            /\ UNCHANGED session
       ELSE /\ session' = [session EXCEPT ![l] = "none"]
            /\ UNCHANGED request
    /\ UNCHANGED <<secret, hash, login, authMu>>

\* Mutant: the session is not looked up again under the lock.
LockUnchecked(r) ==
    /\ request[r].step = "checked" /\ authMu = NoOne
    /\ request' = [request EXCEPT ![r].step = "saving"]
    /\ authMu' = r
    /\ UNCHANGED <<secret, hash, session, login>>

(* Under authMu the token must still be there.                              *)
LockSettings(r) ==
    /\ request[r].step = "checked" /\ authMu = NoOne
    /\ IF session[request[r].token] # "none"
       THEN /\ request' = [request EXCEPT ![r].step = "saving"]
            /\ authMu' = r
       ELSE /\ request' = [request EXCEPT ![r] = Arrived]
            /\ UNCHANGED authMu
    /\ UNCHANGED <<secret, hash, session, login>>

(* Settings that are refused, or that could not be stored.                  *)
SaveFails(r) ==
    /\ request[r].step = "saving"
    /\ request' = [request EXCEPT ![r] = Arrived]
    /\ authMu' = NoOne
    /\ UNCHANGED <<secret, hash, session, login>>

(* Stored and published: the new password is valid from here.               *)
SaveSettings(r) ==
    /\ request[r].step = "saving"
    /\ IF request[r].change = NoOne
       THEN UNCHANGED <<secret, hash>>
       ELSE /\ hash < MaxPasswords
            /\ hash' = hash + 1
            /\ secret' = request[r].change
    /\ request' = [request EXCEPT ![r].step = "saved"]
    /\ UNCHANGED <<session, login, authMu>>

(* After a change of the password no session is left; the lock goes last.   *)
EndRequest(r) ==
    /\ request[r].step = "saved"
    /\ request' = [request EXCEPT ![r] = Arrived]
    /\ authMu' = NoOne
    /\ session' = IF request[r].change = NoOne THEN session
                  ELSE [l \in Logins |-> "none"]
    /\ UNCHANGED <<secret, hash, login>>
-----------------------------------------------------------------------------
SessionNext ==
    \/ PruneTokens
    \/ \E l \in Logins : LookUp(l) \/ Verify(l) \/ Issue(l) \/ Expire(l) \/ Logout(l)
    \/ \E r \in Requests :
          \/ \E l \in Logins, p \in Passwords \cup {NoOne} : CheckAdmin(r, l, p)
          \/ LockSettings(r) \/ SaveFails(r) \/ SaveSettings(r) \/ EndRequest(r)

SessionSpec == SessionInit /\ [][SessionNext]_sessionVars
-----------------------------------------------------------------------------
(* A change is published and its sessions are about to be ended.            *)
Ending(r) == authMu = r /\ request[r].step = "saved" /\ request[r].change # NoOne

(* Once a password change is over, no session is left that was opened with  *)
(* the password before, however logins and changes interleave               *)
(* (auth_routes.go:59, settings_routes.go:133).                             *)
NoStaleSession ==
    (\A r \in Requests : ~Ending(r)) =>
        \A l \in Logins : session[l] # "none" => login[l].proof = hash

(* Only who knows the password replaces it: of two changes under way at a   *)
(* time, the second is refused with the session it was checked with         *)
(* (settings_routes.go:116).                                                *)
OnlyCurrentReplaces ==
    [][hash' # hash =>
          \E r \in Requests : authMu = r /\ login[request[r].token].proof = hash]_sessionVars
=============================================================================
