------------------------------ MODULE RpcLimit ------------------------------
(***************************************************************************)
(* The pace of the agents' calls (internal/server/rpc_limit.go): the time  *)
(* of the last accepted call of each key (a method and a token) in a map   *)
(* of bounded size.  A caller reads the clock before it takes the lock, so *)
(* calls may be decided in another order than they came in.                *)
(***************************************************************************)
EXTENDS Integers, Sequences, FiniteSets

CONSTANTS Keys,       \* method and token
          Callers,    \* calls under way at a time
          Free,       \* no call
          Spacings,   \* gaps that agents declare, as reportSpacing bounds them
          TTL,        \* pacedEntryTTL
          MaxWait,    \* how long a call can wait for the lock
          MaxKeys,    \* maxPacedTokens
          MaxTime, MaxCalls  \* bounds: time, accepted calls

ASSUME RpcLimitAssumption ==
    /\ Spacings \subseteq Nat /\ TTL \in Nat /\ MaxWait \in Nat
    /\ \A s \in Spacings : TTL >= s + MaxWait
    /\ IsFiniteSet(Keys) /\ MaxKeys \in Nat \ {0} /\ MaxTime \in Nat /\ MaxCalls \in Nat

VARIABLES now,
          lastCall,   \* rpcLimiter.last
          call,       \* what each caller asks for, and when it came
          accepted    \* history: the accepted calls in the order of decision

rpcVars == <<now, lastCall, call, accepted>>

RpcInit ==
    /\ now = 0
    /\ lastCall = <<>>
    /\ call = [c \in Callers |-> Free]
    /\ accepted = <<>>

RpcTick ==
    /\ now < MaxTime
    /\ \A c \in Callers : call[c] # Free => now < call[c].at + MaxWait
    /\ now' = now + 1
    /\ UNCHANGED <<lastCall, call, accepted>>

(* A call comes in; the handler reads the clock.                            *)
Arrive(c, k, s) ==
    /\ call[c] = Free /\ Len(accepted) < MaxCalls
    /\ call' = [call EXCEPT ![c] = [key |-> k, at |-> now, spacing |-> s]]
    /\ UNCHANGED <<now, lastCall, accepted>>

Younger(t) == [k \in {i \in DOMAIN lastCall : t - lastCall[i] < TTL} |-> lastCall[k]]

(* pruneExpired, every 15 minutes.                                          *)
PruneCalls ==
    /\ Younger(now) # lastCall
    /\ lastCall' = Younger(now)
    /\ UNCHANGED <<now, call, accepted>>

\* Mutant: the whole map is forgotten when it is full.
RoomEmptied(k, t) ==
    IF k \in DOMAIN lastCall \/ Cardinality(DOMAIN lastCall) < MaxKeys THEN {lastCall} ELSE {<<>>}

(* The map with a place for k: what is idle for long goes, else the oldest. *)
Room(k, t) ==
    LET Oldest == {i \in DOMAIN lastCall : \A j \in DOMAIN lastCall : lastCall[i] <= lastCall[j]}
    IN  IF k \in DOMAIN lastCall \/ Cardinality(DOMAIN lastCall) < MaxKeys THEN {lastCall}
        ELSE IF Cardinality(DOMAIN Younger(t)) < MaxKeys THEN {Younger(t)}
        ELSE {[j \in DOMAIN lastCall \ {i} |-> lastCall[j]] : i \in Oldest}

TooSoon(q) == q.key \in DOMAIN lastCall /\ q.at - lastCall[q.key] < q.spacing

(* allow; a rejected call leaves the older time.                            *)
Decide(c) ==
    /\ call[c] # Free
    /\ call' = [call EXCEPT ![c] = Free]
    /\ LET q == call[c] IN
       IF TooSoon(q) THEN UNCHANGED <<lastCall, accepted>>
       ELSE /\ \E room \in Room(q.key, q.at) :
                  lastCall' = [k \in DOMAIN room \cup {q.key} |->
                                  IF k = q.key THEN q.at ELSE room[k]]
            /\ accepted' = Append(accepted, q)
    /\ UNCHANGED now

RpcNext ==
    \/ RpcTick \/ PruneCalls
    \/ \E c \in Callers :
          \/ \E k \in Keys, s \in Spacings : Arrive(c, k, s)
          \/ Decide(c)

RpcSpec == RpcInit /\ [][RpcNext]_rpcVars
-----------------------------------------------------------------------------
(* Two accepted calls of a key keep the gap the later one declares, unless  *)
(* so many other keys came meanwhile, or so shortly before that their calls *)
(* may have waited for the lock, that the map had to drop this one: neither *)
(* the order of the lock, nor rejected calls, nor the cleanup lift the      *)
(* limit (rpc_limit.go:16, 51, 80).                                         *)
PaceHeld ==
    /\ Cardinality(DOMAIN lastCall) <= MaxKeys
    /\ \A j \in DOMAIN accepted : \A i \in 1..(j - 1) :
          accepted[i].key = accepted[j].key =>
             \/ accepted[j].at - accepted[i].at >= accepted[j].spacing
             \/ Cardinality({accepted[e].key : e \in {d \in 1..(j - 1) :
                   accepted[d].at + MaxWait >= accepted[i].at /\ accepted[d].key # accepted[i].key}})
                 >= MaxKeys
=============================================================================
