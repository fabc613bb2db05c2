----------------------------- MODULE LoginLimit -----------------------------
(***************************************************************************)
(* The limiter of login attempts and of registrations (loginLimiter in     *)
(* internal/server/security.go): a window per client address that begins   *)
(* with its first attempt, in a map of bounded size.                       *)
(***************************************************************************)
EXTENDS Integers, Sequences, FiniteSets

CONSTANTS Addresses,   \* client addresses
          Attempts,    \* attempts per window (10)
          Window,      \* its length (5 minutes)
          MaxAddresses,\* maxLoginClients
          MaxClock     \* bound: time

ASSUME LoginLimitAssumption ==
    /\ Attempts \in Nat \ {0} /\ Window \in Nat \ {0}
    /\ MaxAddresses \in Nat \ {0} /\ MaxClock \in Nat

VARIABLES clock,
          windows,   \* loginLimiter.clients: address -> [count, expires]
          admitted   \* history: when attempts were admitted, since the window was evicted

loginVars == <<clock, windows, admitted>>

LoginInit ==
    /\ clock = 0
    /\ windows = <<>>
    /\ admitted = [a \in Addresses |-> <<>>]

Only(ws, S) == [a \in DOMAIN ws \cap S |-> ws[a]]
Open(ws) == {a \in DOMAIN ws : clock < ws[a].expires}

LoginTick ==
    /\ clock < MaxClock
    /\ clock' = clock + 1
    /\ UNCHANGED <<windows, admitted>>

(* pruneExpired, every 15 minutes.                                          *)
PruneWindows ==
    /\ Open(windows) # DOMAIN windows
    /\ windows' = Only(windows, Open(windows))
    /\ UNCHANGED <<clock, admitted>>

(* Room for one address more: expired windows go, else one that expires     *)
(* first.                                                                   *)
Evictions(ws) ==
    IF Cardinality(DOMAIN ws) < MaxAddresses THEN {{}}
    ELSE IF Cardinality(Open(ws)) < MaxAddresses THEN {DOMAIN ws \ Open(ws)}
    ELSE {{a} : a \in {b \in DOMAIN ws : \A c \in DOMAIN ws : ws[b].expires <= ws[c].expires}}

(* The count a new window of a begins with: an expired window leaves its    *)
(* own.                                                                     *)
Inherited(a) == IF a \in DOMAIN windows THEN windows[a].count ELSE 0

Answer(a, count, expires, ws, gone) ==
    /\ IF count < Attempts
       THEN /\ windows' = [b \in DOMAIN ws \cup {a} |->
                             IF b = a THEN [count |-> count + 1, expires |-> expires] ELSE ws[b]]
            /\ admitted' = [b \in Addresses |-> IF b \in gone \cap Open(windows) THEN <<>>
                                                ELSE IF b = a THEN Append(admitted[a], clock)
                                                ELSE admitted[b]]
       ELSE /\ windows' = ws
            /\ admitted' = [b \in Addresses |-> IF b \in gone \cap Open(windows)
                                                THEN <<>> ELSE admitted[b]]
    /\ UNCHANGED clock

(* allow, with a window that is not over, ...                               *)
Attempt(a) ==
    /\ a \in Open(windows)
    /\ Answer(a, windows[a].count, windows[a].expires, windows, {})

\* Mutant: an attempt after the window is not counted into the next one.
FirstAttemptUncounted(a) ==
    /\ a \notin Open(windows)
    /\ LET ws == Only(windows, Addresses \ {a}) IN
       \E gone \in Evictions(ws) :
          Answer(a, -1, clock + Window, Only(ws, Addresses \ gone), gone)

(* ... and without one.                                                     *)
FirstAttempt(a) ==
    /\ a \notin Open(windows)
    /\ LET ws == Only(windows, Addresses \ {a}) IN
       \E gone \in Evictions(ws) :
          Answer(a, Inherited(a), clock + Window, Only(ws, Addresses \ gone), gone)

LoginNext == \/ LoginTick
             \/ PruneWindows
             \/ \E a \in Addresses : Attempt(a) \/ FirstAttempt(a)

LoginSpec == LoginInit /\ [][LoginNext]_loginVars
-----------------------------------------------------------------------------
(* Windows begin when their address comes back, so one address may pass     *)
(* twice the limit in little time, but never more: of more attempts than    *)
(* that, the first and the last are a window apart, unless the address was  *)
(* evicted between them.  The map keeps its bound (security.go:155).        *)
AttemptsBounded ==
    /\ Cardinality(DOMAIN windows) <= MaxAddresses
    /\ \A a \in Addresses : \A i \in 1..(Len(admitted[a]) - 2 * Attempts) :
          admitted[a][i + 2 * Attempts] >= admitted[a][i] + Window

(* What the documentation promises: an address passes no more than the      *)
(* limit in the length of a window (operations.md:80, for registrations).   *)
(* Windows are fixed, so the code does not keep it (security.go:165).       *)
AttemptsPerWindow ==
    \A a \in Addresses : \A i \in 1..(Len(admitted[a]) - Attempts) :
        admitted[a][i + Attempts] >= admitted[a][i] + Window
=============================================================================
