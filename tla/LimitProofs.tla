---------------------------- MODULE LimitProofs ----------------------------
(***************************************************************************)
(* Proofs about the two limiters of requests: the attempts to log in of an *)
(* address, and the calls of a key.                                        *)
(***************************************************************************)
EXTENDS LoginLimit, RpcLimit, FiniteSetTheorems, TLAPS
-----------------------------------------------------------------------------
(***************************************************************************)
(* Proofs about LoginLimit.  The count of a window bounds the attempts it  *)
(* admitted; those before it, but the last Attempts of them, are a whole   *)
(* window older than it (WindowOK).  An address without a window has only  *)
(* the latter to show, and relative to now (RestedOK).                     *)
(***************************************************************************)

WindowType == [count : 0..Attempts, expires : Nat]

LoginTypeOK ==
    /\ clock \in Nat
    /\ DOMAIN windows \subseteq Addresses /\ IsFiniteSet(DOMAIN windows)
    /\ windows \in [DOMAIN windows -> WindowType]
    /\ admitted \in [Addresses -> Seq(Nat)]

InThePast == \A a \in Addresses : \A i \in 1..Len(admitted[a]) : admitted[a][i] <= clock

WindowOK(w, s) ==
    /\ w.expires <= clock + Window
    /\ \A i \in 1..(Len(s) - w.count) : s[i] + Window <= w.expires
    /\ \A i \in 1..(Len(s) - w.count - Attempts) : s[i] + 2 * Window <= w.expires

RestedOK(s) == \A i \in 1..(Len(s) - Attempts) : s[i] + Window <= clock

Spaced(s) == \A i \in 1..(Len(s) - 2 * Attempts) : s[i + 2 * Attempts] >= s[i] + Window

LoginInv ==
    /\ LoginTypeOK /\ InThePast
    /\ Cardinality(DOMAIN windows) <= MaxAddresses
    /\ \A a \in Addresses :
          /\ a \in DOMAIN windows => WindowOK(windows[a], admitted[a])
          /\ a \notin DOMAIN windows => RestedOK(admitted[a])
          /\ Spaced(admitted[a])
-----------------------------------------------------------------------------
(* A window that is over leaves its address rested.                         *)
LEMMA OverRests ==
    ASSUME clock \in Nat, NEW s \in Seq(Nat), NEW w \in WindowType,
           WindowOK(w, s), w.expires <= clock
    PROVE  RestedOK(s)
  <1> SUFFICES ASSUME NEW i \in 1..(Len(s) - Attempts) PROVE s[i] + Window <= clock
    BY DEF RestedOK
  <1>1. Len(s) \in Nat /\ i \in 1..Len(s) /\ s[i] \in Nat /\ w.count \in 0..Attempts
    BY LoginLimitAssumption DEF WindowType
  <1>2. i \in 1..(Len(s) - w.count) /\ w.expires \in Nat
    BY <1>1, LoginLimitAssumption DEF WindowType
  <1>3. s[i] + Window <= w.expires
    BY <1>2 DEF WindowOK
  <1> QED
    BY <1>1, <1>2, <1>3, LoginLimitAssumption

LEMMA NothingRests == RestedOK(<<>>) /\ Spaced(<<>>)
  <1>1. Len(<<>>) = 0 /\ \A n \in Nat : 1..(0 - n) = {}
    OBVIOUS
  <1> QED
    BY <1>1, LoginLimitAssumption DEF RestedOK, Spaced

(* What an admitted attempt does to the history of its address.             *)
LEMMA Appended ==
    ASSUME clock \in Nat, NEW s \in Seq(Nat), \A i \in 1..Len(s) : s[i] <= clock
    PROVE  LET t == Append(s, clock) IN
           /\ t \in Seq(Nat) /\ Len(t) = Len(s) + 1 /\ Len(s) \in Nat
           /\ t[Len(s) + 1] = clock
           /\ \A i \in 1..Len(s) : t[i] = s[i] /\ s[i] \in Nat
           /\ \A i \in 1..Len(t) : t[i] <= clock
  OBVIOUS

(* The attempt 2 * Attempts ago is a window older, ...                      *)
LEMMA AppendSpaced ==
    ASSUME clock \in Nat, NEW s \in Seq(Nat), \A i \in 1..Len(s) : s[i] <= clock, Spaced(s),
           \A i \in 1..(Len(s) + 1 - 2 * Attempts) : s[i] + Window <= clock
    PROVE  Spaced(Append(s, clock))
  <1> DEFINE t == Append(s, clock)
  <1> SUFFICES ASSUME NEW i \in 1..(Len(t) - 2 * Attempts)
               PROVE  t[i + 2 * Attempts] >= t[i] + Window
    BY DEF Spaced
  <1>1. /\ Len(t) = Len(s) + 1 /\ Len(s) \in Nat /\ t[Len(s) + 1] = clock
        /\ \A k \in 1..Len(s) : t[k] = s[k] /\ s[k] \in Nat
    BY Appended
  <1>2. i \in 1..Len(s) /\ i + 2 * Attempts \in 1..(Len(s) + 1)
    BY <1>1, LoginLimitAssumption
  <1> HIDE DEF t
  <1>3. CASE i + 2 * Attempts = Len(s) + 1
    <2>1. i \in 1..(Len(s) + 1 - 2 * Attempts)
      BY <1>1, <1>2, <1>3, LoginLimitAssumption
    <2> QED
      BY <1>1, <1>2, <1>3, <2>1, LoginLimitAssumption
  <1>4. CASE i + 2 * Attempts # Len(s) + 1
    <2>1. i + 2 * Attempts \in 1..Len(s) /\ i \in 1..(Len(s) - 2 * Attempts)
      <3>1. i \in Nat /\ i >= 1 /\ Attempts \in Nat /\ Len(s) \in Nat
        BY <1>1, <1>2, LoginLimitAssumption
      <3>2. \A n, k \in Nat : k \in 1..(n + 1) /\ k # n + 1 => k <= n
        OBVIOUS
      <3>3. i + 2 * Attempts \in Nat
        BY <3>1
      <3>4. i + 2 * Attempts <= Len(s)
        BY <1>2, <1>4, <3>1, <3>2, <3>3
      <3> QED
        BY <3>1, <3>4
    <2> QED
      BY <1>1, <1>2, <2>1, LoginLimitAssumption DEF Spaced
  <1> QED
    BY <1>3, <1>4

LEMMA EarlierPlaces ==
    \A l, c, a \in Nat, i \in Int :
        /\ i \in 1..((l + 1) - (c + 1) - a) => i \in 1..(l - c - a) /\ i \in 1..l
        /\ c < a /\ i \in 1..(l + 1 - 2 * a) => i \in 1..(l - c - a) /\ i \in 1..l
OBVIOUS

LEMMA WindowOlder ==
    \A x, e, c, w \in Int : x + 2 * w <= e /\ e <= c + w => x + w <= c
OBVIOUS

(* ... in a window that has a place left, ...                               *)
LEMMA AdmitInWindow ==
    ASSUME clock \in Nat, NEW s \in Seq(Nat), \A i \in 1..Len(s) : s[i] <= clock, Spaced(s),
           NEW w \in WindowType, WindowOK(w, s), w.count < Attempts
    PROVE  /\ WindowOK([count |-> w.count + 1, expires |-> w.expires], Append(s, clock))
           /\ Spaced(Append(s, clock))
  <1> DEFINE t == Append(s, clock)
             v == [count |-> w.count + 1, expires |-> w.expires]
  <1>1. /\ Len(t) = Len(s) + 1 /\ Len(s) \in Nat
        /\ \A i \in 1..Len(s) : t[i] = s[i] /\ s[i] \in Nat
    BY Appended
  <1>2. w.count \in Nat /\ w.expires \in Nat /\ v.count = w.count + 1 /\ v.expires = w.expires
    BY DEF WindowType
  <1> HIDE DEF t, v
  <1>3. WindowOK(v, t)
    <2>1. w.expires <= clock + Window
      BY DEF WindowOK
    <2>2. ASSUME NEW i \in 1..(Len(t) - v.count) PROVE t[i] + Window <= v.expires
      <3>1. i \in 1..(Len(s) - w.count) /\ i \in 1..Len(s)
        BY <1>1, <1>2
      <3>2. s[i] + Window <= w.expires
        BY <3>1 DEF WindowOK
      <3> QED
        BY <1>1, <1>2, <3>1, <3>2
    <2>3. ASSUME NEW i \in 1..(Len(t) - v.count - Attempts) PROVE t[i] + 2 * Window <= v.expires
      <3>1. i \in 1..(Len(s) - w.count - Attempts) /\ i \in 1..Len(s)
        <4>1. Attempts \in Nat
          BY LoginLimitAssumption
        <4>2. i \in 1..((Len(s) + 1) - (w.count + 1) - Attempts) /\ i \in Int
          BY <1>1, <1>2
        <4> QED
          BY <1>1, <1>2, <4>1, <4>2, EarlierPlaces
      <3>2. s[i] + 2 * Window <= w.expires
        BY <3>1 DEF WindowOK
      <3> QED
        BY <1>1, <1>2, <3>1, <3>2
    <2> QED
      BY <1>2, <2>1, <2>2, <2>3 DEF WindowOK
  <1>4. ASSUME NEW i \in 1..(Len(s) + 1 - 2 * Attempts) PROVE s[i] + Window <= clock
    <2>1. i \in 1..(Len(s) - w.count - Attempts) /\ i \in 1..Len(s)
      <3>1. Attempts \in Nat
        BY LoginLimitAssumption
      <3> QED
        BY <1>1, <1>2, <3>1, EarlierPlaces
    <2>2. s[i] + 2 * Window <= w.expires /\ w.expires <= clock + Window /\ s[i] \in Nat
      BY <1>1, <2>1 DEF WindowOK
    <2>3. s[i] \in Int /\ w.expires \in Int /\ clock \in Int /\ Window \in Int
      <3>1. Window \in Nat
        BY LoginLimitAssumption
      <3> QED
        BY <1>2, <2>2, <3>1
    <2> QED
      BY <2>2, <2>3, WindowOlder
  <1>5. Spaced(t)
    BY <1>4, AppendSpaced DEF t
  <1> QED
    BY <1>3, <1>5 DEF t, v

(* ... or in a new one, whether it begins with a count of its own or with   *)
(* the count of the window before, which is over.                           *)
LEMMA AdmitInNewWindow ==
    ASSUME clock \in Nat, NEW s \in Seq(Nat), \A i \in 1..Len(s) : s[i] <= clock, Spaced(s),
           NEW c \in 0..Attempts, c < Attempts,
           \A i \in 1..(Len(s) - c - Attempts) : s[i] + Window <= clock,
           \A i \in 1..(Len(s) + 1 - 2 * Attempts) : s[i] + Window <= clock
    PROVE  /\ WindowOK([count |-> c + 1, expires |-> clock + Window], Append(s, clock))
           /\ Spaced(Append(s, clock))
  <1> DEFINE t == Append(s, clock)
             v == [count |-> c + 1, expires |-> clock + Window]
  <1>1. /\ Len(t) = Len(s) + 1 /\ Len(s) \in Nat
        /\ \A i \in 1..Len(s) : t[i] = s[i] /\ s[i] \in Nat
    BY Appended
  <1>2. c \in Nat /\ v.count = c + 1 /\ v.expires = clock + Window
    OBVIOUS
  <1>3. Spaced(t)
    BY AppendSpaced
  <1> HIDE DEF t, v
  <1>4. WindowOK(v, t)
    <2>1. ASSUME NEW i \in 1..(Len(t) - v.count) PROVE t[i] + Window <= v.expires
      <3>1. i \in 1..Len(s)
        BY <1>1, <1>2
      <3>2. t[i] \in Nat /\ t[i] <= clock /\ Window \in Nat
        BY <1>1, <3>1, LoginLimitAssumption
      <3> QED
        BY <1>2, <3>2
    <2>2. ASSUME NEW i \in 1..(Len(t) - v.count - Attempts) PROVE t[i] + 2 * Window <= v.expires
      <3>1. i \in 1..Len(s) /\ i \in 1..(Len(s) - c - Attempts)
        BY <1>1, <1>2, LoginLimitAssumption
      <3>2. t[i] + Window <= clock /\ t[i] \in Nat
        BY <1>1, <3>1
      <3> QED
        BY <1>2, <3>2, LoginLimitAssumption
    <2> QED
      BY <1>2, <2>1, <2>2, LoginLimitAssumption DEF WindowOK
  <1> QED
    BY <1>3, <1>4 DEF t, v
-----------------------------------------------------------------------------
LEMMA LoginInitInv == LoginInit => LoginInv
  <1> SUFFICES ASSUME LoginInit PROVE LoginInv
    OBVIOUS
  <1>1. /\ clock = 0 /\ DOMAIN windows = {} /\ windows = <<>>
        /\ \A a \in Addresses : admitted[a] = <<>>
        /\ admitted \in [Addresses -> Seq(Nat)]
    BY DEF LoginInit
  <1>2. Cardinality(DOMAIN windows) = 0 /\ IsFiniteSet(DOMAIN windows)
    BY <1>1, FS_EmptySet
  <1>3. windows \in [DOMAIN windows -> WindowType]
    BY <1>1
  <1>4. LoginTypeOK
    BY <1>1, <1>2, <1>3 DEF LoginTypeOK
  <1>5. InThePast
    <2>1. 1..Len(<<>>) = {}
      OBVIOUS
    <2> QED
      BY <1>1, <2>1 DEF InThePast
  <1> QED
    BY <1>1, <1>2, <1>4, <1>5, NothingRests, LoginLimitAssumption DEF LoginInv

LEMMA TickStep == ASSUME LoginInv, LoginTick PROVE LoginInv'
  <1>1. clock \in Nat /\ clock' = clock + 1 /\ windows' = windows /\ admitted' = admitted
    BY DEF LoginTick, LoginInv, LoginTypeOK
  <1>2. ASSUME NEW a \in Addresses
        PROVE  \A i \in 1..Len(admitted[a]) : admitted[a][i] \in Nat
    BY DEF LoginInv, LoginTypeOK
  <1>3. LoginTypeOK'
    BY <1>1 DEF LoginInv, LoginTypeOK
  <1>4. InThePast'
    BY <1>1, <1>2 DEF LoginInv, InThePast
  <1>5. ASSUME NEW a \in DOMAIN windows PROVE WindowOK(windows[a], admitted[a])'
    <2>1. windows[a].expires \in Nat /\ a \in Addresses
      BY DEF LoginInv, LoginTypeOK, WindowType
    <2> QED
      BY <1>1, <2>1, LoginLimitAssumption DEF LoginInv, WindowOK
  <1>6. ASSUME NEW a \in Addresses, a \notin DOMAIN windows PROVE RestedOK(admitted[a])'
    <2> SUFFICES ASSUME NEW i \in 1..(Len(admitted[a]) - Attempts)
                 PROVE  admitted[a][i] + Window <= clock + 1
      BY <1>1 DEF RestedOK
    <2>1. i \in 1..Len(admitted[a]) /\ Len(admitted[a]) \in Nat
      BY LoginLimitAssumption DEF LoginInv, LoginTypeOK
    <2>2. admitted[a][i] + Window <= clock
      BY <1>6 DEF LoginInv, RestedOK
    <2> QED
      BY <1>1, <1>2, <2>1, <2>2, LoginLimitAssumption
  <1>7. \A a \in Addresses : Spaced(admitted[a])'
    BY <1>1 DEF LoginInv, Spaced
  <1> QED
    BY <1>1, <1>3, <1>4, <1>5, <1>6, <1>7 DEF LoginInv

(* An address whose window is over, or that has none, is rested.            *)
LEMMA ClosedRests ==
    ASSUME LoginInv, NEW a \in Addresses, a \notin Open(windows)
    PROVE  RestedOK(admitted[a])
  <1>1. CASE a \notin DOMAIN windows
    BY <1>1 DEF LoginInv
  <1>2. CASE a \in DOMAIN windows
    <2>1. /\ windows[a] \in WindowType /\ admitted[a] \in Seq(Nat) /\ clock \in Nat
          /\ WindowOK(windows[a], admitted[a])
      BY <1>2 DEF LoginInv, LoginTypeOK
    <2>2. windows[a].expires <= clock
      BY <1>2, <2>1 DEF Open, WindowType
    <2> QED
      BY <2>1, <2>2, OverRests
  <1> QED
    BY <1>1, <1>2

LEMMA OnlyThose ==
    ASSUME NEW ws, NEW S
    PROVE  /\ DOMAIN Only(ws, S) = DOMAIN ws \cap S
           /\ \A a \in DOMAIN ws \cap S : Only(ws, S)[a] = ws[a]
  BY DEF Only

LEMMA PruneStep == ASSUME LoginInv, PruneWindows PROVE LoginInv'
  <1>1. /\ clock' = clock /\ admitted' = admitted
        /\ windows' = [a \in DOMAIN windows \cap Open(windows) |-> windows[a]]
        /\ DOMAIN windows' = Open(windows) /\ Open(windows) \subseteq DOMAIN windows
        /\ \A a \in Open(windows) : windows'[a] = windows[a]
    BY DEF PruneWindows, Open, Only
  <1>2. /\ IsFiniteSet(DOMAIN windows')
        /\ Cardinality(DOMAIN windows') <= MaxAddresses
    <2>1. /\ IsFiniteSet(DOMAIN windows)
          /\ Cardinality(DOMAIN windows) <= MaxAddresses
      BY DEF LoginInv, LoginTypeOK
    <2>2. /\ IsFiniteSet(Open(windows)) /\ Cardinality(Open(windows)) \in Nat
          /\ Cardinality(DOMAIN windows) \in Nat
          /\ Cardinality(Open(windows)) <= Cardinality(DOMAIN windows)
      BY <1>1, <2>1, FS_Subset, FS_CardinalityType
    <2> QED
      BY <1>1, <2>1, <2>2, LoginLimitAssumption
  <1>3. LoginTypeOK'
    BY <1>1, <1>2 DEF LoginInv, LoginTypeOK
  <1>4. InThePast' /\ \A a \in Addresses : Spaced(admitted[a])'
    BY <1>1 DEF LoginInv, InThePast, Spaced
  <1>5. ASSUME NEW a \in DOMAIN windows' PROVE WindowOK(windows[a], admitted[a])'
    <2>1. a \in DOMAIN windows /\ a \in Addresses /\ windows'[a] = windows[a]
      BY <1>1 DEF LoginInv, LoginTypeOK
    <2> QED
      BY <1>1, <2>1 DEF LoginInv, WindowOK
  <1>6. ASSUME NEW a \in Addresses, a \notin DOMAIN windows' PROVE RestedOK(admitted[a])'
    <2>1. RestedOK(admitted[a])
      BY <1>1, <1>6, ClosedRests
    <2> QED
      BY <1>1, <2>1 DEF RestedOK
  <1> QED
    BY <1>2, <1>3, <1>4, <1>5, <1>6 DEF LoginInv
-----------------------------------------------------------------------------
(* An answer, whatever room was made for it: what is gone was over, or its  *)
(* history begins anew.                                                     *)
LEMMA AnswerStep ==
    ASSUME LoginInv, NEW a \in Addresses, NEW count \in 0..Attempts, NEW expires \in Nat,
           NEW ws, NEW gone,
           DOMAIN ws \subseteq DOMAIN windows, ws = [b \in DOMAIN ws |-> windows[b]],
           a \notin gone, DOMAIN ws \cap gone = {},
           \A b \in Open(windows) : b \in DOMAIN ws \/ b \in gone,
           Cardinality(DOMAIN ws \cup {a}) <= MaxAddresses,
           Answer(a, count, expires, ws, gone),
           count < Attempts =>
              /\ WindowOK([count |-> count + 1, expires |-> expires], Append(admitted[a], clock))
              /\ Spaced(Append(admitted[a], clock))
    PROVE  LoginInv'
  <1>1. /\ clock' = clock /\ clock \in Nat
        /\ \A b \in DOMAIN ws : ws[b] = windows[b] /\ b \in Addresses /\ ws[b] \in WindowType
    BY DEF Answer, LoginInv, LoginTypeOK
  <1>2. /\ IsFiniteSet(DOMAIN ws) /\ IsFiniteSet(DOMAIN ws \cup {a})
        /\ Cardinality(DOMAIN ws) <= MaxAddresses
    <2>1. IsFiniteSet(DOMAIN windows)
      BY DEF LoginInv, LoginTypeOK
    <2>2. IsFiniteSet(DOMAIN ws)
      BY <2>1, FS_Subset
    <2>3. IsFiniteSet(DOMAIN ws \cup {a})
      BY <2>2, FS_AddElement
    <2>4. /\ Cardinality(DOMAIN ws) <= Cardinality(DOMAIN ws \cup {a})
          /\ Cardinality(DOMAIN ws) \in Nat /\ Cardinality(DOMAIN ws \cup {a}) \in Nat
      BY <2>2, <2>3, FS_Subset, FS_CardinalityType
    <2> QED
      BY <2>2, <2>3, <2>4, LoginLimitAssumption
  <1>3. ASSUME NEW b \in Addresses PROVE admitted[b] \in Seq(Nat)
    BY DEF LoginInv, LoginTypeOK
  <1>4. \A b \in gone \cap Open(windows) : b \notin DOMAIN ws /\ b # a
    OBVIOUS
  <1>5. \A b \in Addresses : b \in gone \cap Open(windows) => admitted'[b] = <<>>
    BY DEF Answer
  <1>6. \A b \in Addresses \ {a} : b \notin gone \cap Open(windows) => admitted'[b] = admitted[b]
    BY DEF Answer
  (* Of the other addresses, those that keep their window are as before, and *)
  (* those that do not are rested.                                           *)
  <1>7. ASSUME NEW b \in Addresses \ {a}
        PROVE  /\ admitted'[b] \in Seq(Nat)
               /\ \A i \in 1..Len(admitted'[b]) : admitted'[b][i] <= clock
               /\ b \in DOMAIN ws => WindowOK(ws[b], admitted'[b])
               /\ b \notin DOMAIN ws => RestedOK(admitted'[b])
               /\ Spaced(admitted'[b])
    <2>1. CASE b \in gone \cap Open(windows)
      <3>1. admitted'[b] = <<>> /\ b \notin DOMAIN ws
        BY <1>4, <1>5, <2>1
      <3>2. <<>> \in Seq(Nat) /\ 1..Len(<<>>) = {}
        OBVIOUS
      <3> QED
        BY <3>1, <3>2, NothingRests
    <2>2. CASE b \notin gone \cap Open(windows)
      <3>1. admitted'[b] = admitted[b]
        BY <1>6, <2>2
      <3>2. Spaced(admitted[b]) /\ \A i \in 1..Len(admitted[b]) : admitted[b][i] <= clock
        BY DEF LoginInv, InThePast
      <3>3. b \in DOMAIN ws => WindowOK(ws[b], admitted[b])
        BY <1>1 DEF LoginInv
      <3>4. b \notin DOMAIN ws => RestedOK(admitted[b])
        BY <2>2, ClosedRests
      <3> QED
        BY <1>3, <3>1, <3>2, <3>3, <3>4
    <2> QED
      BY <2>1, <2>2
  <1>8. CASE count < Attempts
    <2> DEFINE v == [count |-> count + 1, expires |-> expires]
    <2>1. v \in WindowType
      BY <1>8, LoginLimitAssumption DEF WindowType
    <2>2. WindowOK(v, Append(admitted[a], clock)) /\ Spaced(Append(admitted[a], clock))
      BY <1>8
    <2> HIDE DEF v
    <2>3. /\ windows' = [b \in DOMAIN ws \cup {a} |-> IF b = a THEN v ELSE ws[b]]
          /\ admitted' = [b \in Addresses |-> IF b \in gone \cap Open(windows) THEN <<>>
                                              ELSE IF b = a THEN Append(admitted[a], clock)
                                              ELSE admitted[b]]
      BY <1>8 DEF Answer, v
    <2>4. /\ DOMAIN windows' = DOMAIN ws \cup {a} /\ windows'[a] = v
          /\ \A b \in DOMAIN ws \ {a} : windows'[b] = ws[b]
          /\ admitted'[a] = Append(admitted[a], clock)
          /\ DOMAIN admitted' = Addresses
      BY <1>4, <2>3
    <2>5. /\ admitted'[a] \in Seq(Nat)
          /\ \A i \in 1..Len(admitted'[a]) : admitted'[a][i] <= clock
      BY <1>1, <1>3, <2>4, Appended DEF LoginInv, InThePast
    <2>6. LoginTypeOK'
      <3>1. windows' \in [DOMAIN windows' -> WindowType]
        BY <1>1, <2>1, <2>3
      <3>2. admitted' \in [Addresses -> Seq(Nat)]
        BY <1>7, <2>3, <2>5
      <3>3. DOMAIN windows' \subseteq Addresses
        BY <1>1, <2>4
      <3> QED
        BY <1>1, <1>2, <2>4, <3>1, <3>2, <3>3 DEF LoginTypeOK
    <2>7. InThePast'
      BY <1>1, <1>7, <2>5 DEF InThePast
    <2>8. ASSUME NEW b \in Addresses
          PROVE  /\ b \in DOMAIN windows' => WindowOK(windows'[b], admitted'[b])
                 /\ b \notin DOMAIN windows' => RestedOK(admitted'[b])
                 /\ Spaced(admitted'[b])
      BY <1>7, <2>2, <2>4
    <2> QED
      BY <1>1, <1>2, <2>4, <2>6, <2>7, <2>8 DEF LoginInv, WindowOK, RestedOK, Spaced
  <1>9. CASE ~(count < Attempts)
    <2>1. /\ windows' = ws
          /\ admitted' = [b \in Addresses |-> IF b \in gone \cap Open(windows)
                                              THEN <<>> ELSE admitted[b]]
      BY <1>9 DEF Answer
    <2>2. admitted'[a] = admitted[a] /\ DOMAIN admitted' = Addresses
      BY <1>4, <2>1
    <2>3. ASSUME NEW b \in Addresses
          PROVE  /\ admitted'[b] \in Seq(Nat)
                 /\ \A i \in 1..Len(admitted'[b]) : admitted'[b][i] <= clock
                 /\ b \in DOMAIN ws => WindowOK(ws[b], admitted'[b])
                 /\ b \notin DOMAIN ws => RestedOK(admitted'[b])
                 /\ Spaced(admitted'[b])
      <3>1. CASE b = a
        <4>1. admitted[a] \in Seq(Nat) /\ Spaced(admitted[a])
          BY <1>3 DEF LoginInv
        <4>2. \A i \in 1..Len(admitted[a]) : admitted[a][i] <= clock
          BY DEF LoginInv, InThePast
        <4>3. a \in DOMAIN ws => WindowOK(ws[a], admitted[a])
          BY <1>1 DEF LoginInv
        <4>4. a \notin DOMAIN ws => RestedOK(admitted[a])
          BY ClosedRests
        <4> QED
          BY <2>2, <3>1, <4>1, <4>2, <4>3, <4>4
      <3> QED
        BY <1>7, <3>1
    <2>4. LoginTypeOK'
      <3>1. windows' \in [DOMAIN windows' -> WindowType] /\ DOMAIN windows' \subseteq Addresses
        BY <1>1, <2>1
      <3>2. admitted' \in [Addresses -> Seq(Nat)]
        BY <2>1, <2>3
      <3> QED
        BY <1>1, <1>2, <2>1, <3>1, <3>2 DEF LoginTypeOK
    <2>5. InThePast'
      BY <1>1, <2>3 DEF InThePast
    <2> QED
      BY <1>1, <1>2, <2>1, <2>3, <2>4, <2>5 DEF LoginInv, WindowOK, RestedOK, Spaced
  <1> QED
    BY <1>8, <1>9

LEMMA AttemptStep == ASSUME LoginInv, NEW a \in Addresses, Attempt(a) PROVE LoginInv'
  <1>1. /\ a \in DOMAIN windows /\ windows[a] \in WindowType /\ clock \in Nat
        /\ admitted[a] \in Seq(Nat) /\ Spaced(admitted[a]) /\ WindowOK(windows[a], admitted[a])
        /\ \A i \in 1..Len(admitted[a]) : admitted[a][i] <= clock
    BY DEF Attempt, Open, LoginInv, LoginTypeOK, InThePast
  <1>2. windows[a].count \in 0..Attempts /\ windows[a].expires \in Nat
    BY <1>1 DEF WindowType
  <1>3. windows[a].count < Attempts =>
           /\ WindowOK([count |-> windows[a].count + 1, expires |-> windows[a].expires],
                       Append(admitted[a], clock))
           /\ Spaced(Append(admitted[a], clock))
    BY <1>1, AdmitInWindow
  <1>4. /\ windows = [b \in DOMAIN windows |-> windows[b]]
        /\ Cardinality(DOMAIN windows) <= MaxAddresses /\ DOMAIN windows \cup {a} = DOMAIN windows
        /\ Open(windows) \subseteq DOMAIN windows
    BY <1>1 DEF LoginInv, LoginTypeOK, Open
  <1>5. Answer(a, windows[a].count, windows[a].expires, windows, {})
    BY DEF Attempt
  <1> QED
    BY <1>2, <1>3, <1>4, <1>5, AnswerStep

(* Whatever goes, a place is left.                                          *)
LEMMA EvictionsMakeRoom ==
    ASSUME NEW ws, IsFiniteSet(DOMAIN ws), Cardinality(DOMAIN ws) <= MaxAddresses,
           NEW gone \in Evictions(ws)
    PROVE  gone \subseteq DOMAIN ws /\ Cardinality(DOMAIN ws \ gone) < MaxAddresses
  <1>1. Cardinality(DOMAIN ws) \in Nat
    BY FS_CardinalityType
  <1>2. CASE Cardinality(DOMAIN ws) < MaxAddresses
    <2>1. gone = {} /\ DOMAIN ws \ {} = DOMAIN ws
      BY <1>2 DEF Evictions
    <2> QED
      BY <1>2, <2>1
  <1>3. CASE ~(Cardinality(DOMAIN ws) < MaxAddresses) /\ Cardinality(Open(ws)) < MaxAddresses
    <2>1. gone = DOMAIN ws \ Open(ws) /\ Open(ws) \subseteq DOMAIN ws
      BY <1>3 DEF Evictions, Open
    <2>2. DOMAIN ws \ gone = Open(ws)
      BY <2>1
    <2> QED
      BY <1>3, <2>1, <2>2
  <1>4. CASE ~(Cardinality(DOMAIN ws) < MaxAddresses) /\ ~(Cardinality(Open(ws)) < MaxAddresses)
    <2>1. PICK b \in DOMAIN ws : gone = {b}
      BY <1>4 DEF Evictions
    <2>2. Cardinality(DOMAIN ws \ {b}) = Cardinality(DOMAIN ws) - 1
      BY FS_RemoveElement
    <2> QED
      BY <1>1, <2>1, <2>2, LoginLimitAssumption
  <1> QED
    BY <1>2, <1>3, <1>4

LEMMA FirstAttemptStep == ASSUME LoginInv, NEW a \in Addresses, FirstAttempt(a) PROVE LoginInv'
  <1> DEFINE rest == Only(windows, Addresses \ {a})
  <1>1. /\ a \notin Open(windows) /\ clock \in Nat /\ admitted[a] \in Seq(Nat)
        /\ Spaced(admitted[a]) /\ \A i \in 1..Len(admitted[a]) : admitted[a][i] <= clock
        /\ DOMAIN windows \subseteq Addresses /\ IsFiniteSet(DOMAIN windows)
        /\ Cardinality(DOMAIN windows) <= MaxAddresses
    BY DEF FirstAttempt, LoginInv, LoginTypeOK, InThePast
  <1>2. /\ DOMAIN rest = DOMAIN windows \ {a}
        /\ \A b \in DOMAIN rest : rest[b] = windows[b]
    <2>1. /\ DOMAIN rest = DOMAIN windows \cap (Addresses \ {a})
          /\ \A b \in DOMAIN windows \cap (Addresses \ {a}) : rest[b] = windows[b]
      BY OnlyThose
    <2> HIDE DEF rest
    <2> QED
      BY <1>1, <2>1
  <1>3. IsFiniteSet(DOMAIN rest) /\ Cardinality(DOMAIN rest) <= MaxAddresses
    <2>1. /\ IsFiniteSet(DOMAIN rest)
          /\ Cardinality(DOMAIN rest) <= Cardinality(DOMAIN windows)
      BY <1>1, <1>2, FS_Subset
    <2> QED
      BY <1>1, <2>1, FS_CardinalityType, LoginLimitAssumption
  <1>4. PICK gone \in Evictions(rest) :
           Answer(a, Inherited(a), clock + Window, Only(rest, Addresses \ gone), gone)
    BY DEF FirstAttempt
  <1> DEFINE ws == Only(rest, Addresses \ gone)
  <1>5. gone \subseteq DOMAIN rest /\ Cardinality(DOMAIN rest \ gone) < MaxAddresses
    BY <1>3, EvictionsMakeRoom
  <1>6. /\ DOMAIN ws = DOMAIN rest \ gone
        /\ \A b \in DOMAIN ws : ws[b] = windows[b]
        /\ ws = [b \in DOMAIN ws |-> windows[b]]
    <2>1. DOMAIN ws = DOMAIN rest \ gone /\ \A b \in DOMAIN ws : ws[b] = rest[b]
      <3>1. /\ DOMAIN ws = DOMAIN rest \cap (Addresses \ gone)
            /\ \A b \in DOMAIN rest \cap (Addresses \ gone) : ws[b] = rest[b]
        BY OnlyThose
      <3> HIDE DEF rest, ws
      <3> QED
        BY <1>1, <1>2, <3>1
    <2>2. ws = [b \in DOMAIN ws |-> ws[b]]
      BY DEF Only
    <2> QED
      BY <1>2, <2>1, <2>2
  <1>7. Cardinality(DOMAIN ws \cup {a}) <= MaxAddresses
    <2>1. IsFiniteSet(DOMAIN ws) /\ a \notin DOMAIN ws
      BY <1>2, <1>3, <1>6, FS_Subset
    <2>2. Cardinality(DOMAIN ws \cup {a}) = Cardinality(DOMAIN ws) + 1
      BY <2>1, FS_AddElement
    <2> QED
      BY <1>5, <1>6, <2>1, <2>2, FS_CardinalityType, LoginLimitAssumption
  <1>8. \A b \in Open(windows) : b \in DOMAIN ws \/ b \in gone
    BY <1>1, <1>2, <1>6 DEF Open
  <1>9. a \notin gone /\ DOMAIN ws \cap gone = {} /\ DOMAIN ws \subseteq DOMAIN windows
    BY <1>2, <1>5, <1>6
  <1>10. /\ Inherited(a) \in 0..Attempts
         /\ \A i \in 1..(Len(admitted[a]) - Inherited(a) - Attempts) :
               admitted[a][i] + Window <= clock
         /\ Inherited(a) < Attempts =>
               \A i \in 1..(Len(admitted[a]) + 1 - 2 * Attempts) : admitted[a][i] + Window <= clock
    <2>1. Len(admitted[a]) \in Nat /\ RestedOK(admitted[a])
      BY <1>1, ClosedRests
    <2>2. Inherited(a) \in 0..Attempts
      BY LoginLimitAssumption DEF Inherited, LoginInv, LoginTypeOK, WindowType
    <2>3. ASSUME NEW i \in 1..(Len(admitted[a]) - Inherited(a) - Attempts)
          PROVE  i \in 1..(Len(admitted[a]) - Attempts)
      BY <2>1, <2>2, LoginLimitAssumption
    <2>4. ASSUME NEW i \in 1..(Len(admitted[a]) + 1 - 2 * Attempts)
          PROVE  i \in 1..(Len(admitted[a]) - Attempts)
      BY <2>1, LoginLimitAssumption
    <2> QED
      BY <2>1, <2>2, <2>3, <2>4 DEF RestedOK
  <1> HIDE DEF rest, ws
  <1>11. Inherited(a) < Attempts =>
           /\ WindowOK([count |-> Inherited(a) + 1, expires |-> clock + Window],
                       Append(admitted[a], clock))
           /\ Spaced(Append(admitted[a], clock))
    BY <1>1, <1>10, AdmitInNewWindow
  <1>12. clock + Window \in Nat
    BY <1>1, LoginLimitAssumption
  <1>13. Answer(a, Inherited(a), clock + Window, ws, gone)
    BY <1>4 DEF rest, ws
  <1> QED
    BY <1>6, <1>7, <1>8, <1>9, <1>10, <1>11, <1>12, <1>13, AnswerStep

LEMMA LoginNextInv == LoginInv /\ [LoginNext]_loginVars => LoginInv'
  <1> SUFFICES ASSUME LoginInv, [LoginNext]_loginVars PROVE LoginInv'
    OBVIOUS
  <1>1. CASE UNCHANGED loginVars
    BY <1>1 DEF loginVars, LoginInv, LoginTypeOK, InThePast, WindowOK, RestedOK, Spaced
  <1>2. CASE LoginNext
    BY <1>2, TickStep, PruneStep, AttemptStep, FirstAttemptStep DEF LoginNext
  <1> QED
    BY <1>1, <1>2
-----------------------------------------------------------------------------
(* Whenever windows begin, whatever is evicted, for any number of attempts  *)
(* per window and any length of it: of more than twice the attempts of an   *)
(* address, the first and the last are a window apart; and the map keeps    *)
(* its bound (security.go:155).                                             *)
THEOREM LoginAttemptsBounded == LoginSpec => []AttemptsBounded
  <1>1. LoginInv => AttemptsBounded
    BY DEF LoginInv, Spaced, AttemptsBounded
  <1> QED
    BY <1>1, LoginInitInv, LoginNextInv, PTL DEF LoginSpec
-----------------------------------------------------------------------------
(***************************************************************************)
(* Proofs about RpcLimit.  Of every accepted call the map still knows, or  *)
(* it was dropped for one of two reasons: it is older than any declared    *)
(* gap, or too many other keys were called since (Known).  That the next   *)
(* accepted call of its key keeps its gap follows in each case.            *)
(***************************************************************************)

CallType == [key : Keys, at : Nat, spacing : Spacings]

RpcTypeOK ==
    /\ now \in Nat
    /\ DOMAIN lastCall \subseteq Keys
    /\ lastCall \in [DOMAIN lastCall -> Nat]
    /\ DOMAIN call = Callers
    /\ \A c \in Callers : call[c] # Free => call[c] \in CallType
    /\ accepted \in Seq(CallType)

(* No call waits longer than MaxWait, none comes from the future.           *)
InTime ==
    /\ \A c \in Callers : call[c] # Free => call[c].at <= now /\ now <= call[c].at + MaxWait
    /\ \A i \in 1..Len(accepted) : accepted[i].at <= now

(* The map holds times of accepted calls.                                   *)
Sourced ==
    \A k \in DOMAIN lastCall : \E e \in 1..Len(accepted) :
        accepted[e].key = k /\ accepted[e].at = lastCall[k]

(* The other keys called among the first n calls since q, or shortly before.*)
Others(s, q, n) ==
    {s[e].key : e \in {d \in 1..n : s[d].at + MaxWait >= q.at /\ s[d].key # q.key}}

Known ==
    \A i \in 1..Len(accepted) :
        \/ /\ accepted[i].key \in DOMAIN lastCall
           /\ accepted[i].at <= lastCall[accepted[i].key]
        \/ accepted[i].at + TTL <= now
        \/ Cardinality(Others(accepted, accepted[i], Len(accepted))) >= MaxKeys

Gaps ==
    \A j \in 1..Len(accepted) : \A i \in 1..(j - 1) :
        accepted[i].key = accepted[j].key =>
           \/ accepted[j].at - accepted[i].at >= accepted[j].spacing
           \/ Cardinality(Others(accepted, accepted[i], j - 1)) >= MaxKeys

RpcInv ==
    /\ RpcTypeOK /\ InTime /\ Sourced /\ Known /\ Gaps
    /\ Cardinality(DOMAIN lastCall) <= MaxKeys
-----------------------------------------------------------------------------
LEMMA RpcInitInv == RpcInit => RpcInv
  <1> SUFFICES ASSUME RpcInit PROVE RpcInv
    OBVIOUS
  <1>1. /\ now = 0 /\ lastCall = <<>> /\ DOMAIN lastCall = {}
        /\ call = [c \in Callers |-> Free] /\ accepted = <<>>
    BY DEF RpcInit
  <1>2. accepted \in Seq(CallType) /\ 1..Len(accepted) = {}
    BY <1>1
  <1>3. Cardinality(DOMAIN lastCall) = 0
    BY <1>1, FS_EmptySet
  <1>4. RpcTypeOK
    BY <1>1, <1>2 DEF RpcTypeOK
  <1>5. InTime /\ Sourced /\ Known /\ Gaps
    BY <1>1, <1>2 DEF InTime, Sourced, Known, Gaps
  <1> QED
    BY <1>3, <1>4, <1>5, RpcLimitAssumption DEF RpcInv

LEMMA AcceptedType ==
    ASSUME RpcInv, NEW i \in 1..Len(accepted)
    PROVE  /\ accepted[i] \in CallType /\ accepted[i].key \in Keys
           /\ accepted[i].at \in Nat /\ accepted[i].spacing \in Nat
  <1>1. accepted[i] \in CallType
    BY DEF RpcInv, RpcTypeOK
  <1> QED
    BY <1>1, RpcLimitAssumption DEF CallType

(* Time passes and calls come in without touching the map.                  *)
LEMMA ClockSteps ==
    ASSUME RpcInv, RpcTick \/ \E c \in Callers, k \in Keys, s \in Spacings : Arrive(c, k, s)
    PROVE  RpcInv'
  <1>1. /\ lastCall' = lastCall /\ accepted' = accepted
        /\ now \in Nat /\ now' \in {now, now + 1}
    BY DEF RpcTick, Arrive, RpcInv, RpcTypeOK
  <1>2. /\ DOMAIN call' = Callers
        /\ \A c \in Callers : call'[c] # Free =>
              call'[c] \in CallType /\ call'[c].at <= now' /\ now' <= call'[c].at + MaxWait
    <2>1. CASE RpcTick
      <3>1. ASSUME NEW c \in Callers, call[c] # Free PROVE call[c].at \in Nat
        BY <3>1 DEF RpcInv, RpcTypeOK, CallType
      <3>2. call' = call /\ now' = now + 1
        BY <2>1 DEF RpcTick
      <3>3. ASSUME NEW c \in Callers, call[c] # Free
            PROVE  call[c].at <= now' /\ now' <= call[c].at + MaxWait
        BY <1>1, <2>1, <3>1, <3>2, <3>3, RpcLimitAssumption DEF RpcTick, RpcInv, InTime
      <3> QED
        BY <3>2, <3>3 DEF RpcInv, RpcTypeOK
    <2>2. CASE \E c \in Callers, k \in Keys, s \in Spacings : Arrive(c, k, s)
      <3>1. PICK c \in Callers, k \in Keys, s \in Spacings : Arrive(c, k, s)
        BY <2>2
      <3>2. /\ [key |-> k, at |-> now, spacing |-> s] \in CallType
            /\ now' = now /\ now <= now + MaxWait
            /\ call' = [call EXCEPT ![c] = [key |-> k, at |-> now, spacing |-> s]]
        BY <1>1, <3>1, RpcLimitAssumption DEF Arrive, CallType
      <3> QED
        BY <1>1, <3>2 DEF RpcInv, RpcTypeOK, InTime
    <2> QED
      BY <2>1, <2>2
  <1>3. \A i \in 1..Len(accepted) : accepted[i].at \in Nat
    BY AcceptedType
  <1>4. RpcTypeOK' /\ InTime'
    BY <1>1, <1>2, <1>3 DEF RpcInv, RpcTypeOK, InTime
  <1>5. Sourced' /\ Gaps'
    BY <1>1 DEF RpcInv, Sourced, Gaps
  <1>6. Known'
    BY <1>1, <1>3, RpcLimitAssumption DEF RpcInv, Known
  <1> QED
    BY <1>1, <1>4, <1>5, <1>6 DEF RpcInv

LEMMA MapFinite ==
    ASSUME RpcInv
    PROVE  /\ IsFiniteSet(DOMAIN lastCall) /\ Cardinality(DOMAIN lastCall) \in Nat
           /\ \A S \in SUBSET DOMAIN lastCall :
                 /\ IsFiniteSet(S) /\ Cardinality(S) \in Nat
                 /\ Cardinality(S) <= Cardinality(DOMAIN lastCall)
  <1>1. IsFiniteSet(DOMAIN lastCall)
    BY RpcLimitAssumption, FS_Subset DEF RpcInv, RpcTypeOK
  <1> QED
    BY <1>1, FS_Subset, FS_CardinalityType

LEMMA CallsPruned == ASSUME RpcInv, PruneCalls PROVE RpcInv'
  <1>1. /\ now' = now /\ call' = call /\ accepted' = accepted
        /\ lastCall' = Younger(now)
    BY DEF PruneCalls
  <1>2. /\ DOMAIN lastCall' = {k \in DOMAIN lastCall : now - lastCall[k] < TTL}
        /\ \A k \in DOMAIN lastCall' : lastCall'[k] = lastCall[k]
        /\ lastCall' = [k \in DOMAIN lastCall' |-> lastCall[k]]
    BY <1>1 DEF Younger
  <1>3. Cardinality(DOMAIN lastCall') <= MaxKeys
    <2>1. /\ Cardinality(DOMAIN lastCall') <= Cardinality(DOMAIN lastCall)
          /\ Cardinality(DOMAIN lastCall') \in Nat /\ Cardinality(DOMAIN lastCall) \in Nat
      BY <1>2, MapFinite
    <2> QED
      BY <2>1, RpcLimitAssumption DEF RpcInv
  <1>4. RpcTypeOK'
    BY <1>1, <1>2 DEF RpcInv, RpcTypeOK
  <1>5. InTime' /\ Gaps'
    BY <1>1 DEF RpcInv, InTime, Gaps
  <1>6. Sourced'
    BY <1>1, <1>2 DEF RpcInv, Sourced
  <1>7. Known'
    <2> SUFFICES ASSUME NEW i \in 1..Len(accepted),
                        accepted[i].key \in DOMAIN lastCall,
                        accepted[i].at <= lastCall[accepted[i].key],
                        accepted[i].key \notin DOMAIN lastCall'
                 PROVE  accepted[i].at + TTL <= now
      BY <1>1, <1>2 DEF RpcInv, Known
    <2>1. /\ lastCall[accepted[i].key] \in Nat /\ accepted[i].at \in Nat /\ now \in Nat
          /\ ~(now - lastCall[accepted[i].key] < TTL)
      BY <1>2, AcceptedType DEF RpcInv, RpcTypeOK
    <2> QED
      BY <2>1, RpcLimitAssumption
  <1> QED
    BY <1>3, <1>4, <1>5, <1>6, <1>7 DEF RpcInv
-----------------------------------------------------------------------------
(* What making room for k leaves, and why what is gone may go.              *)
LEMMA RoomLeft ==
    ASSUME RpcInv, NEW k \in Keys, NEW t \in Nat, NEW room \in Room(k, t)
    PROVE  /\ DOMAIN room \subseteq DOMAIN lastCall
           /\ \A j \in DOMAIN room : room[j] = lastCall[j]
           /\ Cardinality(DOMAIN room \cup {k}) <= MaxKeys
           /\ \A j \in DOMAIN lastCall \ DOMAIN room :
                 \/ t - lastCall[j] >= TTL
                 \/ /\ k \notin DOMAIN lastCall /\ Cardinality(DOMAIN lastCall) = MaxKeys
                    /\ \A m \in DOMAIN lastCall : lastCall[j] <= lastCall[m]
  <1>1. /\ IsFiniteSet(DOMAIN lastCall) /\ Cardinality(DOMAIN lastCall) \in Nat
        /\ Cardinality(DOMAIN lastCall) <= MaxKeys /\ MaxKeys \in Nat \ {0}
        /\ \A j \in DOMAIN lastCall : lastCall[j] \in Nat
    BY MapFinite, RpcLimitAssumption DEF RpcInv, RpcTypeOK
  <1>2. ASSUME NEW S \in SUBSET DOMAIN lastCall, Cardinality(S) < MaxKeys
        PROVE  Cardinality(S \cup {k}) <= MaxKeys
    <2>1. IsFiniteSet(S) /\ Cardinality(S) \in Nat
      BY MapFinite
    <2>2. Cardinality(S \cup {k}) \in {Cardinality(S), Cardinality(S) + 1}
      BY <2>1, FS_AddElement
    <2> QED
      BY <1>1, <1>2, <2>1, <2>2
  <1>3. CASE k \in DOMAIN lastCall
    <2>1. room = lastCall /\ DOMAIN lastCall \cup {k} = DOMAIN lastCall
      BY <1>3 DEF Room
    <2> QED
      BY <1>1, <2>1
  <1>4. CASE k \notin DOMAIN lastCall /\ Cardinality(DOMAIN lastCall) < MaxKeys
    <2>1. room = lastCall
      BY <1>4 DEF Room
    <2> QED
      BY <1>2, <1>4, <2>1
  <1>5. CASE /\ k \notin DOMAIN lastCall /\ ~(Cardinality(DOMAIN lastCall) < MaxKeys)
             /\ Cardinality(DOMAIN Younger(t)) < MaxKeys
    <2>1. room = Younger(t)
      BY <1>5 DEF Room
    <2>2. /\ DOMAIN room = {j \in DOMAIN lastCall : t - lastCall[j] < TTL}
          /\ \A j \in DOMAIN room : room[j] = lastCall[j]
      BY <2>1 DEF Younger
    <2>3. \A j \in DOMAIN lastCall \ DOMAIN room : t - lastCall[j] >= TTL
      BY <1>1, <2>2, RpcLimitAssumption
    <2> QED
      BY <1>2, <1>5, <2>1, <2>2, <2>3
  <1>6. CASE /\ k \notin DOMAIN lastCall /\ ~(Cardinality(DOMAIN lastCall) < MaxKeys)
             /\ ~(Cardinality(DOMAIN Younger(t)) < MaxKeys)
    <2>1. PICK o \in {i \in DOMAIN lastCall : \A j \in DOMAIN lastCall : lastCall[i] <= lastCall[j]} :
             room = [j \in DOMAIN lastCall \ {o} |-> lastCall[j]]
      BY <1>6 DEF Room
    <2>2. Cardinality(DOMAIN lastCall \ {o}) = Cardinality(DOMAIN lastCall) - 1
      BY <1>1, FS_RemoveElement
    <2>3. /\ Cardinality(DOMAIN lastCall) = MaxKeys
          /\ Cardinality(DOMAIN lastCall \ {o}) < MaxKeys
      BY <1>1, <1>6, <2>2
    <2>4. /\ DOMAIN room = DOMAIN lastCall \ {o}
          /\ \A j \in DOMAIN room : room[j] = lastCall[j]
      BY <2>1
    <2>5. Cardinality(DOMAIN room \cup {k}) <= MaxKeys
      BY <1>2, <2>3, <2>4
    <2> QED
      BY <1>6, <2>1, <2>3, <2>4, <2>5
  <1> QED
    BY <1>3, <1>4, <1>5, <1>6

(* A rejected call leaves no trace.                                         *)
LEMMA Rejected ==
    ASSUME RpcInv, NEW c \in Callers, Decide(c), TooSoon(call[c])
    PROVE  RpcInv'
  <1>1. /\ UNCHANGED <<now, lastCall, accepted>>
        /\ call' = [call EXCEPT ![c] = Free]
    BY DEF Decide
  <1>2. RpcTypeOK' /\ InTime'
    BY <1>1 DEF RpcInv, RpcTypeOK, InTime
  <1> QED
    BY <1>1, <1>2 DEF RpcInv, Sourced, Known, Gaps

(* More calls, more other keys.                                             *)
LEMMA OthersGrow ==
    ASSUME RpcInv, NEW q \in CallType, NEW p \in CallType, NEW n \in 0..Len(accepted)
    PROVE  LET s == Append(accepted, q) IN
           /\ Others(s, p, n) = Others(accepted, p, n)
           /\ Others(s, p, n) \subseteq Others(s, p, Len(accepted) + 1)
           /\ \A m \in 0..(Len(accepted) + 1) :
                 /\ Others(s, p, m) \subseteq Keys
                 /\ IsFiniteSet(Others(s, p, m)) /\ Cardinality(Others(s, p, m)) \in Nat
           /\ Cardinality(Others(s, p, n)) <= Cardinality(Others(s, p, Len(accepted) + 1))
  <1> DEFINE s == Append(accepted, q)
  <1>1. /\ accepted \in Seq(CallType) /\ s \in Seq(CallType) /\ Len(accepted) \in Nat
        /\ Len(s) = Len(accepted) + 1
        /\ \A d \in 1..n : d \in 1..Len(accepted) /\ s[d] = accepted[d]
    BY DEF RpcInv, RpcTypeOK
  <1> HIDE DEF s
  <1>2. Others(s, p, n) = Others(accepted, p, n)
    BY <1>1 DEF Others
  <1>3. Others(s, p, n) \subseteq Others(s, p, Len(accepted) + 1)
    <2>1. 1..n \subseteq 1..(Len(accepted) + 1)
      BY <1>1
    <2> QED
      BY <2>1 DEF Others
  <1>4. ASSUME NEW m \in 0..(Len(accepted) + 1)
        PROVE  Others(s, p, m) \subseteq Keys
    <2>1. \A d \in 1..m : d \in 1..Len(s)
      BY <1>1
    <2>2. ASSUME NEW d \in 1..m PROVE s[d].key \in Keys
      <3>1. s[d] \in CallType
        BY <1>1, <2>1
      <3> QED
        BY <3>1 DEF CallType
    <2> QED
      BY <2>2 DEF Others
  <1>5. ASSUME NEW m \in 0..(Len(accepted) + 1)
        PROVE  IsFiniteSet(Others(s, p, m)) /\ Cardinality(Others(s, p, m)) \in Nat
    BY <1>4, RpcLimitAssumption, FS_Subset, FS_CardinalityType
  <1>6. Cardinality(Others(s, p, n)) <= Cardinality(Others(s, p, Len(accepted) + 1))
    <2>1. IsFiniteSet(Others(s, p, Len(accepted) + 1))
      BY <1>1, <1>5
    <2> QED
      BY <1>3, <2>1, FS_Subset
  <1> QED
    BY <1>2, <1>3, <1>4, <1>5, <1>6 DEF s

LEMMA LateEnough ==
    \A p, q, n, s, wait, life \in Int :
        p + life <= n /\ n <= q + wait /\ life >= s + wait => q - p >= s
OBVIOUS

LEMMA Accepted ==
    ASSUME RpcInv, NEW c \in Callers, Decide(c), ~TooSoon(call[c])
    PROVE  RpcInv'
  <1> DEFINE q == call[c]
             n == Len(accepted)
  <1>1. /\ q \in CallType /\ q.key \in Keys /\ q.at \in Nat /\ q.spacing \in Nat
        /\ q.at <= now /\ now <= q.at + MaxWait /\ now \in Nat /\ n \in Nat
        /\ MaxWait \in Nat /\ TTL \in Nat /\ MaxKeys \in Nat
    <2>1. q \in CallType /\ q.at <= now /\ now <= q.at + MaxWait /\ now \in Nat /\ n \in Nat
      BY DEF Decide, RpcInv, RpcTypeOK, InTime
    <2> QED
      BY <2>1, RpcLimitAssumption DEF CallType
  <1>2. PICK room \in Room(q.key, q.at) :
           lastCall' = [k \in DOMAIN room \cup {q.key} |-> IF k = q.key THEN q.at ELSE room[k]]
    BY DEF Decide
  <1>3. /\ now' = now /\ call' = [call EXCEPT ![c] = Free] /\ accepted' = Append(accepted, q)
    BY DEF Decide
  <1>4. q.key \in DOMAIN lastCall => q.at - lastCall[q.key] >= q.spacing
    BY <1>1 DEF TooSoon, RpcInv, RpcTypeOK
  <1> HIDE DEF q
  <1>5. /\ accepted' \in Seq(CallType) /\ Len(accepted') = n + 1 /\ accepted'[n + 1] = q
        /\ \A i \in 1..n : accepted'[i] = accepted[i]
    BY <1>1, <1>3 DEF RpcInv, RpcTypeOK
  <1>6. /\ DOMAIN room \subseteq DOMAIN lastCall
        /\ \A j \in DOMAIN room : room[j] = lastCall[j]
        /\ Cardinality(DOMAIN room \cup {q.key}) <= MaxKeys
        /\ \A j \in DOMAIN lastCall \ DOMAIN room :
              \/ q.at - lastCall[j] >= TTL
              \/ /\ q.key \notin DOMAIN lastCall /\ Cardinality(DOMAIN lastCall) = MaxKeys
                 /\ \A m \in DOMAIN lastCall : lastCall[j] <= lastCall[m]
    BY <1>1, RoomLeft
  <1>7. /\ DOMAIN lastCall' = DOMAIN room \cup {q.key} /\ lastCall'[q.key] = q.at
        /\ \A j \in DOMAIN room \ {q.key} : lastCall'[j] = lastCall[j]
    BY <1>2, <1>6
  <1>8. \A j \in DOMAIN lastCall : lastCall[j] \in Nat
    BY DEF RpcInv, RpcTypeOK
  <1>9. RpcTypeOK'
    <2>1. lastCall' \in [DOMAIN lastCall' -> Nat] /\ DOMAIN lastCall' \subseteq Keys
      BY <1>1, <1>2, <1>6, <1>7, <1>8 DEF RpcInv, RpcTypeOK
    <2> QED
      BY <1>1, <1>3, <1>5, <2>1 DEF RpcInv, RpcTypeOK
  <1>10. InTime'
    <2>1. \A i \in 1..(n + 1) : i \in 1..n \/ i = n + 1
      BY <1>1
    <2> QED
      BY <1>1, <1>3, <1>5, <2>1 DEF RpcInv, RpcTypeOK, InTime
  <1>11. Sourced'
    <2> SUFFICES ASSUME NEW k \in DOMAIN lastCall'
                 PROVE  \E e \in 1..(n + 1) : accepted'[e].key = k /\ accepted'[e].at = lastCall'[k]
      BY <1>5 DEF Sourced
    <2>1. CASE k = q.key
      BY <1>1, <1>5, <1>7, <2>1
    <2>2. CASE k # q.key
      <3>1. k \in DOMAIN lastCall /\ lastCall'[k] = lastCall[k]
        BY <1>6, <1>7, <2>2
      <3>2. PICK e \in 1..n : accepted[e].key = k /\ accepted[e].at = lastCall[k]
        BY <3>1 DEF RpcInv, Sourced
      <3>3. e \in 1..(n + 1) /\ accepted'[e] = accepted[e]
        BY <1>1, <1>5
      <3> QED
        BY <3>1, <3>2, <3>3
    <2> QED
      BY <2>1, <2>2
  <1>12. ASSUME NEW i \in 1..n
         PROVE  /\ accepted[i] \in CallType
                /\ Others(accepted', accepted[i], n) = Others(accepted, accepted[i], n)
                /\ IsFiniteSet(Others(accepted', accepted[i], n + 1))
                /\ Cardinality(Others(accepted', accepted[i], n + 1)) \in Nat
                /\ Cardinality(Others(accepted, accepted[i], n)) \in Nat
                /\ Cardinality(Others(accepted, accepted[i], n))
                      <= Cardinality(Others(accepted', accepted[i], n + 1))
    <2>1. accepted[i] \in CallType /\ n \in 0..n /\ n \in 0..(n + 1) /\ n + 1 \in 0..(n + 1)
      BY <1>1, AcceptedType
    <2> QED
      BY <1>1, <1>3, <2>1, OthersGrow
  (* Of the calls the map knew, it still knows all but what it dropped.      *)
  <1>13. Known'
    <2> SUFFICES ASSUME NEW i \in 1..(n + 1)
                 PROVE  \/ /\ accepted'[i].key \in DOMAIN lastCall'
                           /\ accepted'[i].at <= lastCall'[accepted'[i].key]
                        \/ accepted'[i].at + TTL <= now
                        \/ Cardinality(Others(accepted', accepted'[i], n + 1)) >= MaxKeys
      BY <1>3, <1>5 DEF Known
    <2>1. CASE i = n + 1
      BY <1>1, <1>5, <1>7, <2>1
    <2>2. CASE i # n + 1
      <3> DEFINE p == accepted[i]
      <3>1. /\ i \in 1..n /\ accepted'[i] = p /\ p.key \in Keys /\ p.at \in Nat /\ p.at <= now
        BY <1>1, <1>5, <2>2, AcceptedType DEF RpcInv, InTime
      <3>2. CASE p.at + TTL <= now \/ Cardinality(Others(accepted, p, n)) >= MaxKeys
        BY <1>1, <1>12, <3>1, <3>2
      <3>3. CASE p.key \in DOMAIN lastCall /\ p.at <= lastCall[p.key]
        <4>1. CASE p.key = q.key
          <5>1. lastCall[p.key] <= q.at
            BY <1>1, <1>4, <1>8, <3>3, <4>1
          <5>2. p.at <= q.at
            <6>1. lastCall[p.key] \in Nat /\ p.at \in Nat /\ q.at \in Nat
              BY <1>1, <1>8, <3>1, <3>3
            <6> QED
              BY <3>3, <5>1, <6>1
          <5> QED
            BY <1>7, <3>1, <4>1, <5>2
        <4>2. CASE p.key # q.key /\ p.key \in DOMAIN room
          BY <1>7, <3>1, <3>3, <4>2
        <4>3. CASE p.key # q.key /\ q.at - lastCall[p.key] >= TTL
          <5>1. lastCall[p.key] \in Nat /\ p.at <= lastCall[p.key]
            BY <1>8, <3>3
          <5>2. p.at + TTL <= now
            <6> DEFINE a == p.at
                       b == q.at
                       l == lastCall[p.key]
            <6>1. a \in Nat /\ b \in Nat /\ l \in Nat
              BY <1>1, <3>1, <5>1
            <6>2. a <= l /\ b - l >= TTL /\ b <= now
              BY <1>1, <4>3, <5>1
            <6> HIDE DEF a, b, l
            <6>3. a + TTL <= now
              BY <1>1, <6>1, <6>2
            <6> QED
              BY <6>3 DEF a
          <5> QED
            BY <3>1, <5>2
        (* Dropped as the oldest: the other keys and the new one fill the map. *)
        <4>4. CASE /\ p.key # q.key
                   /\ q.key \notin DOMAIN lastCall /\ Cardinality(DOMAIN lastCall) = MaxKeys
                   /\ \A m \in DOMAIN lastCall : lastCall[p.key] <= lastCall[m]
          <5> DEFINE S == (DOMAIN lastCall \ {p.key}) \cup {q.key}
          <5>1. Cardinality(S) = MaxKeys
            <6>1. /\ IsFiniteSet(DOMAIN lastCall \ {p.key})
                  /\ Cardinality(DOMAIN lastCall \ {p.key}) = MaxKeys - 1
              BY <3>3, <4>4, MapFinite, FS_RemoveElement
            <6>2. Cardinality(S) = (MaxKeys - 1) + 1
              BY <4>4, <6>1, FS_AddElement
            <6> QED
              BY <1>1, <6>2
          <5>2. ASSUME NEW k \in S
                PROVE  k \in Others(accepted', p, n + 1)
            <6>1. \E e \in 1..(n + 1) : /\ accepted'[e].key = k
                                        /\ accepted'[e].at + MaxWait >= p.at
              <7>1. CASE k = q.key
                BY <1>1, <1>5, <3>1, <7>1
              <7>2. CASE k # q.key
                <8>1. k \in DOMAIN lastCall /\ lastCall[p.key] <= lastCall[k]
                  BY <4>4, <7>2
                <8>2. PICK e \in 1..n : accepted[e].key = k /\ accepted[e].at = lastCall[k]
                  BY <8>1 DEF RpcInv, Sourced
                <8>3. e \in 1..(n + 1) /\ accepted'[e] = accepted[e]
                  BY <1>1, <1>5
                <8>4. lastCall[k] + MaxWait >= p.at
                  BY <1>1, <1>8, <3>1, <3>3, <8>1
                <8> QED
                  BY <8>2, <8>3, <8>4
              <7> QED
                BY <7>1, <7>2
            <6>2. k # p.key
              BY <4>4
            <6> QED
              BY <6>1, <6>2 DEF Others
          <5>3. Cardinality(S) <= Cardinality(Others(accepted', p, n + 1))
            BY <1>12, <3>1, <5>2, FS_Subset
          <5> QED
            BY <1>1, <1>12, <3>1, <5>1, <5>3
        <4> QED
          BY <1>6, <3>3, <4>1, <4>2, <4>3, <4>4
      <3> QED
        BY <3>1, <3>2, <3>3 DEF RpcInv, Known
    <2> QED
      BY <2>1, <2>2
  (* The new call keeps its gap to each older one of its key.                *)
  <1>14. Gaps'
    <2> SUFFICES ASSUME NEW j \in 1..(n + 1), NEW i \in 1..(j - 1),
                        accepted'[i].key = accepted'[j].key
                 PROVE  \/ accepted'[j].at - accepted'[i].at >= accepted'[j].spacing
                        \/ Cardinality(Others(accepted', accepted'[i], j - 1)) >= MaxKeys
      BY <1>5 DEF Gaps
    <2>1. i \in 1..n /\ accepted'[i] = accepted[i] /\ j - 1 \in 0..n
      BY <1>1, <1>5
    <2>2. CASE j # n + 1
      <3>1. j \in 1..n /\ accepted'[j] = accepted[j]
        BY <1>1, <1>5, <2>2
      <3>2. Others(accepted', accepted[i], j - 1) = Others(accepted, accepted[i], j - 1)
        BY <1>1, <1>3, <1>12, <2>1, OthersGrow
      <3> QED
        BY <2>1, <3>1, <3>2 DEF RpcInv, Gaps
    <2>3. CASE j = n + 1
      <3> DEFINE p == accepted[i]
      <3>1. /\ accepted'[j] = q /\ p.key = q.key /\ j - 1 = n
            /\ p.at \in Nat
        BY <1>1, <1>5, <2>1, <2>3, AcceptedType
      <3>2. CASE Cardinality(Others(accepted, p, n)) >= MaxKeys
        BY <1>12, <2>1, <3>1, <3>2
      <3>3. CASE p.at + TTL <= now
        <4>1. TTL >= q.spacing + MaxWait
          BY <1>1, RpcLimitAssumption DEF CallType
        <4>2. q.at - p.at >= q.spacing
          <5> DEFINE a == p.at
                     b == q.at
                     g == q.spacing
          <5>1. a \in Nat /\ b \in Nat /\ g \in Nat
            BY <1>1, <3>1
          <5>2. a + TTL <= now /\ now <= b + MaxWait /\ TTL >= g + MaxWait
            BY <1>1, <3>3, <4>1
          <5> HIDE DEF a, b, g
          <5>3. b - a >= g
            BY <1>1, <5>1, <5>2, LateEnough
          <5> QED
            BY <5>3 DEF a, b, g
        <4> QED
          BY <2>1, <3>1, <4>2
      <3>4. CASE p.key \in DOMAIN lastCall /\ p.at <= lastCall[p.key]
        <4>1. q.at - lastCall[q.key] >= q.spacing /\ lastCall[q.key] \in Nat
          BY <1>4, <1>8, <3>1, <3>4
        <4> DEFINE a == p.at
                   b == q.at
                   g == q.spacing
                   l == lastCall[q.key]
        <4>2. a \in Nat /\ b \in Nat /\ g \in Nat /\ l \in Nat
          BY <1>1, <3>1, <4>1
        <4>3. a <= l /\ b - l >= g
          BY <3>1, <3>4, <4>1
        <4> HIDE DEF a, b, g, l
        <4>4. b - a >= g
          BY <4>2, <4>3
        <4> QED
          BY <2>1, <3>1, <4>4 DEF a, b, g
      <3> QED
        BY <2>1, <3>2, <3>3, <3>4 DEF RpcInv, Known
    <2> QED
      BY <2>2, <2>3
  <1> QED
    BY <1>6, <1>7, <1>9, <1>10, <1>11, <1>13, <1>14 DEF RpcInv

LEMMA RpcNextInv == RpcInv /\ [RpcNext]_rpcVars => RpcInv'
  <1> SUFFICES ASSUME RpcInv, [RpcNext]_rpcVars PROVE RpcInv'
    OBVIOUS
  <1>1. CASE UNCHANGED rpcVars
    BY <1>1 DEF rpcVars, RpcInv, RpcTypeOK, InTime, Sourced, Known, Gaps
  <1>2. CASE RpcNext
    BY <1>2, ClockSteps, CallsPruned, Rejected, Accepted DEF RpcNext
  <1> QED
    BY <1>1, <1>2
-----------------------------------------------------------------------------
(* For every number of keys, callers and calls, any size of the map and any *)
(* spacings its entries outlive: the pace holds, and the map keeps its      *)
(* bound (rpc_limit.go:16, 51, 80).                                         *)
THEOREM PaceAlwaysHeld == RpcSpec => []PaceHeld
  <1>1. RpcInv => PaceHeld
    <2> SUFFICES ASSUME RpcInv PROVE PaceHeld
      OBVIOUS
    <2>1. DOMAIN accepted = 1..Len(accepted)
      BY DEF RpcInv, RpcTypeOK
    <2> QED
      BY <2>1 DEF RpcInv, Gaps, Others, PaceHeld
  <1> QED
    BY <1>1, RpcInitInv, RpcNextInv, PTL DEF RpcSpec
=============================================================================
