----------------------- MODULE TrafficAccountingProofs -----------------------
(***************************************************************************)
(* Proofs about TrafficAccounting.  The sums of the model are folds over   *)
(* the community modules' MapThenFoldSet: the first parts find what a sum  *)
(* does, by induction over sets written as sets, then what the months and  *)
(* the billing cycles are.  Then come the types, one lemma for what each   *)
(* operation leaves of an account, and the bytes: every report there is    *)
(* was made in the host's past, and an account's days hold no more than    *)
(* was sent when the newest report it charged was made.  The last part is  *)
(* the use of a cycle against its days.                                    *)
(***************************************************************************)
EXTENDS TrafficAccounting, FiniteSetTheorems, WellFoundedInduction, TLAPS

(* Induction over the natural numbers, for sets: the least number outside   *)
(* the set would have a predecessor in it.                                  *)
LEMMA NumbersByInduction ==
    ASSUME NEW S, 0 \in S, \A n \in Nat : n \in S => n + 1 \in S
    PROVE  \A n \in Nat : n \in S
<1> DEFINE T == {n \in Nat : n \notin S}
           Less == {ss \in Nat \X Nat : ss[1] < ss[2]}
<1>1. SUFFICES ASSUME T # {} PROVE FALSE
  BY <1>1
<1>2. IsWellFoundedOn(Less, Nat)
  BY NatLessThanWellFounded DEF OpToRel
<1> HIDE DEF Less
<1>3. T \subseteq Nat
  OBVIOUS
<1>4. \E x \in T : \A y \in T : ~(<<y, x>> \in Less)
  <2> HIDE DEF T
  <2> QED
    BY <1>1, <1>2, <1>3, WFMin
<1>5. PICK x \in T : \A y \in T : ~(<<y, x>> \in Less)
  BY <1>4
<1>6. x \in Nat /\ x # 0 /\ x - 1 \in Nat
  OBVIOUS
<1>7. x - 1 \notin T
  <2>1. <<x - 1, x>> \in Less
    BY <1>6, SMT DEF Less
  <2> QED
    BY <1>5, <2>1
<1>8. x - 1 \in S
  BY <1>6, <1>7
<1> QED
  BY <1>6, <1>8

(* Induction over finite sets, for sets of sets: a set is good when it is   *)
(* so without any of its elements.                                          *)
LEMMA SubsetsByRemoval ==
    ASSUME NEW D, IsFiniteSet(D), NEW Good,
           \A T \in SUBSET D : (\A x \in T : T \ {x} \in Good) => T \in Good
    PROVE  \A T \in SUBSET D : T \in Good
<1> DEFINE S == {n \in Nat : \A T \in SUBSET D : Cardinality(T) = n => T \in Good}
<1>1. \A T \in SUBSET D : IsFiniteSet(T) /\ Cardinality(T) \in Nat
  BY FS_Subset, FS_CardinalityType
<1>2. 0 \in S
  BY <1>1, FS_EmptySet
<1>3. ASSUME NEW n \in Nat, n \in S PROVE n + 1 \in S
  <2> SUFFICES ASSUME NEW T \in SUBSET D, Cardinality(T) = n + 1 PROVE T \in Good
    OBVIOUS
  <2>1. ASSUME NEW x \in T PROVE T \ {x} \in Good
    <3>1. IsFiniteSet(T)
      BY <1>1
    <3>2. Cardinality(T \ {x}) = Cardinality(T) - 1
      BY <2>1, <3>1, FS_RemoveElement
    <3>3. T \ {x} \in SUBSET D /\ Cardinality(T \ {x}) = n
      BY <3>2
    <3> QED
      BY <1>3, <3>3
  <2> QED
    BY <2>1
<1> HIDE DEF S
<1>4. \A n \in Nat : n \in S
  BY <1>2, <1>3, NumbersByInduction
<1> QED
  BY <1>1, <1>4 DEF S
-----------------------------------------------------------------------------
(* Sums.  A fold is the value of a recursive function on the subsets of its *)
(* domain.                                                                  *)
Pick(s) == CHOOSE x \in s : TRUE
SumsUp(g, f, D) == g = [s \in SUBSET D |-> IF s = {} THEN 0 ELSE f[Pick(s)] + g[s \ {Pick(s)}]]

LEMMA TotalIs == ASSUME NEW f PROVE Total(f) = (CHOOSE g : SumsUp(g, f, DOMAIN f))[DOMAIN f]
BY Zenon DEF Total, FoldFunction, FoldFunctionOnSet, MapThenFoldSet, SumsUp, Pick

LEMMA PickIn == \A s : s # {} => Pick(s) \in s
BY DEF Pick

(* The recursion has a solution: level by level.                            *)
LEMMA SumExists ==
    ASSUME NEW D, IsFiniteSet(D), NEW f, \A i \in D : f[i] \in Int
    PROVE  \E g : SumsUp(g, f, D)
<1> DEFINE Upto(n) == {s \in SUBSET D : Cardinality(s) <= n}
           Step(g, s) == IF s = {} THEN 0 ELSE f[Pick(s)] + g[s \ {Pick(s)}]
           N == {n \in Nat : \E g : g = [s \in Upto(n) |-> Step(g, s)]}
<1>1. \A T \in SUBSET D : IsFiniteSet(T) /\ Cardinality(T) \in Nat
  BY FS_Subset, FS_CardinalityType
<1>2. 0 \in N
  <2> DEFINE g == [s \in Upto(0) |-> 0]
  <2>1. \A s \in Upto(0) : s = {}
    BY <1>1, FS_EmptySet
  <2>2. g = [s \in Upto(0) |-> Step(g, s)]
    BY <2>1
  <2> QED
    BY <2>2
<1>3. ASSUME NEW n \in Nat, n \in N PROVE n + 1 \in N
  <2>1. PICK g : g = [s \in Upto(n) |-> Step(g, s)]
    BY <1>3
  <2> DEFINE h == [s \in Upto(n + 1) |-> Step(g, s)]
  <2>2. \A s \in Upto(n + 1) : s # {} => s \ {Pick(s)} \in Upto(n)
    <3> SUFFICES ASSUME NEW s \in Upto(n + 1), s # {} PROVE s \ {Pick(s)} \in Upto(n)
      OBVIOUS
    <3>1. Pick(s) \in s /\ IsFiniteSet(s) /\ Cardinality(s) \in Nat
      BY <1>1, PickIn
    <3>2. Cardinality(s \ {Pick(s)}) = Cardinality(s) - 1
      BY <3>1, FS_RemoveElement
    <3> QED
      BY <3>1, <3>2
  <2>3. \A s \in Upto(n) : h[s] = g[s]
    <3>1. \A s \in Upto(n) : s \in Upto(n + 1)
      BY <1>1
    <3>2. ASSUME NEW s \in Upto(n) PROVE h[s] = g[s]
      <4> HIDE DEF Upto, Step
      <4>1. g[s] = Step(g, s)
        BY <2>1, Zenon
      <4>2. h[s] = Step(g, s)
        BY <3>1
      <4> QED
        BY <4>1, <4>2
    <3> QED
      BY <3>2
  <2>4. \A s \in Upto(n + 1) : Step(g, s) = Step(h, s)
    <3> HIDE DEF Upto, h
    <3> QED
      BY <2>2, <2>3
  <2>5. h = [s \in Upto(n + 1) |-> Step(h, s)]
    <3> HIDE DEF Upto, Step
    <3> QED
      BY <2>4
  <2> HIDE DEF h, Upto, Step
  <2> QED
    BY <2>5
<1>4. \A n \in Nat : n \in N
  <2> HIDE DEF N
  <2> QED
    BY <1>2, <1>3, NumbersByInduction
<1>5. Cardinality(D) \in N
  BY <1>1, <1>4
<1>6. SUBSET D = Upto(Cardinality(D))
  <2>1. \A T \in SUBSET D : Cardinality(T) <= Cardinality(D)
    BY FS_Subset
  <2> QED
    BY <2>1
<1>7. PICK g : g = [s \in SUBSET D |-> Step(g, s)]
  BY <1>5, <1>6
<1> QED
  BY <1>7 DEF SumsUp

(* What the recursion gives: numbers, from any element first, and the same  *)
(* for functions that agree.                                                *)
LEMMA SumStep ==
    ASSUME NEW D, NEW f, NEW g, SumsUp(g, f, D), NEW s \in SUBSET D
    PROVE  g[s] = IF s = {} THEN 0 ELSE f[Pick(s)] + g[s \ {Pick(s)}]
<1> DEFINE Step(t) == IF t = {} THEN 0 ELSE f[Pick(t)] + g[t \ {Pick(t)}]
<1>1. g = [t \in SUBSET D |-> Step(t)]
  BY DEF SumsUp
<1>2. g[s] = Step(s)
  <2> HIDE DEF Step
  <2> QED
    BY <1>1, Zenon
<1> QED
  BY <1>2

LEMMA SumType ==
    ASSUME NEW D, IsFiniteSet(D), NEW f, \A i \in D : f[i] \in Int,
           NEW g, SumsUp(g, f, D)
    PROVE  \A s \in SUBSET D : g[s] \in Int
<1> DEFINE Good == {s \in SUBSET D : g[s] \in Int}
<1>1. ASSUME NEW s \in SUBSET D, \A x \in s : s \ {x} \in Good PROVE s \in Good
  <2>1. CASE s = {}
    BY <2>1, SumStep
  <2>2. CASE s # {}
    <3>1. Pick(s) \in s
      BY <2>2, PickIn
    <3>2. g[s \ {Pick(s)}] \in Int /\ f[Pick(s)] \in Int
      BY <1>1, <3>1
    <3>3. g[s] = f[Pick(s)] + g[s \ {Pick(s)}]
      BY <2>2, SumStep
    <3> QED
      BY <3>2, <3>3
  <2> QED
    BY <2>1, <2>2
<1>2. \A s \in SUBSET D : s \in Good
  <2> HIDE DEF Good
  <2> QED
    BY <1>1, SubsetsByRemoval
<1> QED
  BY <1>2

LEMMA SumAnyFirst ==
    ASSUME NEW D, IsFiniteSet(D), NEW f, \A i \in D : f[i] \in Int,
           NEW g, SumsUp(g, f, D)
    PROVE  \A s \in SUBSET D : \A x \in s : g[s] = f[x] + g[s \ {x}]
<1> DEFINE Good == {s \in SUBSET D : \A x \in s : g[s] = f[x] + g[s \ {x}]}
<1>1. \A s \in SUBSET D : g[s] \in Int
  BY SumType
<1>2. ASSUME NEW s \in SUBSET D, \A x \in s : s \ {x} \in Good PROVE s \in Good
  <2> SUFFICES ASSUME NEW x \in s PROVE g[s] = f[x] + g[s \ {x}]
    OBVIOUS
  <2> DEFINE y == Pick(s)
  <2>1. y \in s
    BY PickIn
  <2>2. g[s] = f[y] + g[s \ {y}]
    BY SumStep
  <2> HIDE DEF y
  <2>3. CASE x = y
    BY <2>2, <2>3
  <2>4. CASE x # y
    <3>1. s \ {y} \in Good /\ s \ {x} \in Good
      BY <1>2, <2>1
    <3>2. g[s \ {y}] = f[x] + g[(s \ {y}) \ {x}]
      BY <2>4, <3>1
    <3>3. g[s \ {x}] = f[y] + g[(s \ {x}) \ {y}]
      BY <2>1, <2>4, <3>1
    <3>4. (s \ {y}) \ {x} = (s \ {x}) \ {y}
      OBVIOUS
    <3>5. g[(s \ {x}) \ {y}] \in Int /\ f[x] \in Int /\ f[y] \in Int
      BY <1>1, <2>1
    <3>6. g[(s \ {y}) \ {x}] = g[(s \ {x}) \ {y}]
      BY <3>4
    <3> DEFINE rest == g[(s \ {x}) \ {y}]
               a == g[s \ {x}]
               b == g[s \ {y}]
    <3>7. b = f[x] + rest /\ a = f[y] + rest /\ g[s] = f[y] + b /\ rest \in Int
      BY <2>2, <3>2, <3>3, <3>5, <3>6
    <3> HIDE DEF rest, a, b
    <3>8. g[s] = f[x] + a
      BY <3>5, <3>7
    <3> QED
      BY <3>8 DEF a
  <2> QED
    BY <2>3, <2>4
<1>3. \A s \in SUBSET D : s \in Good
  <2> HIDE DEF Good
  <2> QED
    BY <1>2, SubsetsByRemoval
<1>5. SUFFICES ASSUME NEW s \in SUBSET D, NEW x \in s PROVE g[s] = f[x] + g[s \ {x}]
  BY Zenon
<1>4. s \in Good
  BY <1>3
<1> QED
  BY <1>4

LEMMA SumAgrees ==
    ASSUME NEW D, IsFiniteSet(D), NEW E \in SUBSET D, NEW f, NEW h,
           \A i \in E : f[i] = h[i],
           NEW g, SumsUp(g, f, D), NEW k, SumsUp(k, h, E)
    PROVE  \A s \in SUBSET E : g[s] = k[s]
<1> DEFINE Good == {s \in SUBSET E : g[s] = k[s]}
<1>0. IsFiniteSet(E)
  BY FS_Subset
<1>a. \A s \in SUBSET D : g[s] = IF s = {} THEN 0 ELSE f[Pick(s)] + g[s \ {Pick(s)}]
  <2> HIDE DEF Good
  <2> QED
    BY SumStep
<1>1. ASSUME NEW s \in SUBSET E, \A x \in s : s \ {x} \in Good PROVE s \in Good
  <2>0. s \in SUBSET D
    OBVIOUS
  <2>1. g[s] = IF s = {} THEN 0 ELSE f[Pick(s)] + g[s \ {Pick(s)}]
    BY <1>a, <2>0
  <2>2. k[s] = IF s = {} THEN 0 ELSE h[Pick(s)] + k[s \ {Pick(s)}]
    BY SumStep
  <2>3. CASE s = {}
    BY <2>1, <2>2, <2>3
  <2>4. CASE s # {}
    <3>1. Pick(s) \in s
      BY <2>4, PickIn
    <3>2. g[s \ {Pick(s)}] = k[s \ {Pick(s)}] /\ f[Pick(s)] = h[Pick(s)]
      BY <1>1, <3>1
    <3> QED
      BY <2>1, <2>2, <2>4, <3>2
  <2> QED
    BY <2>3, <2>4
<1>2. \A s \in SUBSET E : s \in Good
  <2> HIDE DEF Good
  <2> QED
    BY <1>0, <1>1, SubsetsByRemoval
<1> QED
  BY <1>2

(* Total takes some solution.                                               *)
LEMMA TotalSolves ==
    ASSUME NEW f, IsFiniteSet(DOMAIN f), \A i \in DOMAIN f : f[i] \in Int
    PROVE  \E g : SumsUp(g, f, DOMAIN f) /\ Total(f) = g[DOMAIN f]
<1>1. \E g : SumsUp(g, f, DOMAIN f)
  BY SumExists
<1>2. SumsUp(CHOOSE g : SumsUp(g, f, DOMAIN f), f, DOMAIN f)
  BY <1>1, Zenon
<1> QED
  BY <1>2, TotalIs, Zenon
-----------------------------------------------------------------------------
(* The sum of a function over a part of its domain.                         *)
Part(f, s) == Total([i \in s |-> f[i]])

LEMMA PartSolves ==
    ASSUME NEW D, IsFiniteSet(D), NEW f, \A i \in D : f[i] \in Int
    PROVE  \E g : SumsUp(g, f, D) /\ \A s \in SUBSET D : Part(f, s) = g[s]
<1>1. PICK g : SumsUp(g, f, D)
  BY SumExists
<1>2. ASSUME NEW s \in SUBSET D PROVE Part(f, s) = g[s]
  <2> DEFINE h == [i \in s |-> f[i]]
  <2>1. DOMAIN h = s /\ IsFiniteSet(s) /\ \A i \in s : h[i] = f[i] /\ h[i] \in Int
    BY FS_Subset
  <2>2. Part(f, s) = Total(h)
    BY DEF Part
  <2> HIDE DEF h
  <2>3. PICK k : SumsUp(k, h, s) /\ Total(h) = k[s]
    BY <2>1, TotalSolves
  <2>4. g[s] = k[s]
    BY <1>1, <2>1, <2>3, SumAgrees
  <2> QED
    BY <2>2, <2>3, <2>4
<1> QED
  BY <1>1, <1>2

LEMMA PartType ==
    ASSUME NEW D, IsFiniteSet(D), NEW f, \A i \in D : f[i] \in Int
    PROVE  /\ Part(f, D) \in Int
           /\ Part(f, {}) = 0
           /\ \A x \in D : Part(f, D) = f[x] + Part(f, D \ {x})
<1>1. PICK g : SumsUp(g, f, D) /\ \A s \in SUBSET D : Part(f, s) = g[s]
  BY PartSolves
<1>2. Part(f, D) \in Int
  BY <1>1, SumType
<1>3. Part(f, {}) = 0
  BY <1>1, SumStep
<1>4. ASSUME NEW x \in D PROVE Part(f, D) = f[x] + Part(f, D \ {x})
  <2>1. D \in SUBSET D /\ D \ {x} \in SUBSET D
    OBVIOUS
  <2>2. g[D] = f[x] + g[D \ {x}]
    BY <1>1, <2>1, SumAnyFirst
  <2> QED
    BY <1>1, <2>1, <2>2
<1> QED
  BY <1>2, <1>3, <1>4

LEMMA PartIsTotal == ASSUME NEW D, NEW R, NEW f \in [D -> R] PROVE Total(f) = Part(f, D)
BY DEF Part

(* Summed over the same elements: the same, more, or the two together.      *)
LEMMA PartSame ==
    ASSUME NEW D, NEW f, NEW h, \A i \in D : f[i] = h[i]
    PROVE  Part(f, D) = Part(h, D)
<1>1. [i \in D |-> f[i]] = [i \in D |-> h[i]]
  OBVIOUS
<1> QED
  BY <1>1 DEF Part

LEMMA PartFirst ==
    ASSUME NEW D, IsFiniteSet(D), NEW f, \A i \in D : f[i] \in Int, NEW x \in D
    PROVE  /\ Part(f, D) \in Int /\ Part(f, D \ {x}) \in Int
           /\ Part(f, D) = f[x] + Part(f, D \ {x})
<1>1. IsFiniteSet(D \ {x}) /\ \A i \in D \ {x} : f[i] \in Int
  BY FS_Subset
<1>2. Part(f, D \ {x}) \in Int
  BY <1>1, PartType
<1> QED
  BY <1>2, PartType

LEMMA PartMore ==
    ASSUME NEW D, IsFiniteSet(D), NEW f, NEW h,
           \A i \in D : f[i] \in Int /\ h[i] \in Int /\ f[i] <= h[i]
    PROVE  Part(f, D) <= Part(h, D)
<1> DEFINE Good == {T \in SUBSET D : Part(f, T) <= Part(h, T)}
<1>0. \A T \in SUBSET D : IsFiniteSet(T)
  BY FS_Subset
<1>1. ASSUME NEW T \in SUBSET D, \A x \in T : T \ {x} \in Good PROVE T \in Good
  <2>1. CASE T = {}
    <3>1. Part(f, {}) = 0 /\ Part(h, {}) = 0
      BY FS_EmptySet, PartType
    <3> QED
      BY <2>1, <3>1
  <2>2. CASE T # {}
    <3>1. PICK x \in T : TRUE
      BY <2>2
    <3>2. T \ {x} \in Good /\ T \ {x} \in SUBSET D /\ x \in D
      BY <1>1, <3>1
    <3>3. IsFiniteSet(T) /\ \A i \in T : f[i] \in Int /\ h[i] \in Int
      BY <1>0
    <3>4. /\ Part(f, T) \in Int /\ Part(f, T \ {x}) \in Int
          /\ Part(f, T) = f[x] + Part(f, T \ {x})
      BY <3>1, <3>3, PartFirst
    <3>5. /\ Part(h, T) \in Int /\ Part(h, T \ {x}) \in Int
          /\ Part(h, T) = h[x] + Part(h, T \ {x})
      BY <3>1, <3>3, PartFirst
    <3>6. Part(f, T \ {x}) <= Part(h, T \ {x})
      BY <3>2
    <3>7. f[x] \in Int /\ h[x] \in Int /\ f[x] <= h[x]
      BY <3>2
    <3>8. Part(f, T) <= Part(h, T)
      BY <3>4, <3>5, <3>6, <3>7
    <3> QED
      BY <3>8
  <2> QED
    BY <2>1, <2>2
<1>2. \A T \in SUBSET D : T \in Good
  <2> HIDE DEF Good
  <2> QED
    BY <1>1, SubsetsByRemoval
<1>3. D \in Good
  BY <1>2
<1> QED
  BY <1>3

LEMMA PartPlus ==
    ASSUME NEW D, IsFiniteSet(D), NEW f, NEW h, NEW k,
           \A i \in D : f[i] \in Int /\ h[i] \in Int /\ k[i] = f[i] + h[i]
    PROVE  Part(k, D) = Part(f, D) + Part(h, D)
<1> DEFINE Good == {T \in SUBSET D : Part(k, T) = Part(f, T) + Part(h, T)}
<1>0. \A T \in SUBSET D : IsFiniteSet(T)
  BY FS_Subset
<1>1. ASSUME NEW T \in SUBSET D, \A x \in T : T \ {x} \in Good PROVE T \in Good
  <2>1. CASE T = {}
    <3>1. Part(f, {}) = 0 /\ Part(h, {}) = 0 /\ Part(k, {}) = 0
      BY FS_EmptySet, PartType
    <3> QED
      BY <2>1, <3>1
  <2>2. CASE T # {}
    <3>1. PICK x \in T : TRUE
      BY <2>2
    <3>2. T \ {x} \in Good /\ T \ {x} \in SUBSET D /\ x \in D
      BY <1>1, <3>1
    <3>3. IsFiniteSet(T) /\ \A i \in T : f[i] \in Int /\ h[i] \in Int /\ k[i] \in Int
      BY <1>0
    <3>4. /\ Part(f, T) \in Int /\ Part(f, T \ {x}) \in Int
          /\ Part(f, T) = f[x] + Part(f, T \ {x})
      BY <3>1, <3>3, PartFirst
    <3>5. /\ Part(h, T) \in Int /\ Part(h, T \ {x}) \in Int
          /\ Part(h, T) = h[x] + Part(h, T \ {x})
      BY <3>1, <3>3, PartFirst
    <3>6. /\ Part(k, T) \in Int /\ Part(k, T \ {x}) \in Int
          /\ Part(k, T) = k[x] + Part(k, T \ {x})
      BY <3>1, <3>3, PartFirst
    <3>7. Part(k, T \ {x}) = Part(f, T \ {x}) + Part(h, T \ {x})
      BY <3>2
    <3>8. f[x] \in Int /\ h[x] \in Int /\ k[x] = f[x] + h[x]
      BY <3>2
    <3>9. Part(k, T) = Part(f, T) + Part(h, T)
      BY <3>4, <3>5, <3>6, <3>7, <3>8
    <3> QED
      BY <3>9
  <2> QED
    BY <2>1, <2>2
<1>2. \A T \in SUBSET D : T \in Good
  <2> HIDE DEF Good
  <2> QED
    BY <1>1, SubsetsByRemoval
<1>3. D \in Good
  BY <1>2
<1> QED
  BY <1>3

LEMMA PartSplit ==
    ASSUME NEW D, IsFiniteSet(D), NEW E \in SUBSET D, NEW f, \A i \in D : f[i] \in Int
    PROVE  Part(f, D) = Part(f, E) + Part(f, D \ E)
<1> DEFINE Good == {T \in SUBSET D : Part(f, T) = Part(f, T \cap E) + Part(f, T \ E)}
<1>0. \A T \in SUBSET D : IsFiniteSet(T)
  BY FS_Subset
<1>1. ASSUME NEW T \in SUBSET D, \A x \in T : T \ {x} \in Good PROVE T \in Good
  <2>1. CASE T = {}
    <3>1. Part(f, {}) = 0
      BY FS_EmptySet, PartType
    <3>2. T \cap E = {} /\ T \ E = {}
      BY <2>1
    <3>3. Part(f, T \cap E) = 0 /\ Part(f, T \ E) = 0 /\ Part(f, T) = 0
      BY <2>1, <3>1, <3>2
    <3> QED
      BY <3>3
  <2>2. CASE T # {}
    <3>1. PICK x \in T : TRUE
      BY <2>2
    <3>2. T \ {x} \in Good /\ T \ {x} \in SUBSET D /\ x \in D
      BY <1>1, <3>1
    <3>3. IsFiniteSet(T) /\ \A i \in T : f[i] \in Int
      BY <1>0
    <3>4. /\ Part(f, T) \in Int /\ Part(f, T \ {x}) \in Int
          /\ Part(f, T) = f[x] + Part(f, T \ {x})
      BY <3>1, <3>3, PartFirst
    <3>5. Part(f, T \ {x}) = Part(f, (T \ {x}) \cap E) + Part(f, (T \ {x}) \ E)
      BY <3>2
    <3>6. /\ Part(f, (T \ {x}) \cap E) \in Int /\ Part(f, (T \ {x}) \ E) \in Int
      <4>1. (T \ {x}) \cap E \in SUBSET D /\ (T \ {x}) \ E \in SUBSET D
        OBVIOUS
      <4>2. \A U \in SUBSET D : Part(f, U) \in Int
        BY <1>0, PartType
      <4> QED
        BY <4>1, <4>2
    <3>7. f[x] \in Int
      BY <3>2
    <3>a. /\ IsFiniteSet(T \cap E) /\ \A i \in T \cap E : f[i] \in Int
          /\ IsFiniteSet(T \ E) /\ \A i \in T \ E : f[i] \in Int
      <4>1. T \cap E \in SUBSET D /\ T \ E \in SUBSET D
        OBVIOUS
      <4> QED
        BY <1>0, <4>1
    <3>8. CASE x \in E
      <4>1. (T \ {x}) \cap E = (T \cap E) \ {x} /\ (T \ {x}) \ E = T \ E
        BY <3>8
      <4>2. IsFiniteSet(T \cap E) /\ (\A i \in T \cap E : f[i] \in Int) /\ x \in T \cap E
        BY <3>1, <3>a, <3>8
      <4>3. Part(f, T \cap E) = f[x] + Part(f, (T \cap E) \ {x})
        BY <4>2, PartFirst
      <4>4. Part(f, (T \ {x}) \cap E) = Part(f, (T \cap E) \ {x})
            /\ Part(f, (T \ {x}) \ E) = Part(f, T \ E)
        BY <4>1
      <4> DEFINE a == Part(f, (T \ {x}) \cap E)
                 b == Part(f, (T \ {x}) \ E)
      <4>5. a \in Int /\ b \in Int /\ Part(f, T) = f[x] + (a + b)
        BY <3>4, <3>5, <3>6
      <4>6. Part(f, T \cap E) = f[x] + a /\ Part(f, T \ E) = b
        BY <4>3, <4>4
      <4> HIDE DEF a, b
      <4>7. Part(f, T) = Part(f, T \cap E) + Part(f, T \ E)
        BY <3>7, <4>5, <4>6
      <4> QED
        BY <4>7
    <3>9. CASE x \notin E
      <4>1. (T \ {x}) \cap E = T \cap E /\ (T \ {x}) \ E = (T \ E) \ {x}
        BY <3>9
      <4>2. IsFiniteSet(T \ E) /\ (\A i \in T \ E : f[i] \in Int) /\ x \in T \ E
        BY <3>1, <3>a, <3>9
      <4>3. Part(f, T \ E) = f[x] + Part(f, (T \ E) \ {x})
        BY <4>2, PartFirst
      <4>4. Part(f, (T \ {x}) \cap E) = Part(f, T \cap E)
            /\ Part(f, (T \ {x}) \ E) = Part(f, (T \ E) \ {x})
        BY <4>1
      <4> DEFINE a == Part(f, (T \ {x}) \cap E)
                 b == Part(f, (T \ {x}) \ E)
      <4>5. a \in Int /\ b \in Int /\ Part(f, T) = f[x] + (a + b)
        BY <3>4, <3>5, <3>6
      <4>6. Part(f, T \cap E) = a /\ Part(f, T \ E) = f[x] + b
        BY <4>3, <4>4
      <4> HIDE DEF a, b
      <4>7. Part(f, T) = Part(f, T \cap E) + Part(f, T \ E)
        BY <3>7, <4>5, <4>6
      <4> QED
        BY <4>7
    <3> QED
      BY <3>8, <3>9
  <2> QED
    BY <2>1, <2>2
<1>2. \A T \in SUBSET D : T \in Good
  <2> HIDE DEF Good
  <2> QED
    BY <1>1, SubsetsByRemoval
<1>3. D \in Good /\ D \cap E = E
  BY <1>2
<1> QED
  BY <1>3

LEMMA PartNothing ==
    ASSUME NEW D, IsFiniteSet(D), NEW f, \A i \in D : f[i] = 0
    PROVE  Part(f, D) = 0
<1> DEFINE Good == {T \in SUBSET D : Part(f, T) = 0}
<1>0. \A T \in SUBSET D : IsFiniteSet(T)
  BY FS_Subset
<1>1. ASSUME NEW T \in SUBSET D, \A x \in T : T \ {x} \in Good PROVE T \in Good
  <2>1. CASE T = {}
    <3>1. Part(f, {}) = 0
      BY FS_EmptySet, PartType
    <3> QED
      BY <2>1, <3>1
  <2>2. CASE T # {}
    <3>1. PICK x \in T : TRUE
      BY <2>2
    <3>2. T \ {x} \in Good /\ T \ {x} \in SUBSET D /\ x \in D
      BY <1>1, <3>1
    <3>3. IsFiniteSet(T) /\ \A i \in T : f[i] \in Int
      BY <1>0
    <3>4. /\ Part(f, T) \in Int /\ Part(f, T \ {x}) \in Int
          /\ Part(f, T) = f[x] + Part(f, T \ {x})
      BY <3>1, <3>3, PartFirst
    <3>5. Part(f, T \ {x}) = 0 /\ f[x] = 0
      BY <3>2
    <3>6. Part(f, T) = 0
      BY <3>4, <3>5
    <3> QED
      BY <3>6
  <2> QED
    BY <2>1, <2>2
<1>2. \A T \in SUBSET D : T \in Good
  <2> HIDE DEF Good
  <2> QED
    BY <1>1, SubsetsByRemoval
<1>3. D \in Good
  BY <1>2
<1> QED
  BY <1>3

LEMMA PartNatural ==
    ASSUME NEW D, IsFiniteSet(D), NEW f, \A i \in D : f[i] \in Nat
    PROVE  Part(f, D) \in Nat
<1> DEFINE none == [i \in D |-> 0]
<1>1. \A i \in D : none[i] = 0 /\ none[i] \in Int /\ f[i] \in Int /\ none[i] <= f[i]
  OBVIOUS
<1> HIDE DEF none
<1>2. Part(none, D) = 0
  BY <1>1, PartNothing
<1>3. Part(none, D) <= Part(f, D)
  BY <1>1, PartMore
<1>4. Part(f, D) \in Int
  BY <1>1, PartType
<1> QED
  BY <1>2, <1>3, <1>4

LEMMA PartOfLess ==
    ASSUME NEW D, IsFiniteSet(D), NEW E \in SUBSET D, NEW f, \A i \in D : f[i] \in Nat
    PROVE  Part(f, E) <= Part(f, D)
<1>1. Part(f, D) = Part(f, E) + Part(f, D \ E)
  BY PartSplit
<1>2. Part(f, E) \in Nat
  <2>1. IsFiniteSet(E) /\ \A i \in E : f[i] \in Nat
    BY FS_Subset
  <2> QED
    BY <2>1, PartNatural
<1>3. Part(f, D \ E) \in Nat
  <2>1. IsFiniteSet(D \ E) /\ \A i \in D \ E : f[i] \in Nat
    BY FS_Subset
  <2> QED
    BY <2>1, PartNatural
<1> QED
  BY <1>1, <1>2, <1>3

(* Differences add up to the difference of the ends.                        *)
LEMMA PartTelescopes ==
    ASSUME NEW n \in Nat, NEW p, \A i \in 0..(n + 1) : p[i] \in Int,
           NEW f, \A i \in 0..n : f[i] = p[i + 1] - p[i]
    PROVE  Part(f, 0..n) = p[n + 1] - p[0]
<1> DEFINE S == {k \in Nat : k <= n => Part(f, 0..k) = p[k + 1] - p[0]}
<1>1. \A k \in Nat : IsFiniteSet(0..k)
  BY FS_Interval
<1>2. \A k \in 0..n : f[k] \in Int
  OBVIOUS
<1>3. 0 \in S
  <2>0. 0..0 = {0} /\ 0 \in 0..n
    OBVIOUS
  <2>1. IsFiniteSet(0..0) /\ (\A i \in 0..0 : f[i] \in Int) /\ 0 \in 0..0
    BY <1>1, <1>2, <2>0
  <2>2. Part(f, 0..0) = f[0] + Part(f, (0..0) \ {0})
    BY <2>1, PartFirst
  <2>3. (0..0) \ {0} = {}
    OBVIOUS
  <2>4. Part(f, {}) = 0
    BY FS_EmptySet, PartType
  <2>5. f[0] = p[1] - p[0] /\ p[0] \in Int /\ p[1] \in Int
    OBVIOUS
  <2>6. Part(f, 0..0) = p[0 + 1] - p[0]
    BY <2>2, <2>3, <2>4, <2>5
  <2> QED
    BY <2>6
<1>4. ASSUME NEW k \in Nat, k \in S PROVE k + 1 \in S
  <2> SUFFICES ASSUME k + 1 <= n PROVE Part(f, 0..(k + 1)) = p[k + 2] - p[0]
    OBVIOUS
  <2>1. IsFiniteSet(0..(k + 1)) /\ (\A i \in 0..(k + 1) : f[i] \in Int) /\ k + 1 \in 0..(k + 1)
    BY <1>1, <1>2
  <2>2. Part(f, 0..(k + 1)) = f[k + 1] + Part(f, (0..(k + 1)) \ {k + 1})
    BY <2>1, PartFirst
  <2>3. (0..(k + 1)) \ {k + 1} = 0..k
    OBVIOUS
  <2>4. Part(f, 0..k) = p[k + 1] - p[0]
    BY <1>4
  <2>5. f[k + 1] = p[k + 2] - p[k + 1] /\ p[0] \in Int /\ p[k + 1] \in Int /\ p[k + 2] \in Int
    OBVIOUS
  <2> QED
    <3> DEFINE a == Part(f, 0..(k + 1))
    <3>1. a = f[k + 1] + (p[k + 1] - p[0])
      BY <2>2, <2>3, <2>4
    <3> HIDE DEF a
    <3>2. a = p[k + 2] - p[0]
      BY <2>5, <3>1
    <3> QED
      BY <3>2 DEF a
<1> HIDE DEF S
<1>5. n \in S
  BY <1>3, <1>4, NumbersByInduction
<1> QED
  BY <1>5 DEF S

-----------------------------------------------------------------------------
(* Days and the calendar.                                                   *)
LEMMA DayBounds ==
    ASSUME NEW k \in Nat \ {0}, NEW t \in Int, NEW d \in Int
    PROVE  /\ t \div k \in Int
           /\ d <= t \div k <=> d * k <= t
           /\ t \div k < d <=> t < d * k
<1> DEFINE q == t \div k
           e == q * k
<1>1. q \in Int /\ e <= t /\ t < e + k
  OBVIOUS
<1>2. \A x, y \in Int : x < y => x * k + k <= y * k
  <2> SUFFICES ASSUME NEW x \in Int, NEW y \in Int, x < y PROVE x * k + k <= y * k
    OBVIOUS
  <2>1. y - x - 1 \in Nat
    OBVIOUS
  <2>2. (y - x - 1) * k >= 0
    BY <2>1
  <2>3. (y - x - 1) * k = y * k - x * k - k
    OBVIOUS
  <2> QED
    BY <2>2, <2>3
<1>3. q < d => e + k <= d * k
  BY <1>1, <1>2
<1>4. d < q => d * k + k <= e
  BY <1>1, <1>2
<1>5. d = q => d * k = e
  OBVIOUS
<1>6. d * k \in Int /\ e \in Int
  BY <1>1
<1> DEFINE p == d * k
<1> HIDE DEF q, e, p
<1>7. (d <= q <=> p <= t) /\ (q < d <=> t < p)
  BY <1>1, <1>3, <1>4, <1>5, <1>6 DEF p
<1> QED
  BY <1>1, <1>7 DEF q, p

LEMMA MonthFacts ==
    /\ Len(Months) \in Nat /\ Len(Months) >= 2
    /\ \A m \in 1..Len(Months) : Months[m] \in Nat \ {0}
    /\ DayLength \in Nat \ {0} /\ KeepDays \in Nat \ {0}
    /\ FirstTime \in Nat /\ LastTime \in Nat /\ FirstTime <= LastTime
    /\ \A r \in ResetDays : r \in Nat \ {0}
<1>1. Len(Months) \in Nat /\ Len(Months) >= 2
  BY TrafficAssumption
<1>2. \A m \in 1..Len(Months) : Months[m] \in Nat \ {0}
  BY TrafficAssumption
<1>3. DayLength \in Nat \ {0} /\ KeepDays \in Nat \ {0}
  BY TrafficAssumption
<1>4. FirstTime \in Nat /\ LastTime \in Nat /\ FirstTime <= LastTime
  BY TrafficAssumption
<1>5. \A r \in ResetDays : r \in Nat \ {0}
  BY TrafficAssumption
<1> QED
  BY <1>1, <1>2, <1>3, <1>4, <1>5

LEMMA FirstDayIs == ASSUME NEW m PROVE FirstDay(m) = Part(Months, 1..(m - 1))
BY DEF FirstDay, Part

LEMMA FirstDayStep ==
    /\ FirstDay(1) = 0
    /\ \A m \in 1..(Len(Months) + 1) : FirstDay(m) \in Nat
    /\ \A m \in 1..Len(Months) : FirstDay(m + 1) = FirstDay(m) + Months[m]
    /\ \A m, k \in 1..(Len(Months) + 1) : m <= k => FirstDay(m) <= FirstDay(k)
<1> DEFINE L == Len(Months)
<1>1. L \in Nat /\ \A i \in 1..L : Months[i] \in Nat
  BY MonthFacts
<1> HIDE DEF L
<1>2. \A m \in 1..(L + 1) : 1..(m - 1) \in SUBSET (1..L) /\ IsFiniteSet(1..(m - 1))
  <2>1. \A m \in 1..(L + 1) : 1..(m - 1) \in SUBSET (1..L)
    BY <1>1
  <2>2. \A m \in 1..(L + 1) : IsFiniteSet(1..(m - 1))
    BY <1>1, FS_Interval
  <2> QED
    BY <2>1, <2>2
<1>3. FirstDay(1) = 0
  <2>1. 1..(1 - 1) = {}
    BY SMT
  <2>2. Part(Months, {}) = 0
    BY FS_EmptySet, PartType
  <2>3. FirstDay(1) = Part(Months, 1..(1 - 1))
    BY FirstDayIs
  <2> QED
    BY <2>1, <2>2, <2>3, Zenon
<1>4. ASSUME NEW m \in 1..(L + 1) PROVE FirstDay(m) \in Nat
  <2>1. IsFiniteSet(1..(m - 1)) /\ \A i \in 1..(m - 1) : Months[i] \in Nat
    BY <1>1, <1>2
  <2>2. Part(Months, 1..(m - 1)) \in Nat
    BY <2>1, PartNatural
  <2> QED
    BY <2>2, FirstDayIs
<1>5. ASSUME NEW m \in 1..L PROVE FirstDay(m + 1) = FirstDay(m) + Months[m]
  <2>1. /\ IsFiniteSet(1..m) /\ (\A i \in 1..m : Months[i] \in Int) /\ m \in 1..m
        /\ (1..m) \ {m} = 1..(m - 1)
    BY <1>1, FS_Interval
  <2>2. Part(Months, 1..m) = Months[m] + Part(Months, 1..(m - 1))
    <3> DEFINE D == 1..m
    <3>1. /\ IsFiniteSet(D) /\ (\A i \in D : Months[i] \in Int) /\ m \in D
          /\ D \ {m} = 1..(m - 1)
      BY <2>1
    <3> HIDE DEF D
    <3>2. Part(Months, D) = Months[m] + Part(Months, D \ {m})
      BY <3>1, PartFirst
    <3> QED
      BY <3>1, <3>2, Zenon DEF D
  <2>3. FirstDay(m + 1) = Part(Months, 1..((m + 1) - 1)) /\ FirstDay(m) = Part(Months, 1..(m - 1))
    BY FirstDayIs
  <2>4. (m + 1) - 1 = m
    BY <1>1
  <2>5. FirstDay(m) \in Int /\ Months[m] \in Int
    BY <1>1, <1>4
  <2> QED
    BY <2>2, <2>3, <2>4, <2>5
<1>6. ASSUME NEW m \in 1..(L + 1), NEW k \in 1..(L + 1), m <= k PROVE FirstDay(m) <= FirstDay(k)
  <2>1. 1..(m - 1) \in SUBSET (1..(k - 1))
    BY <1>1, <1>6
  <2>2. IsFiniteSet(1..(k - 1)) /\ \A i \in 1..(k - 1) : Months[i] \in Nat
    BY <1>1, <1>2
  <2>3. Part(Months, 1..(m - 1)) <= Part(Months, 1..(k - 1))
    BY <2>1, <2>2, PartOfLess
  <2> QED
    BY <2>3, FirstDayIs
<1> QED
  BY <1>3, <1>4, <1>5, <1>6 DEF L

(* A time the clock shows lies in a month that has a month before and a     *)
(* month after it.                                                          *)
LEMMA BelievedFacts ==
    ASSUME NEW t \in Believed
    PROVE  t \in Nat /\ FirstDay(2) <= DayOf(t) /\ DayOf(t) < FirstDay(Len(Months)) /\ DayOf(t) \in Nat
<1>1. DayLength \in Nat \ {0} /\ LastTime \in Nat /\ FirstDay(2) \in Nat
      /\ FirstDay(Len(Months)) \in Nat
  BY MonthFacts, FirstDayStep
<1>2. FirstDay(2) * DayLength \in Nat
  BY <1>1
<1>3. t \in Nat /\ FirstDay(2) * DayLength <= t /\ t <= LastTime + 1
  BY <1>1, <1>2 DEF Believed
<1>4. FirstDay(2) <= t \div DayLength
  BY <1>1, <1>3, DayBounds
<1>5. (LastTime + 1) \div DayLength < FirstDay(Len(Months))
  BY CalendarAssumption DEF DayOf
<1>6. LastTime + 1 < FirstDay(Len(Months)) * DayLength
  BY <1>1, <1>5, DayBounds
<1>7. FirstDay(Len(Months)) * DayLength \in Nat
  BY <1>1
<1>8. t < FirstDay(Len(Months)) * DayLength
  BY <1>1, <1>3, <1>6, <1>7
<1>9. t \div DayLength < FirstDay(Len(Months))
  BY <1>1, <1>3, <1>8, DayBounds
<1>10. t \div DayLength \in Int
  BY <1>1, <1>3, DayBounds
<1> QED
  BY <1>1, <1>3, <1>4, <1>9, <1>10 DEF DayOf

LEMMA MonthIs ==
    ASSUME NEW t \in Believed
    PROVE  /\ MonthOf(t) \in 2..(Len(Months) - 1)
           /\ FirstDay(MonthOf(t)) <= DayOf(t)
           /\ DayOf(t) < FirstDay(MonthOf(t) + 1)
<1> DEFINE L == Len(Months)
           In(m) == FirstDay(m) <= DayOf(t) /\ DayOf(t) < FirstDay(m) + Months[m]
           S == {n \in Nat : n <= L /\ DayOf(t) < FirstDay(n + 1) => \E m \in 1..L : In(m)}
<1>1. L \in Nat /\ L >= 2 /\ DOMAIN Months = 1..L
  BY TrafficAssumption
<1>2. DayOf(t) \in Nat /\ FirstDay(2) <= DayOf(t) /\ DayOf(t) < FirstDay(L)
  BY BelievedFacts
<1>3. /\ FirstDay(1) = 0
      /\ \A m \in 1..(L + 1) : FirstDay(m) \in Nat
      /\ \A m \in 1..L : FirstDay(m + 1) = FirstDay(m) + Months[m]
      /\ \A m, k \in 1..(L + 1) : m <= k => FirstDay(m) <= FirstDay(k)
  BY FirstDayStep
<1> HIDE DEF L
<1>4. 0 \in S
  <2>1. FirstDay(0 + 1) = 0
    BY <1>3
  <2> QED
    BY <1>2, <2>1
<1>5. ASSUME NEW n \in Nat, n \in S PROVE n + 1 \in S
  <2> SUFFICES ASSUME n + 1 <= L, DayOf(t) < FirstDay(n + 2) PROVE \E m \in 1..L : In(m)
    OBVIOUS
  <2>1. n + 1 \in 1..L
    BY <1>1
  <2>2. FirstDay(n + 2) = FirstDay(n + 1) + Months[n + 1]
    <3>1. FirstDay((n + 1) + 1) = FirstDay(n + 1) + Months[n + 1]
      BY <1>3, <2>1
    <3>2. (n + 1) + 1 = n + 2
      OBVIOUS
    <3> QED
      BY <3>1, <3>2
  <2>3. CASE FirstDay(n + 1) <= DayOf(t)
    BY <2>1, <2>2, <2>3
  <2>4. CASE ~(FirstDay(n + 1) <= DayOf(t))
    <3>1. FirstDay(n + 1) \in Nat
      BY <1>1, <1>3, <2>1
    <3>2. n <= L /\ DayOf(t) < FirstDay(n + 1)
      BY <1>1, <1>2, <2>1, <2>4, <3>1
    <3> QED
      BY <1>5, <3>2
  <2> QED
    BY <2>3, <2>4
<1>6. L - 1 \in S
  <2> HIDE DEF S
  <2>1. \A n \in Nat : n \in S
    BY <1>4, <1>5, NumbersByInduction
  <2> QED
    BY <1>1, <2>1
<1>7. \E m \in 1..L : In(m)
  <2>1. (L - 1) + 1 = L
    BY <1>1
  <2> QED
    BY <1>1, <1>2, <1>6, <2>1
<1> DEFINE m == MonthOf(t)
<1>8. m \in 1..L /\ In(m)
  BY <1>1, <1>7 DEF MonthOf
<1> HIDE DEF m
<1>9. DayOf(t) < FirstDay(m + 1)
  BY <1>3, <1>8
<1>10. m # 1
  <2>1. FirstDay(1 + 1) = FirstDay(1) + Months[1]
    BY <1>1, <1>3
  <2>2. FirstDay(1 + 1) = FirstDay(2)
    OBVIOUS
  <2> QED
    BY <1>1, <1>2, <1>3, <1>9, <2>2
<1>11. m # L
  BY <1>1, <1>2, <1>3, <1>8
<1> QED
  BY <1>1, <1>8, <1>9, <1>10, <1>11 DEF m, L

-----------------------------------------------------------------------------
(* Billing cycles.  A cycle begins in each month; the start of the cycle of *)
(* month m is a day of that month.                                          *)
LEMMA StartFacts ==
    ASSUME NEW r \in ResetDays, NEW m \in 1..Len(Months)
    PROVE  \E d \in Nat : /\ StartIn(r, m) = d * DayLength
                          /\ FirstDay(m) <= d /\ d < FirstDay(m + 1)
<1> DEFINE d == FirstDay(m) + (IF r > Months[m] THEN Months[m] ELSE r) - 1
<1>1. r \in Nat \ {0} /\ Months[m] \in Nat \ {0}
  BY MonthFacts
<1>2. FirstDay(m) \in Nat /\ FirstDay(m + 1) = FirstDay(m) + Months[m]
  <2>1. m \in 1..(Len(Months) + 1)
    BY MonthFacts
  <2> QED
    BY <2>1, FirstDayStep
<1>3. d \in Nat /\ FirstDay(m) <= d /\ d < FirstDay(m + 1)
  <2> DEFINE b == IF r > Months[m] THEN Months[m] ELSE r
             f == FirstDay(m)
  <2>1. b \in Nat /\ 1 <= b /\ b <= Months[m]
    BY <1>1
  <2>2. f \in Nat /\ FirstDay(m + 1) = f + Months[m]
    BY <1>2
  <2>3. d = f + b - 1
    OBVIOUS
  <2> HIDE DEF b, f, d
  <2>4. d \in Nat /\ f <= d /\ d < FirstDay(m + 1)
    BY <1>1, <2>1, <2>2, <2>3
  <2> QED
    BY <2>4 DEF f
<1>4. StartIn(r, m) = d * DayLength
  BY DEF StartIn
<1> HIDE DEF d
<1> QED
  BY <1>3, <1>4

LEMMA StartsOrdered ==
    ASSUME NEW r \in ResetDays
    PROVE  /\ \A m \in 1..Len(Months) : StartIn(r, m) \in Nat
           /\ \A m, k \in 1..Len(Months) : m < k => StartIn(r, m) < StartIn(r, k)
<1>1. DayLength \in Nat \ {0} /\ Len(Months) \in Nat
  BY MonthFacts
<1>2. ASSUME NEW m \in 1..Len(Months) PROVE StartIn(r, m) \in Nat
  <2>1. PICK d \in Nat : StartIn(r, m) = d * DayLength
    BY StartFacts
  <2>2. d * DayLength \in Nat
    BY <1>1
  <2> QED
    BY <2>1, <2>2
<1>3. ASSUME NEW m \in 1..Len(Months), NEW k \in 1..Len(Months), m < k
      PROVE  StartIn(r, m) < StartIn(r, k)
  <2>1. PICK d \in Nat : StartIn(r, m) = d * DayLength /\ d < FirstDay(m + 1)
    BY StartFacts
  <2>2. PICK e \in Nat : StartIn(r, k) = e * DayLength /\ FirstDay(k) <= e
    BY StartFacts
  <2>3. /\ m + 1 \in 1..(Len(Months) + 1) /\ k \in 1..(Len(Months) + 1)
        /\ m + 1 <= k
    BY <1>1, <1>3
  <2>4. FirstDay(m + 1) <= FirstDay(k) /\ FirstDay(m + 1) \in Nat /\ FirstDay(k) \in Nat
    BY <2>3, FirstDayStep
  <2>5. d < e
    BY <2>1, <2>2, <2>4
  <2>6. (e - d) * DayLength > 0 /\ (e - d) * DayLength = e * DayLength - d * DayLength
    BY <1>1, <2>5
  <2>7. e * DayLength \in Nat /\ d * DayLength \in Nat
    BY <1>1
  <2> QED
    BY <2>1, <2>2, <2>6, <2>7
<1> QED
  BY <1>2, <1>3

LEMMA CycleOf ==
    ASSUME NEW r \in ResetDays, NEW t \in Believed
    PROVE  \E k \in 1..(Len(Months) - 1) :
              /\ CycleRange[r][t] = <<StartIn(r, k), StartIn(r, k + 1)>>
              /\ StartIn(r, k) <= t /\ t < StartIn(r, k + 1)
<1> DEFINE m == MonthOf(t)
<1>1. DayLength \in Nat \ {0} /\ Len(Months) \in Nat
  BY MonthFacts
<1>2. t \in Nat /\ DayOf(t) \in Nat /\ DayOf(t) = t \div DayLength
  BY BelievedFacts DEF DayOf
<1>3. m \in 2..(Len(Months) - 1) /\ FirstDay(m) <= DayOf(t) /\ DayOf(t) < FirstDay(m + 1)
  BY MonthIs
<1>4. CycleRange[r][t] = IF t >= StartIn(r, m) THEN <<StartIn(r, m), StartIn(r, m + 1)>>
                         ELSE <<StartIn(r, m - 1), StartIn(r, m)>>
  BY DEF CycleRange
<1> HIDE DEF m
<1>5. m \in 1..Len(Months) /\ m + 1 \in 1..Len(Months) /\ m - 1 \in 1..Len(Months)
      /\ m \in 1..(Len(Months) + 1) /\ m + 1 \in 1..(Len(Months) + 1)
  BY <1>1, <1>3
<1>6. FirstDay(m) \in Nat /\ FirstDay(m + 1) \in Nat
  BY <1>5, FirstDayStep
<1>7. StartIn(r, m) \in Nat /\ StartIn(r, m + 1) \in Nat /\ StartIn(r, m - 1) \in Nat
  BY <1>5, StartsOrdered
<1>8. CASE t >= StartIn(r, m)
  <2>1. PICK e \in Nat : StartIn(r, m + 1) = e * DayLength /\ FirstDay(m + 1) <= e
    BY <1>5, StartFacts
  <2>2. t \div DayLength < e
    BY <1>2, <1>3, <1>6, <2>1
  <2>3. t < StartIn(r, m + 1)
    BY <1>1, <1>2, <2>1, <2>2, DayBounds
  <2>4. m \in 1..(Len(Months) - 1)
    BY <1>3
  <2>5. CycleRange[r][t] = <<StartIn(r, m), StartIn(r, m + 1)>> /\ StartIn(r, m) <= t
    BY <1>2, <1>4, <1>7, <1>8
  <2> QED
    BY <2>3, <2>4, <2>5
<1>9. CASE ~(t >= StartIn(r, m))
  <2>1. PICK d \in Nat : StartIn(r, m - 1) = d * DayLength /\ d < FirstDay((m - 1) + 1)
    BY <1>5, StartFacts
  <2>2. (m - 1) + 1 = m
    BY <1>1, <1>3
  <2>3. d <= t \div DayLength
    BY <1>2, <1>3, <1>6, <2>1, <2>2
  <2>4. StartIn(r, m - 1) <= t
    BY <1>1, <1>2, <2>1, <2>3, DayBounds
  <2>5. m - 1 \in 1..(Len(Months) - 1)
    BY <1>1, <1>3
  <2>6. CycleRange[r][t] = <<StartIn(r, m - 1), StartIn(r, (m - 1) + 1)>>
        /\ t < StartIn(r, (m - 1) + 1)
    BY <1>2, <1>4, <1>7, <1>9, <2>2
  <2> QED
    BY <2>4, <2>5, <2>6
<1> QED
  BY <1>8, <1>9

(* The cycle of a time is the only one that holds it.                       *)
LEMMA CycleUnique ==
    ASSUME NEW r \in ResetDays, NEW t \in Believed, NEW k \in 1..(Len(Months) - 1),
           StartIn(r, k) <= t, t < StartIn(r, k + 1)
    PROVE  CycleRange[r][t] = <<StartIn(r, k), StartIn(r, k + 1)>>
<1>1. PICK j \in 1..(Len(Months) - 1) :
          /\ CycleRange[r][t] = <<StartIn(r, j), StartIn(r, j + 1)>>
          /\ StartIn(r, j) <= t /\ t < StartIn(r, j + 1)
  BY CycleOf
<1>2. Len(Months) \in Nat /\ t \in Nat
  BY MonthFacts, BelievedFacts
<1>3. j \in 1..Len(Months) /\ j + 1 \in 1..Len(Months)
      /\ k \in 1..Len(Months) /\ k + 1 \in 1..Len(Months)
  BY <1>2
<1>4. /\ \A m \in 1..Len(Months) : StartIn(r, m) \in Nat
      /\ \A m, n \in 1..Len(Months) : m < n => StartIn(r, m) < StartIn(r, n)
  BY StartsOrdered
<1>5. ASSUME j < k PROVE FALSE
  <2>1. j + 1 < k \/ j + 1 = k
    BY <1>3, <1>5
  <2>2. StartIn(r, j + 1) <= StartIn(r, k)
    BY <1>3, <1>4, <2>1
  <2> QED
    BY <1>1, <1>2, <1>3, <1>4, <2>2
<1>6. ASSUME k < j PROVE FALSE
  <2>1. k + 1 < j \/ k + 1 = j
    BY <1>3, <1>6
  <2>2. StartIn(r, k + 1) <= StartIn(r, j)
    BY <1>3, <1>4, <2>1
  <2> QED
    BY <1>1, <1>2, <1>3, <1>4, <2>2
<1>7. j = k
  BY <1>3, <1>5, <1>6
<1> QED
  BY <1>1, <1>7

(* The clock runs within its bounds.                                        *)
Clock == time \in FirstTime..LastTime

LEMMA ClockBelieved == Clock => time \in Believed
<1>1. FirstDay(2) * DayLength < FirstTime
  BY CalendarAssumption
<1>2. FirstDay(2) \in Nat
  BY MonthFacts, FirstDayStep
<1>3. FirstDay(2) * DayLength \in Nat
  BY <1>2, MonthFacts
<1> DEFINE b == FirstDay(2) * DayLength
<1> HIDE DEF b
<1>4. b \in Nat /\ b < FirstTime
  BY <1>1, <1>3 DEF b
<1>5. Clock => time \in b..(LastTime + 1)
  BY <1>4, MonthFacts DEF Clock
<1> QED
  BY <1>5 DEF b, Believed

LEMMA TilesNow == Clock => CyclesTile
<1> SUFFICES ASSUME Clock, NEW r \in ResetDays
             PROVE  LET start == CycleRange[r][time][1]
                        end   == CycleRange[r][time][2]
                    IN  /\ start <= time /\ time < end
                        /\ end \in Believed => CycleStart(r, end) = end
                        /\ \A t \in (start..(end - 1)) \cap Believed :
                              CycleRange[r][t] = <<start, end>>
  BY DEF CyclesTile
<1>1. time \in Believed
  BY ClockBelieved
<1>2. PICK k \in 1..(Len(Months) - 1) :
          /\ CycleRange[r][time] = <<StartIn(r, k), StartIn(r, k + 1)>>
          /\ StartIn(r, k) <= time /\ time < StartIn(r, k + 1)
  BY <1>1, CycleOf
<1> DEFINE start == StartIn(r, k)
           end   == StartIn(r, k + 1)
<1>3. CycleRange[r][time][1] = start /\ CycleRange[r][time][2] = end
  BY <1>2
<1>4. Len(Months) \in Nat
  BY MonthFacts
<1>5. k \in 1..Len(Months) /\ k + 1 \in 1..Len(Months)
  BY <1>4
<1>6. start \in Nat /\ end \in Nat
  BY <1>5, StartsOrdered
<1>7. ASSUME end \in Believed PROVE CycleStart(r, end) = end
  <2>1. PICK j \in 1..(Len(Months) - 1) :
            /\ CycleRange[r][end] = <<StartIn(r, j), StartIn(r, j + 1)>>
            /\ StartIn(r, j) <= end /\ end < StartIn(r, j + 1)
    BY <1>7, CycleOf
  <2>2. j \in 1..Len(Months) /\ j + 1 \in 1..Len(Months)
    BY <1>4
  <2>3. /\ \A m \in 1..Len(Months) : StartIn(r, m) \in Nat
        /\ \A m, n \in 1..Len(Months) : m < n => StartIn(r, m) < StartIn(r, n)
    BY StartsOrdered
  <2>4. ~(k + 1 < j)
    BY <1>5, <2>1, <2>2, <2>3
  <2>5. ~(j + 1 < k + 1)
    BY <1>5, <2>1, <2>2, <2>3
  <2>6. j + 1 # k + 1
    BY <1>5, <2>1, <2>2, <2>3
  <2>7. j = k + 1
    BY <1>4, <2>4, <2>5, <2>6
  <2> QED
    BY <2>1, <2>7 DEF CycleStart
<1>8. ASSUME NEW t \in (start..(end - 1)) \cap Believed
      PROVE  CycleRange[r][t] = <<start, end>>
  <2>1. t \in Believed /\ start <= t /\ t < end
    BY <1>6
  <2> QED
    BY <2>1, CycleUnique
<1> QED
  BY <1>2, <1>3, <1>7, <1>8

LEMMA ClockNext ==
    ASSUME Clock, [TrafficNext]_trafficVars
    PROVE  Clock'
<1>1. CASE TrafficTick
  BY <1>1, MonthFacts DEF TrafficTick, Clock
<1>2. CASE UNCHANGED time
  BY <1>2 DEF Clock
<1>3. Reboot \/ SendReport \/ Lose \/ Receive \/ BasicSeen => UNCHANGED time
  BY Zenon DEF Reboot, SendReport, Lose, Receive, BasicSeen
<1>4. (\E i \in Interfaces : Transfer(i) \/ Recreate(i)) => UNCHANGED time
  BY Zenon DEF Transfer, Recreate
<1>5. (\E S \in SUBSET Interfaces \ {{}}, o \in Offsets : Reconfigure(S, o)) => UNCHANGED time
  BY Zenon DEF Reconfigure
<1>6. (\E r \in ResetDays, c \in BOOLEAN : BeginNodeEdit(r, c)) => UNCHANGED time
  BY Zenon DEF BeginNodeEdit
<1>7. EditFails \/ EndEdit \/ SaveNode \/ PanelCrash => UNCHANGED time
  BY Zenon DEF EditFails, EndEdit, SaveNode, PanelCrash
<1>8. UNCHANGED trafficVars => UNCHANGED time
  BY DEF trafficVars
<1> QED
  BY <1>1, <1>2, <1>3, <1>4, <1>5, <1>6, <1>7, <1>8, Zenon DEF TrafficNext

LEMMA ClockHolds == TrafficSpec => []Clock
<1>1. TrafficInit => Clock
  BY MonthFacts DEF TrafficInit, Clock
<1>2. Clock /\ [TrafficNext]_trafficVars => Clock'
  BY ClockNext
<1> QED
  BY <1>1, <1>2, PTL DEF TrafficSpec

(* Billing cycles follow each other without a gap (GetBillingCycleRange),   *)
(* for every calendar and every day a cycle may begin on.                   *)
THEOREM BillingCyclesTile == TrafficSpec => []CyclesTile
<1>1. Clock => CyclesTile
  BY TilesNow
<1> QED
  BY <1>1, ClockHolds, PTL

-----------------------------------------------------------------------------
(* Types.  The accounts are the panel's, the saved one and the copy of an   *)
(* edit; each began its cycle in some month.                                *)
Stamp   == [sent : Nat, changes : Nat]
Counts  == UNION {[S -> Nat] : S \in SUBSET Interfaces}
Report  == [at : Int, uptime : Int, boot : Nat, sentAt : Int, sent : Nat, changes : Nat,
            counters : Counts]
Account == [last : Report \cup {NoReport}, seen : Int, baseline : BOOLEAN, start : Int,
            used : Int, manual : Int, daily : [Days -> Nat], reset : ResetDays,
            newest : Stamp, corrected : BOOLEAN, unordered : BOOLEAN, rewound : BOOLEAN]
Edit    == [reset : ResetDays, correct : BOOLEAN, used : Int, start : Int, copy : Account]
Host    == [boot : Nat, since : Int, raw : [Interfaces -> Nat], selected : SUBSET Interfaces,
            offset : Int, changes : Nat]

Accounts  == {node, saved} \cup (IF edit = NoEdit THEN {} ELSE {edit.copy})
Begins(n) == \E k \in 1..(Len(Months) - 1) : n.start = StartIn(n.reset, k)

TrafficTypeOK ==
    /\ Clock
    /\ host \in Host /\ sent \in Nat /\ incidents \in Nat
    /\ flight \in SUBSET Report
    /\ node \in Account /\ saved \in Account
    /\ edit = NoEdit \/ edit \in Edit
    /\ \A n \in Accounts : Begins(n)

(* What Charge works with.                                                  *)
From(n)     == SampleTime(n.last.at, n.seen)
To(r)       == SampleTime(r.at, time)
Known(n, r) == n.baseline /\ Comparable(r, n.last)
Added(n, r) == IF Known(n, r) THEN Delta(r, n.last) ELSE 0

LEMMA SampleFacts ==
    ASSUME NEW at \in Int, NEW received \in Int
    PROVE  /\ SampleTime(at, received) \in Int
           /\ received - 1 <= SampleTime(at, received)
           /\ SampleTime(at, received) <= received + 1
BY DEF SampleTime

LEMMA ToFacts ==
    ASSUME Clock, NEW r \in Report
    PROVE  To(r) \in Believed /\ To(r) \in Int /\ time - 1 <= To(r) /\ To(r) <= time + 1
<1>1. r.at \in Int
  BY DEF Report
<1>2. time \in Int /\ FirstTime <= time /\ time <= LastTime
  BY MonthFacts DEF Clock
<1>3. To(r) \in Int /\ time - 1 <= To(r) /\ To(r) <= time + 1
  BY <1>1, <1>2, SampleFacts DEF To
<1>4. FirstDay(2) * DayLength < FirstTime
  BY CalendarAssumption
<1>5. FirstDay(2) \in Nat
  BY MonthFacts, FirstDayStep
<1>6. FirstDay(2) * DayLength \in Nat
  BY <1>5, MonthFacts
<1> DEFINE b == FirstDay(2) * DayLength
<1> HIDE DEF b
<1>7. b \in Nat /\ b < FirstTime
  BY <1>4, <1>6 DEF b
<1>8. To(r) \in b..(LastTime + 1)
  BY <1>2, <1>3, <1>7, MonthFacts
<1> QED
  BY <1>3, <1>8 DEF b, Believed

LEMMA CycleStartFacts ==
    ASSUME NEW r \in ResetDays, NEW t \in Believed
    PROVE  /\ \E k \in 1..(Len(Months) - 1) :
                 /\ CycleStart(r, t) = StartIn(r, k)
                 /\ StartIn(r, k) <= t /\ t < StartIn(r, k + 1)
           /\ CycleStart(r, t) \in Nat
<1>1. PICK k \in 1..(Len(Months) - 1) :
          /\ CycleRange[r][t] = <<StartIn(r, k), StartIn(r, k + 1)>>
          /\ StartIn(r, k) <= t /\ t < StartIn(r, k + 1)
  BY CycleOf
<1>2. CycleStart(r, t) = StartIn(r, k)
  BY <1>1 DEF CycleStart
<1>3. k \in 1..Len(Months)
  BY MonthFacts
<1>4. StartIn(r, k) \in Nat
  BY <1>3, StartsOrdered
<1> QED
  BY <1>1, <1>2, <1>4

LEMMA DaysFinite == IsFiniteSet(Days) /\ Days = 0..((LastTime + 1) \div DayLength)
                    /\ (LastTime + 1) \div DayLength \in Nat
<1>1. (LastTime + 1) \div DayLength \in Nat
  BY MonthFacts
<1> QED
  BY <1>1, FS_Interval DEF Days

(* An account stays one when one of its parts is replaced.                  *)
LEMMA AccountExcept ==
    ASSUME NEW n \in Account
    PROVE  /\ \A v \in Report \cup {NoReport} : [n EXCEPT !.last = v] \in Account
           /\ \A v \in Int : [n EXCEPT !.seen = v] \in Account
           /\ \A v \in Int : [n EXCEPT !.start = v] \in Account
           /\ \A v \in Int : [n EXCEPT !.used = v] \in Account
           /\ \A v \in Int : [n EXCEPT !.manual = v] \in Account
           /\ \A v \in [Days -> Nat] : [n EXCEPT !.daily = v] \in Account
           /\ \A v \in ResetDays : [n EXCEPT !.reset = v] \in Account
           /\ \A v \in Stamp : [n EXCEPT !.newest = v] \in Account
           /\ \A v \in BOOLEAN : [n EXCEPT !.baseline = v] \in Account
           /\ \A v \in BOOLEAN : [n EXCEPT !.corrected = v] \in Account
           /\ \A v \in BOOLEAN : [n EXCEPT !.unordered = v] \in Account
           /\ \A v \in BOOLEAN : [n EXCEPT !.rewound = v] \in Account
<1>1. \A v \in Report \cup {NoReport} : [n EXCEPT !.last = v] \in Account
  BY DEF Account
<1>2. /\ \A v \in Int : [n EXCEPT !.seen = v] \in Account
      /\ \A v \in Int : [n EXCEPT !.start = v] \in Account
  BY DEF Account
<1>3. /\ \A v \in Int : [n EXCEPT !.used = v] \in Account
      /\ \A v \in Int : [n EXCEPT !.manual = v] \in Account
  BY DEF Account
<1>4. \A v \in [Days -> Nat] : [n EXCEPT !.daily = v] \in Account
  BY DEF Account
<1>5. /\ \A v \in ResetDays : [n EXCEPT !.reset = v] \in Account
      /\ \A v \in Stamp : [n EXCEPT !.newest = v] \in Account
  BY DEF Account
<1>6. /\ \A v \in BOOLEAN : [n EXCEPT !.baseline = v] \in Account
      /\ \A v \in BOOLEAN : [n EXCEPT !.corrected = v] \in Account
  BY DEF Account
<1>7. /\ \A v \in BOOLEAN : [n EXCEPT !.unordered = v] \in Account
      /\ \A v \in BOOLEAN : [n EXCEPT !.rewound = v] \in Account
  BY DEF Account
<1> QED
  BY <1>1, <1>2, <1>3, <1>4, <1>5, <1>6, <1>7

LEMMA RolloverFacts ==
    ASSUME NEW n \in Account, NEW t \in Believed
    PROVE  LET m == Rollover(n, t)
               over == n.start < CycleStart(n.reset, t)
           IN  /\ m \in Account /\ (Begins(n) => Begins(m))
               /\ m.last = n.last /\ m.seen = n.seen /\ m.baseline = n.baseline
               /\ m.daily = n.daily /\ m.reset = n.reset /\ m.newest = n.newest
               /\ m.unordered = n.unordered /\ m.rewound = n.rewound
               /\ m.start = IF over THEN CycleStart(n.reset, t) ELSE n.start
               /\ m.used = IF over THEN 0 ELSE n.used
               /\ m.manual = IF over THEN Never ELSE n.manual
               /\ m.corrected = IF over THEN FALSE ELSE n.corrected
<1> DEFINE c == CycleStart(n.reset, t)
           m == Rollover(n, t)
<1>1. n.reset \in ResetDays
  BY DEF Account
<1>2. c \in Nat /\ \E k \in 1..(Len(Months) - 1) : c = StartIn(n.reset, k)
  BY <1>1, CycleStartFacts
<1>3. m = IF n.start < c
          THEN [n EXCEPT !.start = c, !.used = 0, !.manual = Never, !.corrected = FALSE]
          ELSE n
  BY DEF Rollover
<1> HIDE DEF c, m
<1>4. CASE n.start < c
  <2>1. m = [n EXCEPT !.start = c, !.used = 0, !.manual = Never, !.corrected = FALSE]
    BY <1>3, <1>4
  <2>2. m \in Account /\ m.start = c /\ m.reset = n.reset
    <3> DEFINE n1 == [n EXCEPT !.start = c]
               n2 == [n1 EXCEPT !.used = 0]
               n3 == [n2 EXCEPT !.manual = Never]
               n4 == [n3 EXCEPT !.corrected = FALSE]
    <3>1. m = n4
      BY <2>1
    <3>2. n1 \in Account
      BY <1>2, AccountExcept
    <3> HIDE DEF n1
    <3>3. n2 \in Account
      BY <3>2, AccountExcept
    <3> HIDE DEF n2
    <3>4. n3 \in Account
      BY <3>3, AccountExcept DEF Never
    <3> HIDE DEF n3
    <3>5. n4 \in Account
      BY <3>4, AccountExcept
    <3>6. m.start = c /\ m.reset = n.reset
      BY <2>1 DEF Account
    <3> QED
      BY <3>1, <3>5, <3>6
  <2>3. Begins(m)
    BY <1>2, <2>2 DEF Begins
  <2>4. /\ m.last = n.last /\ m.seen = n.seen /\ m.baseline = n.baseline
        /\ m.daily = n.daily /\ m.newest = n.newest
        /\ m.unordered = n.unordered /\ m.rewound = n.rewound
        /\ m.used = 0 /\ m.manual = Never /\ m.corrected = FALSE
    BY <2>1 DEF Account
  <2> QED
    BY <1>4, <2>2, <2>3, <2>4 DEF m, c
<1>5. CASE ~(n.start < c)
  BY <1>3, <1>5 DEF m, c
<1> QED
  BY <1>4, <1>5

LEMMA DeltaNatural ==
    ASSUME NEW r \in Report, NEW q \in Report
    PROVE  Delta(r, q) \in Nat
<1> DEFINE D == DOMAIN r.counters \cap DOMAIN q.counters
           f == [i \in D |-> Later(0, r.counters[i] - q.counters[i])]
<1>1. PICK S \in SUBSET Interfaces : r.counters \in [S -> Nat]
  BY DEF Report, Counts
<1>2. PICK U \in SUBSET Interfaces : q.counters \in [U -> Nat]
  BY DEF Report, Counts
<1>3. IsFiniteSet(D)
  <2>1. D \in SUBSET Interfaces
    BY <1>1
  <2> QED
    BY <2>1, TrafficAssumption, FS_Subset
<1>4. \A i \in D : f[i] \in Nat
  BY <1>1, <1>2 DEF Later
<1>5. Delta(r, q) = Total(f) /\ Total(f) = Part(f, D)
  BY PartIsTotal DEF Delta, Part
<1> HIDE DEF D, f
<1> QED
  BY <1>3, <1>4, <1>5, PartNatural

-----------------------------------------------------------------------------
(* What a charge does to the days.                                          *)
LEMMA TelescopesFrom ==
    ASSUME NEW n \in Nat, NEW s \in 0..n, NEW p, \A i \in 0..(n + 1) : p[i] \in Int,
           NEW f, \A i \in 0..n : f[i] = p[i + 1] - p[i]
    PROVE  Part(f, s..n) = p[n + 1] - p[s]
<1>1. \A i \in 0..n : f[i] \in Int
  <2> TAKE i \in 0..n
  <2>1. i \in 0..(n + 1) /\ i + 1 \in 0..(n + 1)
    OBVIOUS
  <2>2. p[i] \in Int /\ p[i + 1] \in Int
    BY <2>1
  <2> QED
    BY <2>2
<1>2. Part(f, 0..n) = p[n + 1] - p[0]
  BY PartTelescopes
<1>3. CASE s = 0
  BY <1>2, <1>3
<1>4. CASE s # 0
  <2>1. s - 1 \in Nat /\ (s - 1) + 1 = s
    BY <1>4
  <2>2. /\ \A i \in 0..((s - 1) + 1) : p[i] \in Int
        /\ \A i \in 0..(s - 1) : f[i] = p[i + 1] - p[i]
    BY <2>1
  <2>3. Part(f, 0..(s - 1)) = p[(s - 1) + 1] - p[0]
    BY <2>1, <2>2, PartTelescopes
  <2>4. IsFiniteSet(0..n) /\ 0..(s - 1) \in SUBSET (0..n) /\ (0..n) \ (0..(s - 1)) = s..n
    <3>1. IsFiniteSet(0..n)
      BY FS_Interval
    <3>2. 0..(s - 1) \in SUBSET (0..n) /\ (0..n) \ (0..(s - 1)) = s..n
      BY <1>4
    <3> QED
      BY <3>1, <3>2
  <2>5. Part(f, 0..n) = Part(f, 0..(s - 1)) + Part(f, (0..n) \ (0..(s - 1)))
    BY <1>1, <2>4, PartSplit
  <2>6. IsFiniteSet(s..n) /\ \A i \in s..n : f[i] \in Int
    BY <1>1, FS_Interval
  <2>7. Part(f, s..n) \in Int
    BY <2>6, PartType
  <2>8. Part(f, 0..n) = (p[s] - p[0]) + Part(f, s..n)
    BY <2>1, <2>3, <2>4, <2>5
  <2>9. p[0] \in Int /\ p[s] \in Int /\ p[n + 1] \in Int
    OBVIOUS
  <2> DEFINE x == Part(f, s..n)
  <2>10. x \in Int /\ p[n + 1] - p[0] = (p[s] - p[0]) + x
    BY <1>2, <2>7, <2>8
  <2> HIDE DEF x
  <2>11. x = p[n + 1] - p[s]
    BY <2>9, <2>10
  <2> QED
    BY <2>11 DEF x
<1> QED
  BY <1>3, <1>4

(* The share of an interval that has passed at t, and the ends of a day     *)
(* within the interval and the days kept.                                   *)
Cutoff(to)            == (DayOf(to) - KeepDays) * DayLength
Share(delta, from, to, t) == (delta * (t - from)) \div (to - from)
Edge(from, to, t)     == IF t > to THEN to ELSE Later(t, Later(from, Cutoff(to)))

LEMMA DivMonotone ==
    ASSUME NEW k \in Nat \ {0}, NEW a \in Int, NEW b \in Int, a <= b
    PROVE  a \div k <= b \div k
<1> DEFINE d == a \div k
<1>1. d \in Int /\ d * k <= a
  BY DayBounds
<1> HIDE DEF d
<1>2. d * k <= b
  <2> DEFINE p == d * k
  <2>1. p \in Int /\ p <= a
    BY <1>1
  <2> HIDE DEF p
  <2>2. p <= b
    BY <2>1
  <2> QED
    BY <2>2 DEF p
<1>3. d <= b \div k
  BY <1>1, <1>2, DayBounds
<1> QED
  BY <1>3 DEF d

LEMMA ShareFacts ==
    ASSUME NEW delta \in Nat, NEW from \in Int, NEW to \in Int, from < to
    PROVE  /\ Share(delta, from, to, from) = 0
           /\ Share(delta, from, to, to) = delta
           /\ \A t \in from..to : Share(delta, from, to, t) \in 0..delta
           /\ \A t, u \in from..to :
                 t <= u => Share(delta, from, to, t) <= Share(delta, from, to, u)
<1> DEFINE k == to - from
           S(t) == Share(delta, from, to, t)
<1>1. k \in Nat \ {0}
  OBVIOUS
<1>2. \A t, u \in from..to : t <= u => delta * (t - from) \in Int /\ delta * (u - from) \in Int
                                     /\ delta * (t - from) <= delta * (u - from)
  <2> SUFFICES ASSUME NEW t \in from..to, NEW u \in from..to, t <= u
               PROVE  /\ delta * (t - from) \in Int /\ delta * (u - from) \in Int
                      /\ delta * (t - from) <= delta * (u - from)
    OBVIOUS
  <2>1. delta * (u - t) >= 0
    OBVIOUS
  <2>2. delta * (u - from) - delta * (t - from) = delta * (u - t)
    OBVIOUS
  <2>3. delta * (t - from) \in Int /\ delta * (u - from) \in Int
    OBVIOUS
  <2> QED
    BY <2>1, <2>2, <2>3
<1>3. \A t, u \in from..to : t <= u => S(t) <= S(u)
  BY <1>1, <1>2, DivMonotone DEF Share
<1>4. S(from) = 0
  <2>1. delta * (from - from) = 0
    OBVIOUS
  <2>2. 0 \div k = 0
    BY <1>1
  <2> QED
    BY <2>1, <2>2 DEF Share
<1>5. S(to) = delta
  <2>1. (delta * k) \div k <= delta /\ delta <= (delta * k) \div k
    <3> DEFINE a == delta * k
    <3>1. a \in Int
      BY <1>1
    <3>2. delta <= a \div k
      BY <1>1, <3>1, DayBounds
    <3>3. a < (delta + 1) * k
      <4>1. (delta + 1) * k = delta * k + k
        BY <1>1
      <4> QED
        BY <1>1, <3>1, <4>1
    <3>4. a \div k < delta + 1 /\ a \div k \in Int
      <4> HIDE DEF a, k
      <4>1. delta + 1 \in Int
        OBVIOUS
      <4> QED
        BY <1>1, <3>1, <3>3, <4>1, DayBounds
    <3> QED
      BY <3>2, <3>4
  <2>2. (delta * k) \div k \in Int
    BY <1>1
  <2>3. (delta * k) \div k = delta
    BY <2>1, <2>2
  <2> QED
    BY <2>3 DEF Share
<1>6. \A t \in from..to : S(t) \in 0..delta
  <2> SUFFICES ASSUME NEW t \in from..to PROVE S(t) \in 0..delta
    OBVIOUS
  <2>1. S(from) <= S(t) /\ S(t) <= S(to)
    BY <1>3
  <2>2. S(t) \in Int
    BY <1>1, <1>2, DayBounds DEF Share
  <2> QED
    BY <1>4, <1>5, <2>1, <2>2
<1> QED
  BY <1>3, <1>4, <1>5, <1>6

LEMMA EdgeFacts ==
    ASSUME NEW from \in Int, NEW to \in Int, from < to
    PROVE  /\ Cutoff(to) \in Int /\ Cutoff(to) < to
           /\ \A t \in Int : Edge(from, to, t) \in from..to
           /\ \A t, u \in Int : t <= u => Edge(from, to, t) <= Edge(from, to, u)
<1>1. DayLength \in Nat \ {0} /\ KeepDays \in Nat \ {0}
  BY MonthFacts
<1>2. DayOf(to) \in Int /\ DayOf(to) * DayLength <= to
  BY <1>1, DayBounds DEF DayOf
<1>3. Cutoff(to) = DayOf(to) * DayLength - KeepDays * DayLength /\ KeepDays * DayLength >= 1
  BY <1>1, <1>2 DEF Cutoff
<1>4. DayOf(to) * DayLength \in Int /\ KeepDays * DayLength \in Int
  BY <1>1, <1>2
<1>5. Cutoff(to) \in Int /\ Cutoff(to) < to
  BY <1>2, <1>3, <1>4
<1> QED
  BY <1>5 DEF Edge, Later

(* A charge of delta adds delta to the days: to those from the day s on,    *)
(* what is left of the interval there.                                      *)
LEMMA DailyFacts ==
    ASSUME NEW daily \in [Days -> Nat], NEW delta \in Nat,
           NEW from \in Int, NEW to \in Int, from < to, from # Never, to <= LastTime + 1
    PROVE  LET new == Daily(daily, delta, from, to)
           IN  /\ new \in [Days -> Nat]
               /\ Part(new, Days) <= Part(daily, Days) + delta
               /\ \A d \in Days : to < d * DayLength /\ daily[d] = 0 => new[d] = 0
               /\ \A s \in Days : Cutoff(to) <= s * DayLength =>
                     LET rest == {d \in Days : s <= d}
                     IN  Part(new, rest) =
                            Part(daily, rest) + delta
                            - Share(delta, from, to, Edge(from, to, s * DayLength))
<1> DEFINE N == (LastTime + 1) \div DayLength
           E(t) == Edge(from, to, t)
           p == [d \in 0..(N + 1) |-> Share(delta, from, to, E(d * DayLength))]
           f == [d \in Days |-> p[d + 1] - p[d]]
           k == [d \in Days |-> daily[d] + f[d]]
           new == Daily(daily, delta, from, to)
<1>1. N \in Nat /\ Days = 0..N /\ IsFiniteSet(Days)
  BY DaysFinite
<1>2. DayLength \in Nat \ {0} /\ LastTime \in Nat
  BY MonthFacts
<1>3. \A d \in Int : d * DayLength \in Int /\ d * DayLength <= (d + 1) * DayLength
  BY <1>2
<1>4. to < (N + 1) * DayLength
  <2>1. LastTime + 1 < (N + 1) * DayLength
    <3>1. N \in Int /\ N + 1 \in Int /\ N < N + 1
      BY <1>1
    <3> QED
      BY <1>2, <3>1, DayBounds
  <2>2. (N + 1) * DayLength \in Int
    BY <1>1, <1>2
  <2> QED
    BY <1>2, <2>1, <2>2
<1> HIDE DEF N
<1>5. \A t \in Int : E(t) \in from..to
  BY EdgeFacts
<1>6. /\ \A d \in 0..(N + 1) : p[d] \in 0..delta
      /\ p[N + 1] = delta
      /\ \A d \in 0..N : p[d] <= p[d + 1]
  <2>1. ASSUME NEW d \in 0..(N + 1) PROVE p[d] \in 0..delta
    <3>1. d * DayLength \in Int
      BY <1>1, <1>3
    <3> QED
      BY <1>5, <3>1, ShareFacts
  <2>2. p[N + 1] = delta
    <3>1. N + 1 \in 0..(N + 1) /\ (N + 1) * DayLength \in Int
      BY <1>1, <1>3
    <3>2. E((N + 1) * DayLength) = to
      BY <1>4, <3>1 DEF Edge
    <3>3. p[N + 1] = Share(delta, from, to, E((N + 1) * DayLength))
      BY <3>1
    <3>4. Share(delta, from, to, to) = delta
      BY ShareFacts
    <3> QED
      BY <3>2, <3>3, <3>4, Zenon
  <2>3. ASSUME NEW d \in 0..N PROVE p[d] <= p[d + 1]
    <3>1. d \in 0..(N + 1) /\ d + 1 \in 0..(N + 1)
      BY <1>1
    <3>2. /\ d * DayLength \in Int /\ (d + 1) * DayLength \in Int
          /\ d * DayLength <= (d + 1) * DayLength
      BY <1>3
    <3>3. E(d * DayLength) <= E((d + 1) * DayLength)
      BY <3>2, EdgeFacts
    <3>4. E(d * DayLength) \in from..to /\ E((d + 1) * DayLength) \in from..to
      BY <1>5, <3>2
    <3>5. Share(delta, from, to, E(d * DayLength)) <= Share(delta, from, to, E((d + 1) * DayLength))
      BY <3>3, <3>4, ShareFacts
    <3> QED
      BY <3>1, <3>5
  <2> QED
    BY <2>1, <2>2, <2>3
<1>7. \A d \in Days : new[d] = IF d * DayLength < Cutoff(to) THEN 0 ELSE k[d]
  <2>1. new = [d \in Days |->
                  IF d * DayLength < Cutoff(to) THEN 0
                  ELSE daily[d] + Share(delta, from, to, E((d + 1) * DayLength))
                                - Share(delta, from, to, E(d * DayLength))]
    BY DEF Daily, Cutoff, Share, Edge
  <2>2. ASSUME NEW d \in Days PROVE k[d] = daily[d] + Share(delta, from, to, E((d + 1) * DayLength))
                                - Share(delta, from, to, E(d * DayLength))
    <3>1. d \in 0..(N + 1) /\ d + 1 \in 0..(N + 1)
      BY <1>1
    <3>2. p[d] \in Int /\ p[d + 1] \in Int /\ daily[d] \in Int
      BY <1>6, <3>1
    <3>3. /\ p[d] = Share(delta, from, to, E(d * DayLength))
          /\ p[d + 1] = Share(delta, from, to, E((d + 1) * DayLength))
      BY <3>1
    <3>4. k[d] = daily[d] + (p[d + 1] - p[d])
      BY DEF k, f
    <3> HIDE DEF p, k
    <3> QED
      BY <3>2, <3>3, <3>4
  <2> HIDE DEF k, new
  <2> QED
    BY <2>1, <2>2
<1>8. new = [d \in Days |-> new[d]]
  BY DEF Daily
<1> HIDE DEF new
<1>9. /\ \A d \in Days : f[d] = p[d + 1] - p[d] /\ f[d] \in Nat /\ daily[d] \in Nat
      /\ \A d \in Days : k[d] = daily[d] + f[d] /\ k[d] \in Nat
  <2> HIDE DEF p
  <2>1. ASSUME NEW d \in Days
        PROVE  f[d] = p[d + 1] - p[d] /\ f[d] \in Nat /\ daily[d] \in Nat
    <3>1. d \in 0..N /\ d \in 0..(N + 1) /\ d + 1 \in 0..(N + 1)
      BY <1>1
    <3>2. p[d] \in Nat /\ p[d + 1] \in Nat /\ p[d] <= p[d + 1]
      BY <1>6, <3>1
    <3> QED
      BY <3>2
  <2>2. ASSUME NEW d \in Days PROVE k[d] = daily[d] + f[d] /\ k[d] \in Nat
    <3> HIDE DEF f
    <3> QED
      BY <2>1
  <2> QED
    BY <2>1, <2>2
<1> HIDE DEF p, k, f
<1>a. /\ \A d \in Days : daily[d] \in Int /\ f[d] \in Int /\ k[d] \in Int /\ k[d] = daily[d] + f[d]
      /\ \A d \in 0..(N + 1) : p[d] \in Int
      /\ \A d \in 0..N : f[d] = p[d + 1] - p[d]
  <2>1. ASSUME NEW d \in Days
        PROVE  daily[d] \in Int /\ f[d] \in Int /\ k[d] \in Int /\ k[d] = daily[d] + f[d]
    BY <1>9
  <2>2. ASSUME NEW d \in 0..(N + 1) PROVE p[d] \in Int
    BY <1>6
  <2>3. \A d \in 0..N : f[d] = p[d + 1] - p[d]
    BY <1>1, <1>9
  <2> QED
    BY <2>1, <2>2, <2>3
<1>10. \A d \in Days : new[d] \in Nat /\ new[d] <= k[d]
  BY <1>7, <1>9
<1>11. new \in [Days -> Nat]
  <2>1. [d \in Days |-> new[d]] \in [Days -> Nat]
    BY <1>10
  <2> QED
    BY <1>8, <2>1, Zenon
<1>12. Part(new, Days) <= Part(daily, Days) + delta
  <2>1. Part(new, Days) <= Part(k, Days)
    <3>1. \A d \in Days : new[d] \in Int /\ k[d] \in Int /\ new[d] <= k[d]
      BY <1>9, <1>10
    <3>2. IsFiniteSet(Days)
      BY <1>1
    <3> QED
      BY <3>1, <3>2, PartMore
  <2>2. Part(k, Days) = Part(daily, Days) + Part(f, Days)
    <3>1. \A d \in Days : daily[d] \in Int /\ f[d] \in Int /\ k[d] = daily[d] + f[d]
      BY <1>a
    <3>2. IsFiniteSet(Days)
      BY <1>1
    <3> QED
      BY <3>1, <3>2, PartPlus
  <2>3. Part(f, Days) = p[N + 1] - p[0]
    <3>1. Part(f, 0..N) = p[N + 1] - p[0]
      BY <1>1, <1>a, PartTelescopes
    <3> QED
      BY <1>1, <3>1
  <2>4. Part(f, Days) <= delta
    BY <1>1, <1>6, <2>3
  <2>5. Part(new, Days) \in Int /\ Part(daily, Days) \in Int /\ Part(f, Days) \in Int
    <3>1. \A d \in Days : new[d] \in Int
      BY <1>10
    <3>2. Part(new, Days) \in Int
      BY <1>1, <3>1, PartType
    <3>3. Part(daily, Days) \in Int
      BY <1>1, <1>a, PartType
    <3>4. Part(f, Days) \in Int
      BY <1>1, <1>a, PartType
    <3> QED
      BY <3>2, <3>3, <3>4
  <2> QED
    BY <2>1, <2>2, <2>4, <2>5
<1>13. ASSUME NEW d \in Days, to < d * DayLength, daily[d] = 0 PROVE new[d] = 0
  <2>1. d \in 0..(N + 1) /\ d + 1 \in 0..(N + 1) /\ d \in Int /\ d + 1 \in Int
    BY <1>1
  <2>2. to < (d + 1) * DayLength
    <3>1. d * DayLength \in Int /\ (d + 1) * DayLength \in Int /\ d * DayLength <= (d + 1) * DayLength
      BY <1>3, <2>1
    <3> QED
      BY <1>13, <3>1
  <2>3. E(d * DayLength) = to /\ E((d + 1) * DayLength) = to
    BY <1>3, <1>13, <2>1, <2>2 DEF Edge
  <2>4. p[d] = delta /\ p[d + 1] = delta
    BY <2>1, <2>3, ShareFacts DEF p
  <2>5. k[d] = 0
    BY <1>9, <1>13, <2>4
  <2> QED
    BY <1>7, <2>5
<1>14. ASSUME NEW s \in Days, Cutoff(to) <= s * DayLength
       PROVE  LET rest == {d \in Days : s <= d}
              IN  Part(new, rest) = Part(daily, rest) + delta - Share(delta, from, to, E(s * DayLength))
  <2> DEFINE rest == {d \in Days : s <= d}
  <2>1. rest = s..N /\ s \in 0..N /\ rest \in SUBSET Days
    BY <1>1
  <2>2. IsFiniteSet(rest)
    BY <1>1, <2>1, FS_Subset
  <2>3. ASSUME NEW d \in rest PROVE new[d] = k[d]
    <3>1. (d - s) * DayLength >= 0 /\ (d - s) * DayLength = d * DayLength - s * DayLength
      BY <1>1, <1>2, <2>1
    <3>2. d * DayLength \in Int /\ s * DayLength \in Int
      BY <1>1, <1>2, <2>1
    <3>3. Cutoff(to) \in Int
      BY EdgeFacts
    <3>4. ~(d * DayLength < Cutoff(to))
      BY <1>14, <3>1, <3>2, <3>3
    <3> QED
      BY <1>7, <2>1, <3>4
  <2> HIDE DEF rest
  <2>4. Part(new, rest) = Part(k, rest)
    BY <2>3, PartSame
  <2>5. Part(k, rest) = Part(daily, rest) + Part(f, rest)
    <3>1. \A d \in rest : daily[d] \in Int /\ f[d] \in Int /\ k[d] = daily[d] + f[d]
      BY <1>a, <2>1
    <3> QED
      BY <2>2, <3>1, PartPlus
  <2>6. Part(f, rest) = p[N + 1] - p[s]
    <3>1. \A i \in 0..(N + 1) : p[i] \in Int
      BY <1>6
    <3>2. \A i \in 0..N : f[i] = p[i + 1] - p[i]
      BY <1>1, <1>9
    <3> QED
      BY <1>1, <2>1, <3>1, <3>2, TelescopesFrom
  <2>7. p[s] = Share(delta, from, to, E(s * DayLength)) /\ p[s] \in Int /\ p[N + 1] = delta
    <3>1. s \in 0..(N + 1)
      BY <1>1, <2>1
    <3> QED
      BY <1>6, <3>1 DEF p
  <2>8. Part(daily, rest) \in Int
    <3>1. \A d \in rest : daily[d] \in Int
      BY <1>a, <2>1
    <3> QED
      BY <2>2, <3>1, PartType
  <2>9. Part(new, rest) = Part(daily, rest) + delta - p[s]
    BY <2>4, <2>5, <2>6, <2>7, <2>8
  <2> QED
    BY <2>7, <2>9 DEF rest
<1> QED
  BY <1>11, <1>12, <1>13, <1>14 DEF new

LEMMA DailyType ==
    ASSUME NEW daily \in [Days -> Nat], NEW delta \in Nat,
           NEW from \in Int, NEW to \in Int, to <= LastTime + 1
    PROVE  Daily(daily, delta, from, to) \in [Days -> Nat]
<1>1. CASE from = Never \/ to <= from
  BY <1>1 DEF Daily
<1>2. CASE ~(from = Never \/ to <= from)
  BY <1>2, DailyFacts
<1> QED
  BY <1>1, <1>2

LEMMA CycleShareType ==
    ASSUME NEW delta \in Nat, NEW start \in Int, NEW from \in Int, NEW to \in Int
    PROVE  CycleShare(delta, start, from, to) \in Int
<1>1. CASE from = Never \/ to <= from \/ from >= start
  BY <1>1 DEF CycleShare
<1>2. CASE ~(from = Never \/ to <= from \/ from >= start) /\ to <= start
  BY <1>2 DEF CycleShare
<1>3. CASE ~(from = Never \/ to <= from \/ from >= start) /\ ~(to <= start)
  <2> DEFINE k == 2 * (to - from)
             a == 2 * delta * (to - start) + (to - from)
  <2>1. k \in Nat \ {0} /\ a \in Int
    BY <1>3
  <2>2. CycleShare(delta, start, from, to) = a \div k
    BY <1>3 DEF CycleShare
  <2> HIDE DEF a, k
  <2>3. a \div k \in Int
    BY <2>1, DayBounds
  <2> QED
    BY <2>2, <2>3
<1> QED
  BY <1>1, <1>2, <1>3

(* The account after a report.                                              *)
LEMMA ChargeFacts ==
    ASSUME Clock, NEW n \in Account, Begins(n), NEW r \in Report
    PROVE  LET c == Charge(n, r)
               m == Rollover(n, To(r))
           IN  /\ c \in Account /\ Begins(c)
               /\ c.last = r /\ c.seen = time /\ c.baseline = TRUE
               /\ c.daily = IF Known(n, r) THEN Daily(n.daily, Added(n, r), From(n), To(r))
                            ELSE n.daily
               /\ c.start = m.start /\ c.reset = n.reset /\ c.corrected = m.corrected
               /\ c.used = IF Added(n, r) > 0
                           THEN m.used + CycleShare(Added(n, r), Later(m.start, m.manual), From(n), To(r))
                           ELSE m.used
               /\ c.manual = IF To(r) >= m.manual THEN Never ELSE m.manual
               /\ c.newest = IF Older(n.newest, r) THEN [sent |-> r.sent, changes |-> r.changes]
                             ELSE n.newest
               /\ c.unordered = (n.unordered \/ To(r) > time \/ (Added(n, r) > 0 /\ To(r) <= From(n)))
               /\ c.rewound = (n.rewound
                               \/ (Known(n, r) /\ (Older(r, n.last) \/ Older(n.last, n.newest))))
<1> DEFINE m == Rollover(n, To(r))
           c == Charge(n, r)
           daily == IF Known(n, r) THEN Daily(n.daily, Added(n, r), From(n), To(r)) ELSE n.daily
           used == IF Added(n, r) > 0
                   THEN m.used + CycleShare(Added(n, r), Later(m.start, m.manual), From(n), To(r))
                   ELSE m.used
           manual == IF To(r) >= m.manual THEN Never ELSE m.manual
           newest == IF Older(n.newest, r) THEN [sent |-> r.sent, changes |-> r.changes] ELSE n.newest
           unordered == n.unordered \/ To(r) > time \/ (Added(n, r) > 0 /\ To(r) <= From(n))
           rewound == n.rewound \/ (Known(n, r) /\ (Older(r, n.last) \/ Older(n.last, n.newest)))
<1>1. m \in Account /\ Begins(m) /\ m.daily = n.daily /\ m.reset = n.reset /\ m.newest = n.newest
      /\ m.unordered = n.unordered /\ m.rewound = n.rewound
  BY ToFacts, RolloverFacts
<1>2. c = [m EXCEPT !.last = r, !.seen = time, !.baseline = TRUE,
             !.daily = IF Known(n, r) THEN Daily(m.daily, Added(n, r), From(n), To(r)) ELSE m.daily,
             !.used = used,
             !.manual = manual,
             !.unordered = m.unordered \/ To(r) > time \/ (Added(n, r) > 0 /\ To(r) <= From(n)),
             !.newest = IF Older(m.newest, r) THEN [sent |-> r.sent, changes |-> r.changes]
                        ELSE m.newest,
             !.rewound = m.rewound \/ (Known(n, r) /\ (Older(r, n.last) \/ Older(n.last, n.newest)))]
  BY Zenon DEF Charge, From, To, Known, Added
<1>3. c = [m EXCEPT !.last = r, !.seen = time, !.baseline = TRUE, !.daily = daily,
             !.used = used, !.manual = manual, !.unordered = unordered, !.newest = newest,
             !.rewound = rewound]
  BY <1>1, <1>2
<1>4. n.last \in Report \cup {NoReport} /\ n.seen \in Int /\ n.daily \in [Days -> Nat]
      /\ n.newest \in Stamp /\ n.unordered \in BOOLEAN /\ n.rewound \in BOOLEAN
  BY DEF Account
<1>5. time \in Int /\ time <= LastTime /\ LastTime \in Int
  BY MonthFacts DEF Clock
<1>6. To(r) \in Int /\ To(r) <= LastTime + 1
  BY <1>5, ToFacts
<1>7. From(n) \in Int
  <2>1. NoReport.at \in Int
    BY DEF NoReport, Never
  <2>2. \A q \in Report : q.at \in Int
    BY DEF Report
  <2>3. n.last.at \in Int
    BY <1>4, <2>1, <2>2
  <2> QED
    BY <1>4, <2>3, SampleFacts DEF From
<1>8. Added(n, r) \in Nat
  <2>1. Known(n, r) => n.last \in Report
    BY <1>4 DEF Known, Comparable
  <2> QED
    BY <2>1, DeltaNatural DEF Added
<1>9. daily \in [Days -> Nat]
  <2>1. Daily(n.daily, Added(n, r), From(n), To(r)) \in [Days -> Nat]
    BY <1>4, <1>6, <1>7, <1>8, DailyType
  <2> QED
    BY <1>4, <2>1
<1>10. m.start \in Int /\ m.manual \in Int /\ m.used \in Int
  BY <1>1 DEF Account
<1>11. used \in Int /\ manual \in Int
  <2>1. Later(m.start, m.manual) \in Int
    BY <1>10 DEF Later
  <2>2. CycleShare(Added(n, r), Later(m.start, m.manual), From(n), To(r)) \in Int
    BY <1>6, <1>7, <1>8, <2>1, CycleShareType
  <2> QED
    BY <1>10, <2>2 DEF Never
<1>12. newest \in Stamp
  <2>1. [sent |-> r.sent, changes |-> r.changes] \in Stamp
    BY DEF Report, Stamp
  <2> QED
    BY <1>4, <2>1
<1>13. unordered \in BOOLEAN /\ rewound \in BOOLEAN
  BY <1>4
<1> HIDE DEF m, c, daily, used, manual, newest, unordered, rewound
<1>14. c \in Account
  <2> DEFINE c1 == [m EXCEPT !.last = r]
             c2 == [c1 EXCEPT !.seen = time]
             c3 == [c2 EXCEPT !.baseline = TRUE]
             c4 == [c3 EXCEPT !.daily = daily]
             c5 == [c4 EXCEPT !.used = used]
             c6 == [c5 EXCEPT !.manual = manual]
             c7 == [c6 EXCEPT !.unordered = unordered]
             c8 == [c7 EXCEPT !.newest = newest]
             c9 == [c8 EXCEPT !.rewound = rewound]
  <2>1. c = c9
    BY <1>3
  <2>2. c1 \in Account
    BY <1>1, AccountExcept
  <2> HIDE DEF c1
  <2>3. c2 \in Account
    BY <1>5, <2>2, AccountExcept
  <2> HIDE DEF c2
  <2>4. c3 \in Account
    BY <2>3, AccountExcept
  <2> HIDE DEF c3
  <2>5. c4 \in Account
    BY <1>9, <2>4, AccountExcept
  <2> HIDE DEF c4
  <2>6. c5 \in Account
    BY <1>11, <2>5, AccountExcept
  <2> HIDE DEF c5
  <2>7. c6 \in Account
    BY <1>11, <2>6, AccountExcept
  <2> HIDE DEF c6
  <2>8. c7 \in Account
    BY <1>13, <2>7, AccountExcept
  <2> HIDE DEF c7
  <2>9. c8 \in Account
    BY <1>12, <2>8, AccountExcept
  <2> HIDE DEF c8
  <2>10. c9 \in Account
    BY <1>13, <2>9, AccountExcept
  <2> QED
    BY <2>1, <2>10
<1>15. /\ c.last = r /\ c.seen = time /\ c.baseline = TRUE /\ c.daily = daily
       /\ c.start = m.start /\ c.reset = m.reset /\ c.corrected = m.corrected
       /\ c.used = used /\ c.manual = manual /\ c.newest = newest
       /\ c.unordered = unordered /\ c.rewound = rewound
  BY <1>1, <1>3 DEF Account
<1>16. Begins(c)
  BY <1>1, <1>15 DEF Begins
<1> QED
  BY <1>1, <1>14, <1>15, <1>16 DEF m, c, daily, used, manual, newest, unordered, rewound
(* The account after an edit.                                               *)
CycleDays(start) == {d \in Days : DayOf(start) <= d}
DaysTillNow(start) == {d \in Days : DayOf(start) <= d /\ d <= DayOf(time)}

LEMMA ChangeFacts ==
    ASSUME Clock, NEW n \in Account, Begins(n), NEW r \in ResetDays
    PROVE  LET m == ChangeResetDay(n, r)
               start == CycleStart(r, time)
           IN  /\ m \in Account /\ Begins(m)
               /\ m.last = n.last /\ m.seen = n.seen /\ m.baseline = n.baseline
               /\ m.daily = n.daily /\ m.newest = n.newest
               /\ m.unordered = n.unordered /\ m.rewound = n.rewound
               /\ m.reset = r /\ m.start = start
               /\ m.used = IF n.start = start THEN n.used ELSE Part(n.daily, DaysTillNow(start))
               /\ m.manual = IF n.start = start THEN n.manual ELSE Never
               /\ m.corrected = IF n.start = start THEN n.corrected ELSE FALSE
<1> DEFINE m == ChangeResetDay(n, r)
           start == CycleStart(r, time)
           used == Part(n.daily, DaysTillNow(start))
<1>1. start \in Nat /\ \E k \in 1..(Len(Months) - 1) : start = StartIn(r, k)
  BY ClockBelieved, CycleStartFacts
<1>2. m = IF n.start = start THEN [n EXCEPT !.reset = r]
          ELSE [n EXCEPT !.reset = r, !.start = start, !.manual = Never, !.corrected = FALSE,
                         !.used = used]
  BY Zenon DEF ChangeResetDay, Part, DaysTillNow
<1>3. used \in Int
  <2>1. DaysTillNow(start) \in SUBSET Days
    BY DEF DaysTillNow
  <2>2. n.daily \in [Days -> Nat]
    BY DEF Account
  <2>3. IsFiniteSet(DaysTillNow(start)) /\ \A d \in DaysTillNow(start) : n.daily[d] \in Int
    BY <2>1, <2>2, DaysFinite, FS_Subset
  <2> QED
    BY <2>3, PartType
<1> HIDE DEF m, start, used
<1>4. CASE n.start = start
  <2>1. m = [n EXCEPT !.reset = r]
    BY <1>2, <1>4
  <2>2. m \in Account
    BY <2>1, AccountExcept
  <2>3. /\ m.last = n.last /\ m.seen = n.seen /\ m.baseline = n.baseline
        /\ m.daily = n.daily /\ m.newest = n.newest
        /\ m.unordered = n.unordered /\ m.rewound = n.rewound
        /\ m.reset = r /\ m.start = start /\ m.used = n.used
        /\ m.manual = n.manual /\ m.corrected = n.corrected
    BY <1>4, <2>1 DEF Account
  <2>4. Begins(m)
    BY <1>1, <2>3 DEF Begins
  <2> QED
    BY <1>4, <2>2, <2>3, <2>4 DEF m, start, used
<1>5. CASE n.start # start
  <2>1. m = [n EXCEPT !.reset = r, !.start = start, !.manual = Never, !.corrected = FALSE,
                      !.used = used]
    BY <1>2, <1>5
  <2>2. m \in Account
    <3> DEFINE n1 == [n EXCEPT !.reset = r]
               n2 == [n1 EXCEPT !.start = start]
               n3 == [n2 EXCEPT !.manual = Never]
               n4 == [n3 EXCEPT !.corrected = FALSE]
               n5 == [n4 EXCEPT !.used = used]
    <3>1. m = n5
      BY <2>1
    <3>2. n1 \in Account
      BY AccountExcept
    <3> HIDE DEF n1
    <3>3. n2 \in Account
      BY <1>1, <3>2, AccountExcept
    <3> HIDE DEF n2
    <3>4. n3 \in Account
      BY <3>3, AccountExcept DEF Never
    <3> HIDE DEF n3
    <3>5. n4 \in Account
      BY <3>4, AccountExcept
    <3> HIDE DEF n4
    <3>6. n5 \in Account
      BY <1>3, <3>5, AccountExcept
    <3> QED
      BY <3>1, <3>6
  <2>3. /\ m.last = n.last /\ m.seen = n.seen /\ m.baseline = n.baseline
        /\ m.daily = n.daily /\ m.newest = n.newest
        /\ m.unordered = n.unordered /\ m.rewound = n.rewound
        /\ m.reset = r /\ m.start = start /\ m.used = used
        /\ m.manual = Never /\ m.corrected = FALSE
    BY <2>1 DEF Account
  <2>4. Begins(m)
    BY <1>1, <2>3 DEF Begins
  <2> QED
    BY <1>5, <2>2, <2>3, <2>4 DEF m, start, used
<1> QED
  BY <1>4, <1>5

LEMMA ApplyFacts ==
    ASSUME Clock, NEW n \in Account, Begins(n), NEW e, e.reset \in ResetDays,
           e.correct \in BOOLEAN
    PROVE  LET m == ApplyOptions(n, e)
               moved == ChangeResetDay(Rollover(n, time), e.reset)
           IN  /\ m \in Account /\ Begins(m)
               /\ m.last = n.last /\ m.seen = n.seen /\ m.baseline = n.baseline
               /\ m.daily = n.daily /\ m.newest = n.newest
               /\ m.unordered = n.unordered /\ m.rewound = n.rewound
               /\ m.reset = e.reset /\ m.start = moved.start
               /\ m.used = IF e.correct THEN 0 ELSE moved.used
               /\ m.manual = IF e.correct THEN time ELSE moved.manual
               /\ m.corrected = IF e.correct THEN TRUE ELSE moved.corrected
<1> DEFINE m == ApplyOptions(n, e)
           rolled == Rollover(n, time)
           moved == ChangeResetDay(rolled, e.reset)
<1>1. /\ rolled \in Account /\ Begins(rolled)
      /\ rolled.last = n.last /\ rolled.seen = n.seen /\ rolled.baseline = n.baseline
      /\ rolled.daily = n.daily /\ rolled.newest = n.newest
      /\ rolled.unordered = n.unordered /\ rolled.rewound = n.rewound
  BY ClockBelieved, RolloverFacts
<1> HIDE DEF rolled
<1>2. /\ moved \in Account /\ Begins(moved)
      /\ moved.last = n.last /\ moved.seen = n.seen /\ moved.baseline = n.baseline
      /\ moved.daily = n.daily /\ moved.newest = n.newest
      /\ moved.unordered = n.unordered /\ moved.rewound = n.rewound
      /\ moved.reset = e.reset
  BY <1>1, ChangeFacts
<1>3. m = IF e.correct THEN [moved EXCEPT !.used = 0, !.manual = time, !.corrected = TRUE]
          ELSE moved
  BY DEF ApplyOptions, rolled
<1>4. time \in Int
  BY MonthFacts DEF Clock
<1> HIDE DEF m, moved
<1>5. CASE e.correct
  <2>1. m = [moved EXCEPT !.used = 0, !.manual = time, !.corrected = TRUE]
    BY <1>3, <1>5
  <2>2. m \in Account
    <3> DEFINE n1 == [moved EXCEPT !.used = 0]
               n2 == [n1 EXCEPT !.manual = time]
               n3 == [n2 EXCEPT !.corrected = TRUE]
    <3>1. m = n3
      BY <2>1
    <3>2. n1 \in Account
      BY <1>2, AccountExcept
    <3> HIDE DEF n1
    <3>3. n2 \in Account
      BY <1>4, <3>2, AccountExcept
    <3> HIDE DEF n2
    <3>4. n3 \in Account
      BY <3>3, AccountExcept
    <3> QED
      BY <3>1, <3>4
  <2>3. /\ m.last = moved.last /\ m.seen = moved.seen /\ m.baseline = moved.baseline
        /\ m.daily = moved.daily /\ m.newest = moved.newest
        /\ m.unordered = moved.unordered /\ m.rewound = moved.rewound
        /\ m.reset = moved.reset /\ m.start = moved.start /\ m.used = 0
        /\ m.manual = time /\ m.corrected = TRUE
    BY <1>2, <2>1 DEF Account
  <2>4. Begins(m)
    BY <1>2, <2>3 DEF Begins
  <2> QED
    BY <1>2, <1>5, <2>2, <2>3, <2>4 DEF m, moved, rolled
<1>6. CASE ~e.correct
  BY <1>2, <1>3, <1>6 DEF m, moved, rolled
<1> QED
  BY <1>5, <1>6

-----------------------------------------------------------------------------
(* Type correctness.                                                        *)
LEMMA AccountsTyped ==
    TrafficTypeOK => \A n \in Accounts : n \in Account /\ Begins(n)
BY DEF TrafficTypeOK, Accounts, Edit

(* The host and the reports on their way.                                   *)
LEMMA ReportMade ==
    ASSUME host \in Host, sent \in Nat, Clock
    PROVE  [at |-> time + host.offset, uptime |-> time - host.since, boot |-> host.boot,
            sentAt |-> time, sent |-> sent, changes |-> host.changes,
            counters |-> [i \in host.selected |-> host.raw[i]]] \in Report
<1>1. /\ host.offset \in Int /\ host.since \in Int /\ host.boot \in Nat /\ host.changes \in Nat
      /\ host.selected \in SUBSET Interfaces /\ host.raw \in [Interfaces -> Nat]
  BY DEF Host
<1>2. time \in Int
  BY MonthFacts DEF Clock
<1>3. [i \in host.selected |-> host.raw[i]] \in [host.selected -> Nat]
  BY <1>1
<1>4. [i \in host.selected |-> host.raw[i]] \in Counts
  BY <1>1, <1>3 DEF Counts
<1> DEFINE c == [i \in host.selected |-> host.raw[i]]
<1> HIDE DEF c
<1>5. /\ time + host.offset \in Int /\ time - host.since \in Int
      /\ c \in Counts
  BY <1>1, <1>2, <1>4 DEF c
<1>6. [at |-> time + host.offset, uptime |-> time - host.since, boot |-> host.boot,
       sentAt |-> time, sent |-> sent, changes |-> host.changes, counters |-> c] \in Report
  BY <1>1, <1>2, <1>5 DEF Report
<1> QED
  BY <1>6 DEF c

LEMMA HostExcept ==
    ASSUME NEW h \in Host
    PROVE  /\ \A v \in Nat : [h EXCEPT !.boot = v] \in Host
           /\ \A v \in Int : [h EXCEPT !.since = v] \in Host
           /\ \A v \in [Interfaces -> Nat] : [h EXCEPT !.raw = v] \in Host
           /\ \A v \in SUBSET Interfaces : [h EXCEPT !.selected = v] \in Host
           /\ \A v \in Int : [h EXCEPT !.offset = v] \in Host
           /\ \A v \in Nat : [h EXCEPT !.changes = v] \in Host
<1>1. /\ \A v \in Nat : [h EXCEPT !.boot = v] \in Host
      /\ \A v \in Int : [h EXCEPT !.since = v] \in Host
  BY DEF Host
<1>2. /\ \A v \in [Interfaces -> Nat] : [h EXCEPT !.raw = v] \in Host
      /\ \A v \in SUBSET Interfaces : [h EXCEPT !.selected = v] \in Host
  BY DEF Host
<1>3. /\ \A v \in Int : [h EXCEPT !.offset = v] \in Host
      /\ \A v \in Nat : [h EXCEPT !.changes = v] \in Host
  BY DEF Host
<1> QED
  BY <1>1, <1>2, <1>3

(* How the steps of the host change it.                                     *)
LEMMA HostSteps ==
    ASSUME host \in Host, Clock
    PROVE  /\ \A i \in Interfaces : Transfer(i) =>
                 /\ host' \in Host /\ sent' = sent + 1 /\ UNCHANGED <<flight, incidents>>
                 /\ host'.raw = [host.raw EXCEPT ![i] = @ + 1]
                 /\ host'.boot = host.boot /\ host'.changes = host.changes
           /\ \A i \in Interfaces : Recreate(i) =>
                 /\ host' \in Host /\ UNCHANGED <<flight, sent>> /\ incidents' = incidents + 1
                 /\ \E b \in Nat : b <= host.raw[i] /\ host'.raw = [host.raw EXCEPT ![i] = b]
                 /\ host'.boot = host.boot /\ host'.changes = host.changes + 1
           /\ Reboot =>
                 /\ host' \in Host /\ UNCHANGED <<flight, sent>> /\ incidents' = incidents + 1
                 /\ host'.boot = host.boot + 1 /\ host'.changes = host.changes + 1
           /\ \A S \in SUBSET Interfaces \ {{}}, o \in Offsets : Reconfigure(S, o) =>
                 /\ host' \in Host /\ UNCHANGED <<flight, sent>> /\ incidents' = incidents + 1
                 /\ host'.boot = host.boot /\ host'.raw = host.raw
                 /\ host'.changes = host.changes + 1
<1>1. /\ host.boot \in Nat /\ host.changes \in Nat /\ host.raw \in [Interfaces -> Nat]
      /\ time \in Int
  BY MonthFacts DEF Host, Clock
<1>2. ASSUME NEW i \in Interfaces, Transfer(i)
      PROVE  /\ host' \in Host /\ sent' = sent + 1 /\ UNCHANGED <<flight, incidents>>
             /\ host'.raw = [host.raw EXCEPT ![i] = @ + 1]
             /\ host'.boot = host.boot /\ host'.changes = host.changes
  <2> DEFINE raw == [host.raw EXCEPT ![i] = @ + 1]
  <2>1. raw \in [Interfaces -> Nat]
    BY <1>1
  <2>2. host' = [host EXCEPT !.raw = raw] /\ sent' = sent + 1 /\ UNCHANGED <<flight, incidents>>
    BY <1>2 DEF Transfer
  <2> HIDE DEF raw
  <2>3. host'.raw = raw /\ host'.boot = host.boot /\ host'.changes = host.changes
    BY <2>2 DEF Host
  <2>4. host' \in Host
    BY <2>1, <2>2, HostExcept
  <2> QED
    BY <2>2, <2>3, <2>4 DEF raw
<1>3. ASSUME NEW i \in Interfaces, Recreate(i)
      PROVE  /\ host' \in Host /\ UNCHANGED <<flight, sent>> /\ incidents' = incidents + 1
             /\ \E b \in Nat : b <= host.raw[i] /\ host'.raw = [host.raw EXCEPT ![i] = b]
             /\ host'.boot = host.boot /\ host'.changes = host.changes + 1
  <2>1. PICK b \in 0..(host.raw[i] - 1) : host' = [host EXCEPT !.raw[i] = b, !.changes = @ + 1]
    BY <1>3, Zenon DEF Recreate
  <2>2. b \in Nat /\ b <= host.raw[i]
    BY <1>1
  <2> DEFINE raw == [host.raw EXCEPT ![i] = b]
             h == [host EXCEPT !.raw = raw]
  <2>3. raw \in [Interfaces -> Nat]
    BY <1>1, <2>2
  <2>4. host' = [h EXCEPT !.changes = host.changes + 1]
    BY <2>1, Zenon
  <2> HIDE DEF raw
  <2>5. h \in Host /\ h.raw = raw /\ h.boot = host.boot
    BY <2>3, HostExcept DEF Host
  <2> HIDE DEF h
  <2>6. host' \in Host
    BY <1>1, <2>4, <2>5, HostExcept
  <2>7. host'.raw = raw /\ host'.boot = host.boot /\ host'.changes = host.changes + 1
    BY <2>4, <2>5 DEF Host
  <2>8. UNCHANGED <<flight, sent>> /\ incidents' = incidents + 1
    BY <1>3, Zenon DEF Recreate, Incident
  <2> QED
    BY <2>2, <2>6, <2>7, <2>8 DEF raw
<1>4. ASSUME Reboot
      PROVE  /\ host' \in Host /\ UNCHANGED <<flight, sent>> /\ incidents' = incidents + 1
             /\ host'.boot = host.boot + 1 /\ host'.changes = host.changes + 1
  <2> DEFINE z == [i \in Interfaces |-> 0]
             h1 == [host EXCEPT !.boot = host.boot + 1]
             h2 == [h1 EXCEPT !.since = time]
             h3 == [h2 EXCEPT !.changes = host.changes + 1]
  <2>1. host' = [host EXCEPT !.boot = @ + 1, !.since = time, !.changes = @ + 1, !.raw = z]
    BY <1>4, Zenon DEF Reboot
  <2>2. z \in [Interfaces -> Nat]
    OBVIOUS
  <2> HIDE DEF z
  <2>3. h1 \in Host
    BY <1>1, HostExcept
  <2>4. h2 \in Host
    <3> HIDE DEF h1
    <3> QED
      BY <1>1, <2>3, HostExcept
  <2>5. h2.changes = host.changes /\ h2.boot = host.boot + 1
    BY DEF Host
  <2>6. h3 \in Host /\ h3.boot = host.boot + 1 /\ h3.changes = host.changes + 1
    <3> HIDE DEF h2
    <3>1. host.changes + 1 \in Nat
      BY <1>1
    <3>2. h3 \in Host
      BY <2>4, <3>1, HostExcept
    <3>3. h3.boot = host.boot + 1 /\ h3.changes = host.changes + 1
      BY <2>4, <2>5 DEF Host
    <3> QED
      BY <3>2, <3>3
  <2>7. host' = [h3 EXCEPT !.raw = z]
    <3>1. h1.since = host.since
      BY DEF Host
    <3> QED
      BY <2>1, <2>5
  <2> HIDE DEF h3
  <2>8. host' \in Host /\ host'.boot = host.boot + 1 /\ host'.changes = host.changes + 1
    BY <2>2, <2>6, <2>7, HostExcept DEF Host
  <2>9. UNCHANGED <<flight, sent>> /\ incidents' = incidents + 1
    BY <1>4, Zenon DEF Reboot, Incident
  <2> QED
    BY <2>8, <2>9
<1>5. ASSUME NEW S \in SUBSET Interfaces \ {{}}, NEW o \in Offsets, Reconfigure(S, o)
      PROVE  /\ host' \in Host /\ UNCHANGED <<flight, sent>> /\ incidents' = incidents + 1
             /\ host'.boot = host.boot /\ host'.raw = host.raw
             /\ host'.changes = host.changes + 1
  <2>1. o \in Int /\ S \in SUBSET Interfaces
    BY TrafficAssumption
  <2> DEFINE h1 == [host EXCEPT !.selected = S]
             h2 == [h1 EXCEPT !.offset = o]
  <2>2. h1 \in Host
    BY <2>1, HostExcept
  <2>3. h2 \in Host
    <3> HIDE DEF h1
    <3> QED
      BY <2>1, <2>2, HostExcept
  <2>4. host' = [host EXCEPT !.selected = S, !.offset = o, !.changes = @ + 1]
    BY <1>5, Zenon DEF Reconfigure
  <2>5. h2.changes = host.changes /\ h2.raw = host.raw /\ h2.boot = host.boot
    BY DEF Host
  <2>6. host' = [h2 EXCEPT !.changes = host.changes + 1]
    BY <2>4, <2>5
  <2> HIDE DEF h2
  <2>7. /\ host' \in Host /\ host'.boot = host.boot /\ host'.raw = host.raw
        /\ host'.changes = host.changes + 1
    <3>1. host.changes + 1 \in Nat
      BY <1>1
    <3>2. host' \in Host
      BY <2>3, <2>6, <3>1, HostExcept
    <3>3. host'.boot = host.boot /\ host'.raw = host.raw /\ host'.changes = host.changes + 1
      BY <2>3, <2>5, <2>6 DEF Host
    <3> QED
      BY <3>2, <3>3
  <2>8. UNCHANGED <<flight, sent>> /\ incidents' = incidents + 1
    BY <1>5, Zenon DEF Reconfigure, Incident
  <2> QED
    BY <2>7, <2>8
<1> QED
  BY <1>2, <1>3, <1>4, <1>5

LEMMA HostTyped ==
    ASSUME TrafficTypeOK, [TrafficNext]_trafficVars
    PROVE  host' \in Host /\ sent' \in Nat /\ incidents' \in Nat /\ flight' \in SUBSET Report
<1>1. /\ host \in Host /\ sent \in Nat /\ incidents \in Nat /\ flight \in SUBSET Report /\ Clock
      /\ time \in Int
  BY MonthFacts DEF TrafficTypeOK, Clock
<1>2. CASE UNCHANGED <<host, sent, incidents>> /\ flight' \in SUBSET flight
  BY <1>1, <1>2
<1>3. CASE \E i \in Interfaces : Transfer(i) \/ Recreate(i)
  <2>1. PICK i \in Interfaces : Transfer(i) \/ Recreate(i)
    BY <1>3
  <2>2. CASE Transfer(i)
    <3>1. host' \in Host /\ sent' = sent + 1 /\ UNCHANGED <<flight, incidents>>
      BY <1>1, <2>2, HostSteps
    <3> QED
      BY <1>1, <3>1
  <2>3. CASE Recreate(i)
    <3>1. host' \in Host /\ UNCHANGED <<flight, sent>> /\ incidents' = incidents + 1
      BY <1>1, <2>3, HostSteps
    <3> QED
      BY <1>1, <3>1
  <2> QED
    BY <2>1, <2>2, <2>3
<1>5. CASE Reboot
  BY <1>1, <1>5, HostSteps
<1>6. CASE \E S \in SUBSET Interfaces \ {{}}, o \in Offsets : Reconfigure(S, o)
  BY <1>1, <1>6, HostSteps
<1>7. CASE SendReport
  <2> DEFINE r == [at |-> time + host.offset, uptime |-> time - host.since, boot |-> host.boot,
                   sentAt |-> time, sent |-> sent, changes |-> host.changes,
                   counters |-> [i \in host.selected |-> host.raw[i]]]
  <2>1. r \in Report
    BY <1>1, ReportMade
  <2>2. flight' = flight \cup {r} /\ UNCHANGED <<host, sent, incidents>>
    BY <1>7, Zenon DEF SendReport
  <2> HIDE DEF r
  <2> QED
    BY <1>1, <2>1, <2>2
<1>8. CASE \E r \in ResetDays, c \in BOOLEAN : BeginNodeEdit(r, c)
  <2>1. incidents' = incidents + 1 /\ UNCHANGED <<host, sent, flight>>
    BY <1>8, Zenon DEF BeginNodeEdit, Incident
  <2> QED
    BY <1>1, <2>1
<1>9. CASE PanelCrash
  <2>1. incidents' = incidents + 1 /\ UNCHANGED <<host, sent, flight>>
    BY <1>9, Zenon DEF PanelCrash, Incident
  <2> QED
    BY <1>1, <2>1
<1>10. CASE TrafficTick \/ BasicSeen \/ EditFails \/ EndEdit \/ SaveNode \/ UNCHANGED trafficVars
  <2>1. UNCHANGED <<host, sent, incidents, flight>>
    BY <1>10, Zenon DEF TrafficTick, BasicSeen, EditFails, EndEdit, SaveNode, trafficVars
  <2> QED
    BY <1>2, <2>1
<1>11. CASE Lose \/ Receive
  <2>1. UNCHANGED <<host, sent, incidents>> /\ \E r \in flight : flight' = flight \ {r}
    BY <1>11, Zenon DEF Lose, Receive
  <2> QED
    BY <1>2, <2>1
<1> QED
  BY <1>3, <1>5, <1>6, <1>7, <1>8, <1>9, <1>10, <1>11, Zenon DEF TrafficNext

(* What becomes of the accounts in a step: one is charged, seen or edited,  *)
(* the others were there.                                                   *)
Charged(n) == \E r \in flight : n = Charge(node, r) /\ ~Stale(r, node.last)
Seen(n)    == n = [node EXCEPT !.seen = time]
Edited(n)  == \E e : /\ e.reset \in ResetDays /\ e.correct \in BOOLEAN
                     /\ \/ n = ApplyOptions(node, e)
                        \/ e.correct /\ \E u \in Int : n = [ApplyOptions(node, e) EXCEPT !.used = u]

LEMMA AccountsNext ==
    ASSUME TrafficTypeOK, [TrafficNext]_trafficVars
    PROVE  /\ \A n \in Accounts' : n \in Accounts \/ Charged(n) \/ Seen(n) \/ Edited(n)
           /\ edit' = NoEdit \/ edit' \in [reset : ResetDays, correct : BOOLEAN, used : Int,
                                           start : Int, copy : Accounts']
<1> DEFINE Is(n) == n \in Accounts \/ Charged(n) \/ Seen(n) \/ Edited(n)
           EditSet == [reset : ResetDays, correct : BOOLEAN, used : Int, start : Int, copy : Accounts']
<1>1. node \in Account /\ saved \in Account /\ (edit # NoEdit => edit \in Edit)
  BY DEF TrafficTypeOK
<1>2. Is(node) /\ Is(saved) /\ (edit # NoEdit => Is(edit.copy))
  BY DEF Accounts
<1>3. ASSUME Is(node'), Is(saved'), edit' # NoEdit => Is(edit'.copy)
      PROVE  \A n \in Accounts' : Is(n)
  <2> SUFFICES ASSUME NEW n \in Accounts' PROVE Is(n)
    OBVIOUS
  <2>1. n = node' \/ n = saved' \/ (edit' # NoEdit /\ n = edit'.copy)
    BY DEF Accounts
  <2> HIDE DEF Is
  <2> QED
    BY <1>3, <2>1
<1>4. edit' # NoEdit => edit'.copy \in Accounts'
  BY DEF Accounts
<1>5. ASSUME edit' = edit PROVE edit' = NoEdit \/ edit' \in EditSet
  <2> SUFFICES ASSUME edit # NoEdit PROVE edit' \in EditSet
    BY <1>5
  <2>1. edit'.copy \in Accounts' /\ edit' \in Edit
    BY <1>1, <1>4, <1>5
  <2> QED
    BY <2>1 DEF Edit
<1>6. ASSUME NEW n, Charged(n) \/ Seen(n) \/ Edited(n) PROVE Is(n)
  BY <1>6
<1> DEFINE Goal == (\A n \in Accounts' : Is(n)) /\ (edit' = NoEdit \/ edit' \in EditSet)
<1>7. ASSUME UNCHANGED <<node, saved, edit>> PROVE Goal
  <2> HIDE DEF Is, EditSet
  <2>1. Is(node') /\ Is(saved') /\ (edit' # NoEdit => Is(edit'.copy)) /\ edit' = edit
    BY <1>2, <1>7
  <2> QED
    BY <1>3, <1>5, <2>1
<1>8. ASSUME Receive PROVE Goal
  <2>1. (node' = node \/ Charged(node')) /\ UNCHANGED <<saved, edit>>
    BY <1>8, Zenon DEF Receive, Charged
  <2> HIDE DEF Is, EditSet
  <2>2. Is(node')
    BY <1>2, <1>6, <2>1, Zenon
  <2>3. Is(saved') /\ (edit' # NoEdit => Is(edit'.copy)) /\ edit' = edit
    BY <1>2, <2>1
  <2> QED
    BY <1>3, <1>5, <2>2, <2>3
<1>9. ASSUME BasicSeen PROVE Goal
  <2>1. Seen(node') /\ UNCHANGED <<saved, edit>>
    BY <1>9, Zenon DEF BasicSeen, Seen
  <2> HIDE DEF Is, EditSet
  <2>2. Is(node')
    BY <1>6, <2>1, Zenon
  <2>3. Is(saved') /\ (edit' # NoEdit => Is(edit'.copy)) /\ edit' = edit
    BY <1>2, <2>1
  <2> QED
    BY <1>3, <1>5, <2>2, <2>3
<1>10. ASSUME NEW r \in ResetDays, NEW c \in BOOLEAN, BeginNodeEdit(r, c) PROVE Goal
  <2> DEFINE e == [reset |-> r, correct |-> c]
             m == ApplyOptions(node, e)
  <2>1. edit' = [reset |-> r, correct |-> c, used |-> node.used, start |-> node.start, copy |-> m]
        /\ UNCHANGED <<node, saved>>
    BY <1>10, Zenon DEF BeginNodeEdit
  <2>2. Edited(m)
    <3>1. e.reset \in ResetDays /\ e.correct \in BOOLEAN
      OBVIOUS
    <3> HIDE DEF e
    <3> QED
      BY <3>1, Zenon DEF Edited
  <2> HIDE DEF m
  <2>3. edit'.copy = m
    BY <2>1
  <2>4. \A n \in Accounts' : Is(n)
    <3> HIDE DEF Is
    <3>1. Is(m)
      BY <1>6, <2>2, Zenon
    <3>2. Is(node') /\ Is(saved') /\ (edit' # NoEdit => Is(edit'.copy))
      BY <1>2, <2>1, <2>3, <3>1
    <3> QED
      BY <1>3, <3>2
  <2>5. node.used \in Int /\ node.start \in Int
    BY <1>1 DEF Account
  <2>6. edit' # NoEdit => edit' \in EditSet
    <3> SUFFICES ASSUME edit' # NoEdit PROVE edit' \in EditSet
      OBVIOUS
    <3>1. m \in Accounts'
      BY <1>4, <2>3
    <3> QED
      BY <2>1, <2>5, <3>1
  <2> HIDE DEF Is, EditSet
  <2> QED
    BY <2>4, <2>6
<1>11. ASSUME EditFails PROVE Goal
  <2>1. edit' = NoEdit /\ UNCHANGED <<node, saved>>
    BY <1>11, Zenon DEF EditFails
  <2> HIDE DEF Is, EditSet
  <2>2. Is(node') /\ Is(saved') /\ edit' = NoEdit
    BY <1>2, <2>1
  <2> QED
    BY <1>3, <2>2
<1>12. ASSUME EndEdit PROVE Goal
  <2> DEFINE m == ApplyOptions(node, edit)
             u == IF node.start = edit.start THEN Later(0, node.used - edit.used) ELSE node.used
  <2>1. /\ edit # NoEdit /\ edit' = NoEdit /\ saved' = edit.copy
        /\ node' = IF edit.correct THEN [m EXCEPT !.used = u] ELSE m
    BY <1>12, Zenon DEF EndEdit
  <2>2. edit.reset \in ResetDays /\ edit.correct \in BOOLEAN /\ edit.used \in Int
    BY <1>1, <2>1 DEF Edit
  <2>3. u \in Int
    BY <1>1, <2>2 DEF Account, Later
  <2> HIDE DEF u
  <2>4. Edited(node')
    <3>1. CASE edit.correct
      <4>1. node' = [ApplyOptions(node, edit) EXCEPT !.used = u]
        BY <2>1, <3>1, Zenon
      <4> QED
        BY <2>2, <2>3, <3>1, <4>1, Zenon DEF Edited
    <3>2. CASE ~edit.correct
      <4>1. node' = ApplyOptions(node, edit)
        BY <2>1, <3>2, Zenon
      <4> QED
        BY <2>2, <4>1, Zenon DEF Edited
    <3> QED
      BY <3>1, <3>2
  <2> HIDE DEF Is, EditSet, m
  <2>5. Is(node')
    BY <1>6, <2>4, Zenon
  <2>6. Is(saved') /\ edit' = NoEdit
    BY <1>2, <2>1
  <2> QED
    BY <1>3, <2>5, <2>6
<1>13. ASSUME SaveNode PROVE Goal
  <2>1. saved' = node /\ UNCHANGED <<node, edit>>
    BY <1>13, Zenon DEF SaveNode
  <2> HIDE DEF Is, EditSet
  <2>2. Is(node') /\ Is(saved') /\ (edit' # NoEdit => Is(edit'.copy)) /\ edit' = edit
    BY <1>2, <2>1
  <2> QED
    BY <1>3, <1>5, <2>2
<1>14. ASSUME PanelCrash PROVE Goal
  <2>1. node' = saved /\ edit' = NoEdit /\ UNCHANGED saved
    BY <1>14, Zenon DEF PanelCrash
  <2> HIDE DEF Is, EditSet
  <2>2. Is(node') /\ Is(saved') /\ edit' = NoEdit
    BY <1>2, <2>1
  <2> QED
    BY <1>3, <2>2
<1>15. ASSUME TrafficTick \/ Reboot \/ SendReport \/ Lose
              \/ (\E i \in Interfaces : Transfer(i) \/ Recreate(i))
              \/ (\E S \in SUBSET Interfaces \ {{}}, o \in Offsets : Reconfigure(S, o))
              \/ UNCHANGED trafficVars
       PROVE  UNCHANGED <<node, saved, edit>>
  BY <1>15, Zenon DEF TrafficTick, Reboot, SendReport, Lose, Transfer, Recreate, Reconfigure,
                      trafficVars
<1>16. Goal
  <2> HIDE DEF Is, EditSet
  <2>1. CASE \E r \in ResetDays, c \in BOOLEAN : BeginNodeEdit(r, c)
    BY <1>10, <2>1
  <2> HIDE DEF Goal
  <2> QED
    BY <1>7, <1>8, <1>9, <1>11, <1>12, <1>13, <1>14, <1>15, <2>1, Zenon DEF TrafficNext, Goal
<1> QED
  BY <1>16

LEMMA SeenFacts ==
    ASSUME Clock, NEW n \in Account, Begins(n)
    PROVE  LET m == [n EXCEPT !.seen = time]
           IN  /\ m \in Account /\ Begins(m)
               /\ m.last = n.last /\ m.seen = time /\ m.baseline = n.baseline
               /\ m.daily = n.daily /\ m.newest = n.newest /\ m.reset = n.reset
               /\ m.start = n.start /\ m.used = n.used /\ m.manual = n.manual
               /\ m.corrected = n.corrected
               /\ m.unordered = n.unordered /\ m.rewound = n.rewound
<1> DEFINE m == [n EXCEPT !.seen = time]
<1>1. time \in Int
  BY MonthFacts DEF Clock
<1>2. m \in Account
  BY <1>1, AccountExcept
<1>3. /\ m.last = n.last /\ m.seen = time /\ m.baseline = n.baseline
      /\ m.daily = n.daily /\ m.newest = n.newest /\ m.reset = n.reset
      /\ m.start = n.start /\ m.used = n.used /\ m.manual = n.manual
      /\ m.corrected = n.corrected
      /\ m.unordered = n.unordered /\ m.rewound = n.rewound
  BY DEF Account
<1>4. Begins(m)
  BY <1>3 DEF Begins
<1> QED
  BY <1>2, <1>3, <1>4

(* What an edit leaves alone.                                               *)
LEMMA EditedFacts ==
    ASSUME Clock, node \in Account, Begins(node), NEW n, Edited(n)
    PROVE  /\ n \in Account /\ Begins(n)
           /\ n.last = node.last /\ n.seen = node.seen /\ n.daily = node.daily
           /\ n.newest = node.newest /\ n.unordered = node.unordered /\ n.rewound = node.rewound
           /\ \E r \in ResetDays :
                 LET moved == ChangeResetDay(Rollover(node, time), r)
                 IN  /\ n.start = moved.start /\ n.reset = r
                     /\ \/ n.corrected
                        \/ /\ n.used = moved.used /\ n.manual = moved.manual
                           /\ n.corrected = moved.corrected
<1>1. PICK e : /\ e.reset \in ResetDays /\ e.correct \in BOOLEAN
               /\ \/ n = ApplyOptions(node, e)
                  \/ e.correct /\ \E u \in Int : n = [ApplyOptions(node, e) EXCEPT !.used = u]
  BY DEF Edited
<1> DEFINE m == ApplyOptions(node, e)
           moved == ChangeResetDay(Rollover(node, time), e.reset)
<1>2. /\ m \in Account /\ Begins(m)
      /\ m.last = node.last /\ m.seen = node.seen /\ m.baseline = node.baseline
      /\ m.daily = node.daily /\ m.newest = node.newest
      /\ m.unordered = node.unordered /\ m.rewound = node.rewound
      /\ m.reset = e.reset /\ m.start = moved.start
      /\ m.used = IF e.correct THEN 0 ELSE moved.used
      /\ m.manual = IF e.correct THEN time ELSE moved.manual
      /\ m.corrected = IF e.correct THEN TRUE ELSE moved.corrected
  BY <1>1, ApplyFacts
<1> HIDE DEF m, moved
<1>3. CASE n = m
  <2>1. n.corrected \/ (/\ n.used = moved.used /\ n.manual = moved.manual
                        /\ n.corrected = moved.corrected)
    BY <1>1, <1>2, <1>3
  <2> QED
    BY <1>1, <1>2, <1>3, <2>1 DEF moved
<1>4. ASSUME e.correct, NEW u \in Int, n = [m EXCEPT !.used = u]
      PROVE  /\ n \in Account /\ Begins(n)
             /\ n.last = node.last /\ n.seen = node.seen /\ n.daily = node.daily
             /\ n.newest = node.newest /\ n.unordered = node.unordered
             /\ n.rewound = node.rewound /\ n.corrected
             /\ n.start = moved.start /\ n.reset = e.reset
  <2>1. n \in Account
    BY <1>2, <1>4, AccountExcept
  <2>2. /\ n.last = m.last /\ n.seen = m.seen /\ n.daily = m.daily
        /\ n.newest = m.newest /\ n.unordered = m.unordered /\ n.rewound = m.rewound
        /\ n.corrected = m.corrected /\ n.start = m.start /\ n.reset = m.reset
    BY <1>2, <1>4 DEF Account
  <2>3. Begins(n)
    BY <1>2, <2>2 DEF Begins
  <2> QED
    BY <1>2, <1>4, <2>1, <2>2, <2>3
<1>5. n = m \/ (e.correct /\ \E u \in Int : n = [m EXCEPT !.used = u])
  BY <1>1 DEF m
<1>6. CASE e.correct /\ \E u \in Int : n = [m EXCEPT !.used = u]
  BY <1>1, <1>4, <1>6 DEF moved
<1> QED
  BY <1>3, <1>5, <1>6

-----------------------------------------------------------------------------
LEMMA TrafficTypeInit == TrafficInit => TrafficTypeOK
<1> SUFFICES ASSUME TrafficInit PROVE TrafficTypeOK
  OBVIOUS
<1>1. Clock
  BY MonthFacts DEF TrafficInit, Clock
<1>2. sent = 0 /\ flight = {} /\ edit = NoEdit /\ incidents = 0 /\ time = FirstTime /\ saved = node
  BY Zenon DEF TrafficInit
<1>3. host \in Host
  <2>1. PICK S \in SUBSET Interfaces \ {{}} :
          host = [boot |-> 0, since |-> FirstTime, raw |-> [i \in Interfaces |-> 0],
                  selected |-> S, offset |-> 0, changes |-> 0]
    BY Zenon DEF TrafficInit
  <2>2. FirstTime \in Int /\ [i \in Interfaces |-> 0] \in [Interfaces -> Nat]
    BY MonthFacts
  <2> QED
    BY <2>1, <2>2 DEF Host
<1>4. node \in Account /\ Begins(node)
  <2> DEFINE zero == [d \in Days |-> 0]
             none == [sent |-> 0, changes |-> 0]
  <2>1. PICK r \in ResetDays :
          node = [last |-> NoReport, seen |-> Never, baseline |-> FALSE,
                  start |-> CycleStart(r, FirstTime), used |-> 0, manual |-> Never,
                  daily |-> zero, reset |-> r, newest |-> none,
                  corrected |-> FALSE, unordered |-> FALSE, rewound |-> FALSE]
    BY Zenon DEF TrafficInit
  <2>2. zero \in [Days -> Nat] /\ none \in Stamp
    BY DEF Stamp
  <2> DEFINE start == CycleStart(r, FirstTime)
  <2>3. start \in Nat /\ \E k \in 1..(Len(Months) - 1) : start = StartIn(r, k)
    BY <1>1, <1>2, ClockBelieved, CycleStartFacts
  <2> HIDE DEF zero, none, start
  <2>4. node \in Account
    BY <2>1, <2>2, <2>3 DEF Account, Never, start
  <2>5. node.start = start /\ node.reset = r
    BY <2>1 DEF start
  <2> QED
    BY <2>3, <2>4, <2>5 DEF Begins
<1>5. \A n \in Accounts : n = node
  BY <1>2 DEF Accounts
<1> QED
  BY <1>1, <1>2, <1>3, <1>4, <1>5 DEF TrafficTypeOK

LEMMA TrafficTypeNext ==
    ASSUME TrafficTypeOK, [TrafficNext]_trafficVars
    PROVE  TrafficTypeOK'
<1>1. Clock' /\ host' \in Host /\ sent' \in Nat /\ incidents' \in Nat /\ flight' \in SUBSET Report
  BY ClockNext, HostTyped DEF TrafficTypeOK
<1>2. Clock /\ node \in Account /\ Begins(node) /\ flight \in SUBSET Report
  BY DEF TrafficTypeOK, Accounts
<1>3. ASSUME NEW n \in Accounts' PROVE n \in Account /\ Begins(n)
  <2>1. CASE n \in Accounts
    BY <2>1, AccountsTyped
  <2>2. CASE Charged(n)
    <3>1. PICK r \in flight : n = Charge(node, r)
      BY <2>2 DEF Charged
    <3>2. r \in Report
      BY <1>2
    <3> QED
      BY <1>2, <3>1, <3>2, ChargeFacts
  <2>3. CASE Seen(n)
    BY <1>2, <2>3, SeenFacts DEF Seen
  <2>4. CASE Edited(n)
    BY <1>2, <2>4, EditedFacts
  <2> QED
    BY <1>3, <2>1, <2>2, <2>3, <2>4, AccountsNext
<1>4. node' \in Accounts' /\ saved' \in Accounts'
  BY DEF Accounts
<1>5. edit' = NoEdit \/ edit' \in Edit
  BY <1>3, AccountsNext DEF Edit
<1> QED
  BY <1>1, <1>3, <1>4, <1>5 DEF TrafficTypeOK

(* The account, the copies of it and the reports keep their types, and      *)
(* every account's cycle began in a month of the calendar (Node, NodeStats).*)
THEOREM TrafficIsTyped == TrafficSpec => []TrafficTypeOK
<1>1. TrafficInit => TrafficTypeOK
  BY TrafficTypeInit
<1>2. TrafficTypeOK /\ [TrafficNext]_trafficVars => TrafficTypeOK'
  BY TrafficTypeNext
<1> QED
  BY <1>1, <1>2, PTL DEF TrafficSpec

-----------------------------------------------------------------------------
(* No byte twice.  Every report there is was made in the host's past: with  *)
(* as many bytes sent since as its counters went up.  So are two reports of *)
(* one boot, and what an account charged is in the truth of the newest      *)
(* report it charged.                                                       *)
Now        == [at |-> time + host.offset, uptime |-> time - host.since, boot |-> host.boot,
               sentAt |-> time, sent |-> sent, changes |-> host.changes,
               counters |-> [i \in host.selected |-> host.raw[i]]]
Reports    == flight \cup ({n.last : n \in Accounts} \ {NoReport})
StampOf(a) == [sent |-> a.sent, changes |-> a.changes]
Stamps     == {StampOf(a) : a \in Reports} \cup {n.newest : n \in Accounts}
Gain(f, g) == [i \in DOMAIN f \cap DOMAIN g |-> Later(0, f[i] - g[i])]
Agree(x, y) == ~(x.sent < y.sent /\ y.changes < x.changes)

MadeBefore(a) ==
    /\ a.boot <= host.boot
    /\ a.boot = host.boot => Total(Gain(host.raw, a.counters)) <= sent - a.sent
    /\ a.sent = sent /\ a.changes = host.changes
          => \A i \in DOMAIN a.counters : a.counters[i] = host.raw[i]
GrewApart(a, b) == a.boot = b.boot /\ ~Older(b, a) => Delta(b, a) <= b.sent - a.sent
InTruth(n)      == ~n.rewound => Total(n.daily) <= n.newest.sent

ByteInv ==
    /\ \A a \in Reports : MadeBefore(a)
    /\ \A a, b \in Reports : GrewApart(a, b)
    /\ \A x \in Stamps : x.sent <= sent /\ x.changes <= host.changes
    /\ \A x, y \in Stamps : Agree(x, y)
    /\ \A n \in Accounts : InTruth(n)

LEMMA CountsAre ==
    ASSUME NEW c \in Counts
    PROVE  /\ DOMAIN c \in SUBSET Interfaces
           /\ \A i \in DOMAIN c : c[i] \in Nat
           /\ IsFiniteSet(DOMAIN c)
<1>1. PICK S \in SUBSET Interfaces : c \in [S -> Nat]
  BY DEF Counts
<1>2. IsFiniteSet(S)
  BY <1>1, TrafficAssumption, FS_Subset
<1> QED
  BY <1>1, <1>2

(* Counters that went up no further grew no more.                           *)
LEMMA GainNatural ==
    ASSUME NEW f \in Counts, NEW g \in Counts
    PROVE  /\ Total(Gain(f, g)) \in Nat
           /\ Total(Gain(f, g)) = Part(Gain(f, g), DOMAIN f \cap DOMAIN g)
           /\ \A i \in DOMAIN f \cap DOMAIN g : Gain(f, g)[i] \in Nat
           /\ IsFiniteSet(DOMAIN f \cap DOMAIN g)
<1> DEFINE D == DOMAIN f \cap DOMAIN g
           h == Gain(f, g)
<1>1. IsFiniteSet(D)
  <2>1. IsFiniteSet(DOMAIN f) /\ D \in SUBSET DOMAIN f
    BY CountsAre
  <2> QED
    BY <2>1, FS_Subset
<1>2. \A i \in D : h[i] \in Nat
  <2>1. \A i \in D : f[i] \in Nat /\ g[i] \in Nat
    BY CountsAre
  <2> QED
    BY <2>1 DEF Gain, Later
<1>3. Total(h) = Part(h, D)
  <2>1. h \in [D -> Nat]
    <3>1. h = [i \in D |-> h[i]]
      BY DEF Gain
    <3> HIDE DEF h, D
    <3> QED
      BY <1>2, <3>1
  <2> QED
    BY <2>1, PartIsTotal
<1> HIDE DEF D, h
<1>4. Part(h, D) \in Nat
  BY <1>1, <1>2, PartNatural
<1> QED
  BY <1>1, <1>2, <1>3, <1>4 DEF D, h

LEMMA GainMonotone ==
    ASSUME NEW f \in Counts, NEW g \in Counts, NEW e \in Counts, DOMAIN f \subseteq DOMAIN e,
           \A i \in DOMAIN f \cap DOMAIN g : f[i] <= e[i]
    PROVE  Total(Gain(f, g)) <= Total(Gain(e, g))
<1> DEFINE D == DOMAIN f \cap DOMAIN g
           E == DOMAIN e \cap DOMAIN g
           h == Gain(f, g)
           k == Gain(e, g)
<1>1. /\ Total(h) = Part(h, D) /\ \A i \in D : h[i] \in Nat
      /\ IsFiniteSet(D)
  BY GainNatural
<1>2. /\ Total(k) = Part(k, E) /\ \A i \in E : k[i] \in Nat
      /\ IsFiniteSet(E)
  BY GainNatural
<1>3. D \in SUBSET E
  OBVIOUS
<1>4. \A i \in D : h[i] <= k[i]
  <2> TAKE i \in D
  <2>1. f[i] \in Nat /\ g[i] \in Nat /\ e[i] \in Nat /\ f[i] <= e[i]
    BY CountsAre
  <2>2. h[i] = Later(0, f[i] - g[i]) /\ k[i] = Later(0, e[i] - g[i])
    BY DEF Gain
  <2> HIDE DEF h, k
  <2> QED
    BY <2>1, <2>2 DEF Later
<1> HIDE DEF D, E, h, k
<1>5. Part(h, D) <= Part(k, D)
  BY <1>1, <1>2, <1>3, <1>4, PartMore
<1>6. Part(k, D) <= Part(k, E)
  BY <1>2, <1>3, PartOfLess
<1>7. Part(h, D) \in Int /\ Part(k, D) \in Int /\ Part(k, E) \in Int
  <2>1. \A i \in D : h[i] \in Int /\ k[i] \in Int
    BY <1>1, <1>2, <1>3
  <2>2. Part(h, D) \in Int /\ Part(k, D) \in Int
    BY <1>1, <2>1, PartType
  <2>3. Part(k, E) \in Int
    BY <1>2, PartType
  <2> QED
    BY <2>2, <2>3
<1>8. Part(h, D) <= Part(k, E)
  BY <1>5, <1>6, <1>7
<1> QED
  BY <1>1, <1>2, <1>8 DEF h, k

LEMMA ReportsTyped ==
    ASSUME TrafficTypeOK
    PROVE  /\ Reports \in SUBSET Report
           /\ Stamps \in SUBSET Stamp
           /\ Now \in Report /\ Now.counters \in Counts
           /\ host.raw \in Counts /\ DOMAIN host.raw = Interfaces
           /\ sent \in Nat /\ host.changes \in Nat /\ host.boot \in Nat
<1>1. \A n \in Accounts : n \in Account
  BY AccountsTyped
<1>2. \A n \in Accounts : n.last \in Report \cup {NoReport} /\ n.newest \in Stamp
  BY <1>1 DEF Account
<1>3. Reports \in SUBSET Report
  BY <1>2 DEF Reports, TrafficTypeOK
<1>4. \A a \in Report : StampOf(a) \in Stamp /\ a.counters \in Counts
  BY DEF Report, StampOf, Stamp
<1>5. Stamps \in SUBSET Stamp
  BY <1>2, <1>3, <1>4 DEF Stamps
<1>6. Now \in Report
  BY ReportMade DEF Now, TrafficTypeOK
<1>7. /\ host.raw \in [Interfaces -> Nat] /\ sent \in Nat
      /\ host.changes \in Nat /\ host.boot \in Nat
  BY DEF TrafficTypeOK, Host
<1>8. host.raw \in Counts /\ DOMAIN host.raw = Interfaces
  BY <1>7 DEF Counts
<1> QED
  BY <1>3, <1>4, <1>5, <1>6, <1>7, <1>8

(* A step draws on the reports there are; one is made while the host rests. *)
LEMMA ReportsNext ==
    ASSUME TrafficTypeOK, [TrafficNext]_trafficVars
    PROVE  /\ \A n \in Accounts' : n.last \in Reports \cup {NoReport} /\ n.newest \in Stamps
           /\ Reports' \subseteq Reports \cup {Now}
           /\ Stamps' \subseteq Stamps \cup {StampOf(Now)}
           /\ Reports' \subseteq Reports \/ UNCHANGED <<host, sent>>
<1>1. Clock /\ node \in Account /\ Begins(node) /\ node \in Accounts /\ flight \in SUBSET Report
  BY DEF TrafficTypeOK, Accounts
<1>2. /\ \A n \in Accounts : n.last \in Reports \cup {NoReport} /\ n.newest \in Stamps
      /\ \A a \in Reports : StampOf(a) \in Stamps
  BY DEF Reports, Stamps
<1>3. ASSUME NEW n \in Accounts'
      PROVE  n.last \in Reports \cup {NoReport} /\ n.newest \in Stamps
  <2>1. CASE n \in Accounts
    BY <1>2, <2>1
  <2>2. CASE Charged(n)
    <3>1. PICK r \in flight : n = Charge(node, r)
      BY <2>2 DEF Charged
    <3>2. r \in Report /\ r \in Reports
      BY <1>1 DEF Reports
    <3>3. n.last = r /\ (n.newest = StampOf(r) \/ n.newest = node.newest)
      BY <1>1, <3>1, <3>2, ChargeFacts DEF StampOf
    <3> QED
      BY <1>1, <1>2, <3>2, <3>3
  <2>3. CASE Seen(n)
    <3>1. n.last = node.last /\ n.newest = node.newest
      BY <1>1, <2>3, SeenFacts DEF Seen
    <3> QED
      BY <1>1, <1>2, <3>1
  <2>4. CASE Edited(n)
    <3>1. n.last = node.last /\ n.newest = node.newest
      BY <1>1, <2>4, EditedFacts
    <3> QED
      BY <1>1, <1>2, <3>1
  <2> QED
    BY <1>3, <2>1, <2>2, <2>3, <2>4, AccountsNext
<1>4. flight' \subseteq flight \/ (flight' = flight \cup {Now} /\ UNCHANGED <<host, sent>>)
  <2>1. CASE SendReport
    BY <2>1, Zenon DEF SendReport, Now
  <2>2. CASE Lose \/ Receive
    <3>1. \E r \in flight : flight' = flight \ {r}
      BY <2>2, Zenon DEF Lose, Receive
    <3> QED
      BY <3>1
  <2>3. TrafficTick \/ Reboot \/ BasicSeen \/ EditFails \/ EndEdit \/ SaveNode \/ PanelCrash
           \/ UNCHANGED trafficVars => flight' = flight
    BY Zenon DEF TrafficTick, Reboot, BasicSeen, EditFails, EndEdit, SaveNode, PanelCrash, trafficVars
  <2>4. (\E i \in Interfaces : Transfer(i) \/ Recreate(i)) => flight' = flight
    BY Zenon DEF Transfer, Recreate
  <2>5. (\E S \in SUBSET Interfaces \ {{}}, o \in Offsets : Reconfigure(S, o)) => flight' = flight
    BY Zenon DEF Reconfigure
  <2>6. (\E r \in ResetDays, c \in BOOLEAN : BeginNodeEdit(r, c)) => flight' = flight
    BY Zenon DEF BeginNodeEdit
  <2>7. flight \subseteq flight
    OBVIOUS
  <2> QED
    BY <2>1, <2>2, <2>3, <2>4, <2>5, <2>6, <2>7, Zenon DEF TrafficNext
<1>5. Reports' = flight' \cup ({n.last : n \in Accounts'} \ {NoReport})
  BY DEF Reports
<1>6. flight \subseteq Reports /\ {n.last : n \in Accounts'} \ {NoReport} \subseteq Reports
  BY <1>3 DEF Reports
<1>7. /\ Reports' \subseteq Reports \cup {Now}
      /\ Reports' \subseteq Reports \/ UNCHANGED <<host, sent>>
  BY <1>4, <1>5, <1>6
<1>8. Stamps' = {StampOf(a) : a \in Reports'} \cup {n.newest : n \in Accounts'}
  BY DEF Stamps, StampOf
<1>9. Stamps' \subseteq Stamps \cup {StampOf(Now)}
  BY <1>2, <1>3, <1>7, <1>8
<1> QED
  BY <1>3, <1>7, <1>9

LEMMA HostNext ==
    ASSUME TrafficTypeOK, [TrafficNext]_trafficVars
    PROVE  \/ UNCHANGED <<host, sent>>
           \/ /\ host'.boot = host.boot /\ host'.changes = host.changes /\ sent' = sent + 1
              /\ \E i \in Interfaces : host'.raw = [host.raw EXCEPT ![i] = @ + 1]
           \/ /\ host'.boot = host.boot /\ host'.changes = host.changes + 1 /\ sent' = sent
              /\ \A i \in Interfaces : host'.raw[i] <= host.raw[i]
           \/ /\ host'.boot = host.boot + 1 /\ host'.changes = host.changes + 1 /\ sent' = sent
<1>1. host \in Host /\ Clock /\ host.raw \in [Interfaces -> Nat]
  BY DEF TrafficTypeOK, Host
<1> DEFINE Moved == /\ host'.boot = host.boot /\ host'.changes = host.changes /\ sent' = sent + 1
                    /\ \E i \in Interfaces : host'.raw = [host.raw EXCEPT ![i] = @ + 1]
           Fell  == /\ host'.boot = host.boot /\ host'.changes = host.changes + 1 /\ sent' = sent
                    /\ \A i \in Interfaces : host'.raw[i] <= host.raw[i]
           Began == /\ host'.boot = host.boot + 1 /\ host'.changes = host.changes + 1 /\ sent' = sent
<1>2. ASSUME NEW i \in Interfaces, Transfer(i) PROVE Moved
  BY <1>1, <1>2, HostSteps
<1>3. ASSUME NEW i \in Interfaces, Recreate(i) PROVE Fell
  <2>1. /\ UNCHANGED <<flight, sent>>
        /\ \E b \in Nat : b <= host.raw[i] /\ host'.raw = [host.raw EXCEPT ![i] = b]
        /\ host'.boot = host.boot /\ host'.changes = host.changes + 1
    BY <1>1, <1>3, HostSteps
  <2>2. \A j \in Interfaces : host'.raw[j] <= host.raw[j]
    BY <1>1, <2>1
  <2> QED
    BY <2>1, <2>2
<1>4. ASSUME Reboot PROVE Began
  BY <1>1, <1>4, HostSteps
<1>5. ASSUME NEW S \in SUBSET Interfaces \ {{}}, NEW o \in Offsets, Reconfigure(S, o) PROVE Fell
  <2>1. /\ UNCHANGED <<flight, sent>> /\ host'.raw = host.raw
        /\ host'.boot = host.boot /\ host'.changes = host.changes + 1
    BY <1>1, <1>5, HostSteps
  <2>2. \A j \in Interfaces : host'.raw[j] <= host.raw[j]
    BY <1>1, <2>1
  <2> QED
    BY <2>1, <2>2
<1>6. TrafficTick \/ SendReport \/ Lose \/ Receive \/ BasicSeen \/ EditFails \/ EndEdit
        \/ SaveNode \/ PanelCrash \/ UNCHANGED trafficVars => UNCHANGED <<host, sent>>
  BY Zenon DEF TrafficTick, SendReport, Lose, Receive, BasicSeen, EditFails, EndEdit, SaveNode,
               PanelCrash, trafficVars
<1>7. (\E r \in ResetDays, c \in BOOLEAN : BeginNodeEdit(r, c)) => UNCHANGED <<host, sent>>
  BY Zenon DEF BeginNodeEdit
<1>8. UNCHANGED <<host, sent>> \/ Moved \/ Fell \/ Began
  <2> HIDE DEF Moved, Fell, Began
  <2> QED
    BY <1>2, <1>3, <1>4, <1>5, <1>6, <1>7, Zenon DEF TrafficNext
<1> QED
  BY <1>8

(* The past of the host stays its past.                                     *)
LEMMA PastKept ==
    ASSUME TrafficTypeOK, [TrafficNext]_trafficVars, NEW a \in Report, MadeBefore(a),
           a.sent <= sent, a.changes <= host.changes
    PROVE  MadeBefore(a)' /\ a.sent <= sent' /\ a.changes <= host'.changes
<1>1. /\ a.sent \in Nat /\ a.changes \in Nat /\ a.boot \in Nat /\ a.counters \in Counts
      /\ host.raw \in Counts /\ DOMAIN host.raw = Interfaces
      /\ sent \in Nat /\ host.changes \in Nat /\ host.boot \in Nat
  BY ReportsTyped DEF Report
<1>2. host' \in Host /\ host'.raw \in [Interfaces -> Nat] /\ host'.raw \in Counts
  BY HostTyped DEF Host, Counts
<1> DEFINE c == a.counters
           old == Total(Gain(host.raw, c))
           new == Total(Gain(host'.raw, c))
<1>3. old \in Nat /\ new \in Nat
  BY <1>1, <1>2, GainNatural
<1>4. /\ a.boot <= host.boot /\ (a.boot = host.boot => old <= sent - a.sent)
      /\ a.sent = sent /\ a.changes = host.changes => \A i \in DOMAIN c : c[i] = host.raw[i]
  BY DEF MadeBefore
<1> DEFINE Goal == /\ a.boot <= host'.boot
                   /\ a.boot = host'.boot => new <= sent' - a.sent
                   /\ a.sent = sent' /\ a.changes = host'.changes
                         => \A i \in DOMAIN c : c[i] = host'.raw[i]
                   /\ a.sent <= sent' /\ a.changes <= host'.changes
<1>5. CASE UNCHANGED <<host, sent>>
  <2>1. Goal
    BY <1>4, <1>5
  <2> QED
    BY <2>1 DEF MadeBefore
<1>6. ASSUME host'.boot = host.boot, host'.changes = host.changes, sent' = sent + 1,
             NEW i \in Interfaces, host'.raw = [host.raw EXCEPT ![i] = @ + 1]
      PROVE  Goal
  <2> DEFINE f == Gain(host.raw, c)
             g == Gain(host'.raw, c)
             D == DOMAIN c
  <2>1. /\ IsFiniteSet(D) /\ D \in SUBSET Interfaces
        /\ DOMAIN host.raw \cap D = D /\ DOMAIN host'.raw \cap D = D
    BY <1>1, <1>2, CountsAre
  <2>2. /\ old = Part(f, D) /\ new = Part(g, D)
        /\ \A j \in D : f[j] \in Nat /\ g[j] \in Nat
    BY <1>1, <1>2, <2>1, GainNatural
  <2>3. \A j \in D : /\ f[j] = Later(0, host.raw[j] - c[j])
                     /\ g[j] = Later(0, host'.raw[j] - c[j])
                     /\ c[j] \in Nat /\ host.raw[j] \in Nat
    <3>1. \A j \in D : c[j] \in Nat /\ host.raw[j] \in Nat
      BY <1>1, <2>1, CountsAre
    <3> QED
      BY <2>1, <3>1 DEF Gain
  <2>4. \A j \in D : j # i => g[j] = f[j]
    BY <1>1, <1>6, <2>1, <2>3
  <2>5. i \in D => g[i] <= f[i] + 1
    <3> SUFFICES ASSUME i \in D PROVE g[i] <= f[i] + 1
      OBVIOUS
    <3>1. host'.raw[i] = host.raw[i] + 1
      BY <1>1, <1>6
    <3> QED
      BY <2>3, <3>1 DEF Later
  <2> HIDE DEF f, g, D, old, new
  <2>6. new <= old + 1
    <3>1. CASE i \in D
      <4>1. \A j \in D : f[j] \in Int /\ g[j] \in Int
        BY <2>2
      <4>2. /\ Part(f, D) \in Int /\ Part(f, D \ {i}) \in Int
            /\ Part(f, D) = f[i] + Part(f, D \ {i})
        BY <2>1, <3>1, <4>1, PartFirst
      <4>3. /\ Part(g, D) \in Int /\ Part(g, D \ {i}) \in Int
            /\ Part(g, D) = g[i] + Part(g, D \ {i})
        BY <2>1, <3>1, <4>1, PartFirst
      <4>4. Part(f, D \ {i}) = Part(g, D \ {i})
        <5>1. \A j \in D \ {i} : f[j] = g[j]
          BY <2>4
        <5> QED
          BY <5>1, PartSame
      <4>5. f[i] \in Int /\ g[i] \in Int /\ g[i] <= f[i] + 1
        BY <2>5, <3>1, <4>1
      <4> QED
        BY <2>2, <4>2, <4>3, <4>4, <4>5
    <3>2. CASE i \notin D
      <4>1. Part(f, D) = Part(g, D)
        <5>1. \A j \in D : f[j] = g[j]
          BY <2>4, <3>2
        <5> QED
          BY <5>1, PartSame
      <4> QED
        BY <1>3, <2>2, <4>1
    <3> QED
      BY <3>1, <3>2
  <2> QED
    BY <1>1, <1>3, <1>4, <1>6, <2>6
<1>7. ASSUME host'.boot = host.boot, host'.changes = host.changes + 1, sent' = sent,
             \A i \in Interfaces : host'.raw[i] <= host.raw[i]
      PROVE  Goal
  <2>1. new <= old
    BY <1>1, <1>2, <1>7, GainMonotone
  <2> HIDE DEF new, old
  <2> QED
    BY <1>1, <1>3, <1>4, <1>7, <2>1
<1>8. ASSUME host'.boot = host.boot + 1, host'.changes = host.changes + 1, sent' = sent PROVE Goal
  <2> HIDE DEF new, old
  <2> QED
    BY <1>1, <1>4, <1>8
<1>9. Goal
  <2>1. UNCHANGED <<host, sent>> => Goal
    BY <1>4
  <2> HIDE DEF Goal
  <2> QED
    BY <1>6, <1>7, <1>8, <2>1, HostNext
<1> QED
  BY <1>9 DEF MadeBefore

(* A report made now grew apart from those made before, and they from it.   *)
LEMMA NowApart ==
    ASSUME TrafficTypeOK, NEW a \in Report, MadeBefore(a),
           a.sent <= sent, a.changes <= host.changes
    PROVE  GrewApart(a, Now) /\ GrewApart(Now, a)
<1>1. /\ a.sent \in Nat /\ a.changes \in Nat /\ a.counters \in Counts
      /\ host.raw \in Counts /\ DOMAIN host.raw = Interfaces
      /\ Now.counters \in Counts
  BY ReportsTyped DEF Report
<1>2. /\ Now.boot = host.boot /\ Now.sent = sent /\ Now.changes = host.changes
      /\ DOMAIN Now.counters = host.selected
      /\ \A i \in host.selected : Now.counters[i] = host.raw[i]
  BY DEF Now
<1>3. sent \in Nat /\ host.changes \in Nat /\ host.selected \in SUBSET Interfaces
  BY DEF TrafficTypeOK, Host
<1> DEFINE c == a.counters
           k == Now.counters
<1>4. Delta(Now, a) = Total(Gain(k, c)) /\ Delta(a, Now) = Total(Gain(c, k))
  BY DEF Delta, Gain
<1>5. Total(Gain(k, c)) <= Total(Gain(host.raw, c))
  <2>1. DOMAIN k \subseteq DOMAIN host.raw /\ \A i \in DOMAIN k \cap DOMAIN c : k[i] <= host.raw[i]
    <3>1. \A i \in DOMAIN k : k[i] = host.raw[i] /\ k[i] \in Nat
      BY <1>1, <1>2, CountsAre
    <3> QED
      BY <1>1, <1>2, <1>3, <3>1
  <2> HIDE DEF k, c
  <2> QED
    BY <1>1, <2>1, GainMonotone DEF k, c
<1>6. Total(Gain(k, c)) \in Nat /\ Total(Gain(host.raw, c)) \in Nat
  BY <1>1, GainNatural
<1>7. GrewApart(a, Now)
  <2> SUFFICES ASSUME a.boot = Now.boot PROVE Delta(Now, a) <= Now.sent - a.sent
    BY DEF GrewApart
  <2>1. Total(Gain(host.raw, c)) <= sent - a.sent
    BY <1>2 DEF MadeBefore
  <2> DEFINE x == Total(Gain(k, c))
             y == Total(Gain(host.raw, c))
  <2>2. x \in Nat /\ y \in Nat /\ x <= y /\ y <= sent - a.sent /\ Delta(Now, a) = x
    BY <1>4, <1>5, <1>6, <2>1
  <2> HIDE DEF x, y
  <2> QED
    BY <1>1, <1>2, <1>3, <2>2
<1>8. GrewApart(Now, a)
  <2> SUFFICES ASSUME ~Older(a, Now) PROVE Delta(a, Now) <= a.sent - Now.sent
    BY DEF GrewApart
  <2>1. a.sent = sent /\ a.changes = host.changes
    BY <1>1, <1>2, <1>3 DEF Older
  <2>2. \A i \in DOMAIN c : c[i] = host.raw[i]
    BY <2>1 DEF MadeBefore
  <2> DEFINE D == DOMAIN c \cap DOMAIN k
             h == Gain(c, k)
  <2>3. \A i \in D : h[i] = 0
    <3>1. \A i \in D : c[i] = k[i] /\ c[i] \in Nat
      BY <1>1, <1>2, <2>2, CountsAre
    <3> QED
      BY <3>1 DEF Gain, Later
  <2>4. Total(h) = Part(h, D) /\ IsFiniteSet(D)
    BY <1>1, GainNatural
  <2> HIDE DEF h, D
  <2>5. Part(h, D) = 0
    BY <2>3, <2>4, PartNothing
  <2>6. Delta(a, Now) = 0
    BY <1>4, <2>4, <2>5 DEF h
  <2> QED
    BY <1>2, <1>3, <2>1, <2>6
<1> QED
  BY <1>7, <1>8

LEMMA NowMade == TrafficTypeOK => MadeBefore(Now)
<1> SUFFICES ASSUME TrafficTypeOK PROVE MadeBefore(Now)
  OBVIOUS
<1>1. /\ host.raw \in Counts /\ DOMAIN host.raw = Interfaces /\ Now.counters \in Counts
      /\ host.boot \in Nat /\ sent \in Nat
  BY ReportsTyped
<1>2. /\ Now.boot = host.boot /\ Now.sent = sent /\ Now.changes = host.changes
      /\ DOMAIN Now.counters = host.selected
      /\ \A i \in host.selected : Now.counters[i] = host.raw[i]
  BY DEF Now
<1> DEFINE k == Now.counters
           D == DOMAIN host.raw \cap DOMAIN k
           h == Gain(host.raw, k)
<1>3. \A i \in D : h[i] = 0
  <2>1. \A i \in D : host.raw[i] = k[i] /\ k[i] \in Nat
    BY <1>1, <1>2, CountsAre
  <2> QED
    BY <2>1 DEF Gain, Later
<1>4. Total(h) = Part(h, D) /\ IsFiniteSet(D)
  BY <1>1, GainNatural
<1>5. Total(h) = 0
  <2> HIDE DEF h, D
  <2> QED
    BY <1>3, <1>4, PartNothing
<1> QED
  BY <1>1, <1>2, <1>5 DEF MadeBefore

(* What a charge adds is in the truth of the report it charges.             *)
LEMMA ChargeInTruth ==
    ASSUME TrafficTypeOK, NEW n \in Accounts, NEW r \in flight, InTruth(n),
           \A a, b \in Reports : GrewApart(a, b), \A x, y \in Stamps : Agree(x, y)
    PROVE  InTruth(Charge(n, r))
<1> DEFINE c == Charge(n, r)
           delta == Added(n, r)
           stamp == StampOf(r)
<1>1. Clock /\ n \in Account /\ Begins(n) /\ r \in Report /\ r \in Reports
  BY AccountsTyped DEF TrafficTypeOK, Reports
<1>2. /\ c.daily = IF Known(n, r) THEN Daily(n.daily, delta, From(n), To(r)) ELSE n.daily
      /\ c.newest = IF Older(n.newest, r) THEN stamp ELSE n.newest
      /\ c.rewound = (n.rewound \/ (Known(n, r) /\ (Older(r, n.last) \/ Older(n.last, n.newest))))
      /\ c \in Account
  <2>1. c.daily = IF Known(n, r) THEN Daily(n.daily, delta, From(n), To(r)) ELSE n.daily
    BY <1>1, ChargeFacts, Zenon
  <2>2. c.newest = IF Older(n.newest, r) THEN stamp ELSE n.newest
    BY <1>1, ChargeFacts, Zenon DEF StampOf
  <2>3. c.rewound = (n.rewound \/ (Known(n, r) /\ (Older(r, n.last) \/ Older(n.last, n.newest))))
    BY <1>1, ChargeFacts, Zenon
  <2>4. c \in Account
    BY <1>1, ChargeFacts, Zenon
  <2> HIDE DEF c, delta, stamp
  <2> QED
    BY <2>1, <2>2, <2>3, <2>4
<1>3. n.daily \in [Days -> Nat] /\ c.daily \in [Days -> Nat] /\ n.newest \in Stamp
  BY <1>1, <1>2 DEF Account
<1>4. Total(n.daily) = Part(n.daily, Days) /\ Total(c.daily) = Part(c.daily, Days)
  BY <1>3, PartIsTotal
<1>5. Part(n.daily, Days) \in Nat /\ Part(c.daily, Days) \in Nat
  <2>1. IsFiniteSet(Days)
    BY DaysFinite
  <2>2. \A d \in Days : n.daily[d] \in Nat /\ c.daily[d] \in Nat
    BY <1>3
  <2> QED
    BY <2>1, <2>2, PartNatural
<1>6. /\ n.newest.sent \in Nat /\ n.newest.changes \in Nat
      /\ r.sent \in Nat /\ r.changes \in Nat /\ stamp.sent = r.sent /\ stamp.changes = r.changes
  BY <1>1, <1>3 DEF Stamp, Report, StampOf
<1>7. n.newest.sent <= c.newest.sent /\ r.sent <= c.newest.sent
  <2>1. Agree(n.newest, stamp) /\ Agree(stamp, n.newest)
    <3>1. n.newest \in Stamps /\ stamp \in Stamps
      BY <1>1 DEF Stamps
    <3> QED
      BY <3>1
  <2> HIDE DEF stamp
  <2>2. CASE Older(n.newest, r)
    <3>1. n.newest.sent < r.sent \/ n.newest.changes < r.changes
      BY <2>2 DEF Older
    <3>2. n.newest.sent <= r.sent
      BY <1>6, <2>1, <3>1 DEF Agree
    <3> QED
      BY <1>2, <1>6, <2>2, <3>2
  <2>3. CASE ~Older(n.newest, r)
    <3>1. r.sent <= n.newest.sent
      BY <1>6, <2>3 DEF Older
    <3> QED
      BY <1>2, <1>6, <2>3, <3>1
  <2> QED
    BY <2>2, <2>3
<1>8. c.newest.sent \in Nat
  BY <1>2 DEF Account, Stamp
<1> HIDE DEF c, delta, stamp
<1>9. CASE ~Known(n, r)
  <2>1. c.daily = n.daily /\ (~c.rewound => ~n.rewound)
    BY <1>2, <1>9, Zenon
  <2> SUFFICES ASSUME ~c.rewound PROVE Total(c.daily) <= c.newest.sent
    BY DEF InTruth, c
  <2>2. Total(n.daily) <= n.newest.sent
    BY <2>1 DEF InTruth
  <2> QED
    BY <1>4, <1>5, <1>6, <1>7, <1>8, <2>1, <2>2
<1>10. CASE Known(n, r)
  <2> SUFFICES ASSUME ~c.rewound PROVE Total(c.daily) <= c.newest.sent
    BY DEF InTruth, c
  <2>1. ~n.rewound /\ ~Older(r, n.last) /\ ~Older(n.last, n.newest)
    BY <1>2, <1>10
  <2>2. n.last \in Report /\ n.last \in Reports /\ r.boot = n.last.boot
    BY <1>1, <1>10 DEF Known, Comparable, Account, Reports
  <2>3. n.last.sent \in Nat
    BY <2>2 DEF Report
  <2>4. delta = Delta(r, n.last) /\ delta \in Nat
    BY <1>1, <1>10, <2>2, DeltaNatural DEF delta, Added
  <2>5. delta <= r.sent - n.last.sent
    BY <1>1, <2>1, <2>2, <2>4 DEF GrewApart
  <2>6. n.newest.sent <= n.last.sent
    BY <1>6, <2>1, <2>3 DEF Older
  <2>7. Part(n.daily, Days) <= n.newest.sent
    BY <1>4, <2>1 DEF InTruth
  <2>8. Part(c.daily, Days) <= Part(n.daily, Days) + delta
    <3>1. CASE From(n) = Never \/ To(r) <= From(n)
      <4>1. c.daily = n.daily
        BY <1>2, <1>10, <3>1 DEF Daily
      <4> QED
        BY <1>5, <2>4, <4>1
    <3>2. CASE ~(From(n) = Never \/ To(r) <= From(n))
      <4>1. To(r) \in Int /\ From(n) \in Int /\ From(n) < To(r) /\ From(n) # Never
        <5>1. n.last.at \in Int /\ n.seen \in Int
          BY <1>1, <2>2 DEF Report, Account
        <5>2. From(n) \in Int
          BY <5>1, SampleFacts DEF From
        <5>3. To(r) \in Int
          BY <1>1, ToFacts
        <5> QED
          BY <3>2, <5>2, <5>3
      <4>2. To(r) <= LastTime + 1
        <5>1. time \in Int /\ time <= LastTime /\ LastTime \in Int
          BY <1>1, MonthFacts DEF Clock
        <5>2. To(r) <= time + 1
          BY <1>1, ToFacts
        <5> QED
          BY <4>1, <5>1, <5>2
      <4>3. c.daily = Daily(n.daily, delta, From(n), To(r))
        BY <1>2, <1>10
      <4> QED
        BY <1>3, <2>4, <4>1, <4>2, <4>3, DailyFacts
    <3> QED
      BY <3>1, <3>2
  <2> DEFINE x == Part(n.daily, Days)
             y == Part(c.daily, Days)
  <2>9. x \in Nat /\ y \in Nat /\ x <= n.newest.sent /\ y <= x + delta /\ Total(c.daily) = y
    BY <1>4, <1>5, <2>7, <2>8
  <2> HIDE DEF x, y
  <2> QED
    BY <1>6, <1>7, <1>8, <2>3, <2>4, <2>5, <2>6, <2>9
<1> QED
  BY <1>9, <1>10

LEMMA ByteInit == TrafficInit => ByteInv
<1> SUFFICES ASSUME TrafficInit PROVE ByteInv
  OBVIOUS
<1>1. sent = 0 /\ flight = {} /\ edit = NoEdit /\ saved = node /\ TrafficTypeOK
  BY TrafficTypeInit, Zenon DEF TrafficInit
<1>2. host.changes = 0
  BY DEF TrafficInit
<1>3. /\ node.last = NoReport /\ node.newest = [sent |-> 0, changes |-> 0]
      /\ node.daily = [d \in Days |-> 0]
  <2> DEFINE zero == [d \in Days |-> 0]
  <2>1. PICK r \in ResetDays :
          node = [last |-> NoReport, seen |-> Never, baseline |-> FALSE,
                  start |-> CycleStart(r, FirstTime), used |-> 0, manual |-> Never,
                  daily |-> zero, reset |-> r, newest |-> [sent |-> 0, changes |-> 0],
                  corrected |-> FALSE, unordered |-> FALSE, rewound |-> FALSE]
    BY Zenon DEF TrafficInit
  <2> HIDE DEF zero
  <2>2. /\ node.last = NoReport /\ node.newest = [sent |-> 0, changes |-> 0]
        /\ node.daily = zero
    BY <2>1
  <2> QED
    BY <2>2 DEF zero
<1>4. Accounts = {node}
  BY <1>1 DEF Accounts
<1>5. Reports = {}
  BY <1>1, <1>3, <1>4 DEF Reports
<1>6. Stamps = {[sent |-> 0, changes |-> 0]}
  BY <1>3, <1>4, <1>5 DEF Stamps
<1>7. Total(node.daily) = 0
  <2> DEFINE f == node.daily
  <2>1. f \in [Days -> Nat] /\ \A d \in Days : f[d] = 0
    BY <1>3
  <2> HIDE DEF f
  <2>2. Total(f) = Part(f, Days)
    BY <2>1, PartIsTotal
  <2>3. Part(f, Days) = 0
    BY <2>1, DaysFinite, PartNothing
  <2> QED
    BY <2>2, <2>3 DEF f
<1> QED
  BY <1>1, <1>2, <1>3, <1>4, <1>5, <1>6, <1>7 DEF ByteInv, InTruth, Agree

LEMMA ByteNext ==
    ASSUME TrafficTypeOK, ByteInv, [TrafficNext]_trafficVars
    PROVE  ByteInv'
<1>1. /\ \A n \in Accounts' : n.last \in Reports \cup {NoReport} /\ n.newest \in Stamps
      /\ Reports' \subseteq Reports \cup {Now}
      /\ Stamps' \subseteq Stamps \cup {StampOf(Now)}
      /\ Reports' \subseteq Reports \/ UNCHANGED <<host, sent>>
  BY ReportsNext
<1>2. /\ Reports \in SUBSET Report /\ Stamps \in SUBSET Stamp /\ Now \in Report
      /\ sent \in Nat /\ host.changes \in Nat
  BY ReportsTyped
<1>3. /\ \A a \in Reports : MadeBefore(a)
      /\ \A a, b \in Reports : GrewApart(a, b)
      /\ \A x \in Stamps : x.sent <= sent /\ x.changes <= host.changes
      /\ \A x, y \in Stamps : Agree(x, y)
      /\ \A n \in Accounts : InTruth(n)
  BY DEF ByteInv
<1>4. \A a \in Reports : a.sent <= sent /\ a.changes <= host.changes
  <2>1. \A a \in Reports : StampOf(a) \in Stamps
    BY DEF Stamps
  <2> QED
    BY <1>3, <2>1 DEF StampOf
<1>5. /\ Now.sent = sent /\ Now.changes = host.changes /\ MadeBefore(Now)
      /\ StampOf(Now).sent = sent /\ StampOf(Now).changes = host.changes
  BY NowMade DEF Now, StampOf
<1>6. ASSUME NEW a \in Reports' PROVE MadeBefore(a)'
  <2>1. CASE a \in Reports
    BY <1>2, <1>3, <1>4, <2>1, PastKept
  <2>2. CASE a \notin Reports
    <3>1. a = Now /\ UNCHANGED <<host, sent>>
      BY <1>1, <1>6, <2>2
    <3>2. MadeBefore(a)
      BY <1>5, <3>1
    <3> QED
      BY <3>1, <3>2 DEF MadeBefore
  <2> QED
    BY <2>1, <2>2
<1>7. \A a, b \in Reports' : GrewApart(a, b)
  <2>1. sent <= sent /\ host.changes <= host.changes
    BY <1>2
  <2>2. \A a \in Reports \cup {Now} : GrewApart(a, Now) /\ GrewApart(Now, a)
    <3> SUFFICES ASSUME NEW a \in Reports \cup {Now} PROVE GrewApart(a, Now) /\ GrewApart(Now, a)
      OBVIOUS
    <3>1. a \in Report /\ MadeBefore(a) /\ a.sent <= sent /\ a.changes <= host.changes
      BY <1>2, <1>3, <1>4, <1>5, <2>1
    <3> QED
      BY <3>1, NowApart
  <2> QED
    BY <1>1, <1>3, <2>2
<1>8. \A x \in Stamps' : x.sent <= sent' /\ x.changes <= host'.changes
  <2>1. sent' \in Nat /\ host'.changes \in Nat /\ sent <= sent' /\ host.changes <= host'.changes
    <3>1. sent' \in Nat /\ host'.changes \in Nat
      BY HostTyped DEF Host
    <3> QED
      BY <1>2, <3>1, HostNext
  <2>2. \A x \in Stamps \cup {StampOf(Now)} : x.sent \in Nat /\ x.changes \in Nat
                                             /\ x.sent <= sent /\ x.changes <= host.changes
    BY <1>2, <1>3, <1>5 DEF Stamp
  <2> QED
    BY <1>1, <1>2, <2>1, <2>2
<1>9. \A x, y \in Stamps' : Agree(x, y)
  <2>1. \A x \in Stamps \cup {StampOf(Now)} : x.sent \in Nat /\ x.changes \in Nat
                                             /\ x.sent <= sent /\ x.changes <= host.changes
    BY <1>2, <1>3, <1>5 DEF Stamp
  <2>2. \A x \in Stamps \cup {StampOf(Now)} : Agree(x, StampOf(Now)) /\ Agree(StampOf(Now), x)
    BY <1>2, <1>5, <2>1 DEF Agree
  <2> QED
    BY <1>1, <1>3, <2>2
<1>10. ASSUME NEW n \in Accounts' PROVE InTruth(n)
  <2>1. Clock /\ node \in Account /\ Begins(node) /\ node \in Accounts /\ InTruth(node)
    BY <1>3 DEF TrafficTypeOK, Accounts
  <2>2. CASE n \in Accounts
    BY <1>3, <2>2
  <2>3. CASE Charged(n)
    <3>1. PICK r \in flight : n = Charge(node, r)
      BY <2>3 DEF Charged
    <3> QED
      BY <1>3, <2>1, <3>1, ChargeInTruth
  <2>4. CASE Seen(n)
    <3>1. n.daily = node.daily /\ n.newest = node.newest /\ n.rewound = node.rewound
      BY <2>1, <2>4, SeenFacts DEF Seen
    <3> QED
      BY <2>1, <3>1 DEF InTruth
  <2>5. CASE Edited(n)
    <3>1. n.daily = node.daily /\ n.newest = node.newest /\ n.rewound = node.rewound
      BY <2>1, <2>5, EditedFacts
    <3> QED
      BY <2>1, <3>1 DEF InTruth
  <2> QED
    BY <1>10, <2>2, <2>3, <2>4, <2>5, AccountsNext
<1>11. /\ \A a \in Reports' : MadeBefore(a)'
       /\ \A a, b \in Reports' : GrewApart(a, b)
       /\ \A n \in Accounts' : InTruth(n)
  BY <1>6, <1>7, <1>10
<1> QED
  BY <1>8, <1>9, <1>11 DEF ByteInv, GrewApart, InTruth, Agree

(* No byte is charged to two days, and none that was not sent, for every    *)
(* calendar, clock, number of crashes, reboots and edits.  Left out is what *)
(* was charged from or to a report that a later one overtook                *)
(* (traffic.go:63, store.go:1188, traffic_history.go:13).                   *)
THEOREM NoByteIsChargedTwice == TrafficSpec => []NoByteTwice
<1>1. TrafficInit => TrafficTypeOK /\ ByteInv
  BY TrafficTypeInit, ByteInit
<1>2. TrafficTypeOK /\ ByteInv /\ [TrafficNext]_trafficVars => (TrafficTypeOK /\ ByteInv)'
  BY TrafficTypeNext, ByteNext
<1>3. TrafficTypeOK /\ ByteInv => NoByteTwice
  <2> SUFFICES ASSUME TrafficTypeOK, ByteInv, ~node.rewound PROVE Total(node.daily) <= sent
    BY DEF NoByteTwice
  <2>1. node \in Accounts /\ node.newest \in Stamps
    BY DEF Accounts, Stamps
  <2>2. Total(node.daily) <= node.newest.sent /\ node.newest.sent <= sent
    BY <2>1 DEF ByteInv, InTruth
  <2>3. node.newest.sent \in Nat /\ sent \in Nat /\ Total(node.daily) \in Int
    <3>1. node \in Account /\ sent \in Nat
      BY DEF TrafficTypeOK
    <3>2. node.daily \in [Days -> Nat] /\ node.newest.sent \in Nat
      BY <3>1 DEF Account, Stamp
    <3>3. Part(node.daily, Days) \in Nat
      BY <3>2, DaysFinite, PartNatural
    <3> QED
      BY <3>1, <3>2, <3>3, PartIsTotal
  <2> QED
    BY <2>2, <2>3
<1> QED
  BY <1>1, <1>2, <1>3, PTL DEF TrafficSpec

-----------------------------------------------------------------------------
(* The days and the use of a cycle.  Nothing is charged ahead of time, nor  *)
(* to the cycle after the account's; the use is what the days of the cycle  *)
(* hold until a report that spans the cycle's start was rounded, and the    *)
(* node was then seen after that start, so that there is no second one.     *)
Seems(n) ==
    /\ n.seen <= time
    /\ n.last # NoReport => FirstTime <= n.seen
    /\ ~n.corrected => n.manual = Never

InDays(n) ==
    ~n.unordered =>
        /\ n.start <= time
        /\ \A d \in Days : time < d * DayLength => n.daily[d] = 0
        /\ \A d \in Days, k \in 1..Len(Months) :
              n.start < StartIn(n.reset, k) /\ StartIn(n.reset, k) <= d * DayLength
                 => n.daily[d] = 0
        /\ ~n.corrected =>
              LET inCycle == Part(n.daily, CycleDays(n.start))
              IN  /\ n.used \in (inCycle - 1)..inCycle
                  /\ n.used # inCycle => n.start < n.seen

LEMMA DaysOfStart ==
    ASSUME NEW r \in ResetDays, NEW k \in 1..Len(Months)
    PROVE  /\ DayOf(StartIn(r, k)) \in Nat
           /\ DayOf(StartIn(r, k)) * DayLength = StartIn(r, k)
           /\ \A d \in Nat : DayOf(StartIn(r, k)) <= d <=> StartIn(r, k) <= d * DayLength
<1>1. PICK e \in Nat : StartIn(r, k) = e * DayLength
  BY StartFacts
<1>2. DayLength \in Nat \ {0}
  BY MonthFacts
<1>3. DayOf(StartIn(r, k)) = e
  <2> DEFINE t == e * DayLength
             q == t \div DayLength
  <2>1. t \in Int /\ e \in Int /\ e + 1 \in Int
    BY <1>2
  <2>2. (e + 1) * DayLength = e * DayLength + DayLength
    BY <1>2
  <2>3. t < (e + 1) * DayLength /\ e * DayLength <= t
    BY <1>2, <2>1, <2>2
  <2> HIDE DEF t
  <2>4. q \in Int /\ e <= q /\ q < e + 1
    BY <1>2, <2>1, <2>3, DayBounds
  <2> HIDE DEF q
  <2>5. q = e
    BY <2>4
  <2> QED
    BY <1>1, <2>5 DEF DayOf, q, t
<1>4. ASSUME NEW d \in Nat PROVE e <= d <=> e * DayLength <= d * DayLength
  <2>1. CASE e <= d
    <3>1. (d - e) * DayLength >= 0 /\ (d - e) * DayLength = d * DayLength - e * DayLength
      BY <1>2, <2>1
    <3> QED
      BY <1>2, <2>1, <3>1
  <2>2. CASE d < e
    <3>1. (e - d) * DayLength >= DayLength /\ (e - d) * DayLength = e * DayLength - d * DayLength
      <4>1. (e - d - 1) * DayLength >= 0 /\ (e - d) * DayLength = (e - d - 1) * DayLength + DayLength
        BY <1>2, <2>2
      <4> QED
        BY <1>2, <4>1
    <3> QED
      BY <1>2, <2>2, <3>1
  <2> QED
    BY <2>1, <2>2
<1> QED
  BY <1>1, <1>3, <1>4

(* A cycle is no longer than what is kept.                                  *)
LEMMA CutoffBefore ==
    ASSUME NEW r \in ResetDays, NEW k \in 1..(Len(Months) - 1), NEW to \in Int,
           to < StartIn(r, k + 1)
    PROVE  Cutoff(to) <= StartIn(r, k)
<1> DEFINE First(m) == FirstDay(m) + (IF r > Months[m] THEN Months[m] ELSE r) - 1
           d == First(k)
           e == First(k + 1)
<1>1. Len(Months) \in Nat /\ DayLength \in Nat \ {0} /\ KeepDays \in Nat \ {0} /\ r \in Nat \ {0}
  BY MonthFacts
<1>2. k \in 1..Len(Months) /\ k + 1 \in 1..Len(Months) /\ k \in 1..(Len(Months) + 1)
      /\ k + 1 \in 1..(Len(Months) + 1)
  BY <1>1
<1>3. /\ Months[k] \in Nat \ {0} /\ Months[k] <= KeepDays
      /\ Months[k + 1] \in Nat \ {0} /\ Months[k + 1] <= KeepDays
  BY <1>2, MonthFacts, CalendarAssumption
<1>4. FirstDay(k) \in Nat /\ FirstDay(k + 1) = FirstDay(k) + Months[k]
  BY <1>2, FirstDayStep
<1>5. d \in Int /\ e \in Int /\ e <= d + KeepDays
  <2> DEFINE f == FirstDay(k)
             g == FirstDay(k + 1)
             x == Months[k]
             y == Months[k + 1]
  <2>1. /\ f \in Nat /\ g = f + x /\ x \in Nat \ {0} /\ y \in Nat \ {0}
        /\ x <= KeepDays /\ y <= KeepDays
    BY <1>3, <1>4
  <2>2. d = f + (IF r > x THEN x ELSE r) - 1 /\ e = g + (IF r > y THEN y ELSE r) - 1
    OBVIOUS
  <2> HIDE DEF d, e, f, g, x, y
  <2> QED
    BY <1>1, <2>1, <2>2
<1>6. StartIn(r, k) = d * DayLength /\ StartIn(r, k + 1) = e * DayLength
  BY DEF StartIn
<1> HIDE DEF d, e
<1> DEFINE q == to \div DayLength
<1>7. q \in Int /\ q < e
  BY <1>1, <1>5, <1>6, DayBounds
<1>8. Cutoff(to) = (q - KeepDays) * DayLength
  BY DEF Cutoff, DayOf
<1> HIDE DEF q
<1>9. d - (q - KeepDays) \in Nat
  BY <1>1, <1>5, <1>7
<1>10. (d - (q - KeepDays)) * DayLength >= 0
  BY <1>1, <1>9
<1>11. (d - (q - KeepDays)) * DayLength = d * DayLength - (q - KeepDays) * DayLength
  BY <1>1, <1>5, <1>7
<1>12. d * DayLength \in Int /\ (q - KeepDays) * DayLength \in Int
  BY <1>1, <1>5, <1>7
<1> QED
  BY <1>6, <1>8, <1>10, <1>11, <1>12

(* Rounding what is after the cycle's start misses what the days of the     *)
(* cycle get by less than two bytes.                                        *)
LEMMA Rounding ==
    ASSUME NEW delta \in Nat, NEW from \in Int, NEW start \in Int, NEW to \in Int,
           from < start, start < to, from # Never
    PROVE  LET rest == delta - Share(delta, from, to, start)
           IN  CycleShare(delta, start, from, to) \in (rest - 1)..rest
<1> DEFINE k == to - from
           P == delta * (start - from)
           Q == delta * (to - start)
           a == P \div k
           N == 2 * Q + k
           K == 2 * k
           b == N \div K
<1>1. k \in Nat \ {0} /\ P \in Int /\ Q \in Int
  OBVIOUS
<1>2. P + Q = delta * k
  OBVIOUS
<1>3. Share(delta, from, to, start) = a
  BY DEF Share
<1>4. CycleShare(delta, start, from, to) = b
  <2>1. CycleShare(delta, start, from, to) = (2 * delta * (to - start) + (to - from)) \div (2 * (to - from))
    BY DEF CycleShare
  <2>2. 2 * delta * (to - start) = 2 * Q
    OBVIOUS
  <2> QED
    BY <2>1, <2>2
<1> HIDE DEF P, Q, k
<1>5. a \in Int /\ a * k <= P /\ P < (a + 1) * k
  <2>1. a \in Int /\ a + 1 \in Int
    BY <1>1, DayBounds
  <2> HIDE DEF a
  <2>2. a <= P \div k /\ P \div k < a + 1
    BY <2>1 DEF a
  <2> QED
    BY <1>1, <2>1, <2>2, DayBounds
<1>6. K \in Nat \ {0} /\ N \in Int
  BY <1>1
<1> HIDE DEF a
<1> DEFINE top == delta - a
<1>7. top \in Int
  BY <1>5
<1>8. N < (top + 1) * K
  <2>1. (top + 1) * K = 2 * (delta * k) - 2 * (a * k) + 2 * k
    BY <1>1, <1>5
  <2>2. delta * k \in Int /\ a * k \in Int
    BY <1>1, <1>5
  <2> DEFINE x == delta * k
             y == a * k
  <2>3. x \in Int /\ y \in Int /\ P + Q = x /\ y <= P /\ (top + 1) * K = 2 * x - 2 * y + 2 * k
    BY <1>2, <1>5, <2>1, <2>2
  <2> HIDE DEF x, y
  <2>4. N < 2 * x - 2 * y + 2 * k
    BY <1>1, <2>3
  <2> QED
    BY <2>3, <2>4
<1>9. (top - 1) * K <= N
  <2>1. (top - 1) * K = 2 * (delta * k) - 2 * (a * k) - 2 * k /\ (a + 1) * k = a * k + k
    BY <1>1, <1>5
  <2>2. delta * k \in Int /\ a * k \in Int
    BY <1>1, <1>5
  <2> DEFINE x == delta * k
             y == a * k
  <2>3. x \in Int /\ y \in Int /\ P + Q = x /\ P < y + k /\ (top - 1) * K = 2 * x - 2 * y - 2 * k
    BY <1>2, <1>5, <2>1, <2>2
  <2> HIDE DEF x, y
  <2>4. 2 * x - 2 * y - 2 * k <= N
    BY <1>1, <2>3
  <2> QED
    BY <2>3, <2>4
<1> HIDE DEF N, K, top
<1>10. b \in Int /\ top - 1 <= b /\ b < top + 1
  <2>1. top - 1 \in Int /\ top + 1 \in Int
    BY <1>7
  <2> QED
    BY <1>6, <1>8, <1>9, <2>1, DayBounds
<1> HIDE DEF b
<1>11. b \in (top - 1)..top
  BY <1>7, <1>10
<1> QED
  BY <1>3, <1>4, <1>11 DEF top

LEMMA CycleDaysAre ==
    ASSUME NEW s \in Int
    PROVE  CycleDays(s) \in SUBSET Days /\ IsFiniteSet(CycleDays(s)) /\ Days \in SUBSET Nat
<1>1. CycleDays(s) \in SUBSET Days
  BY DEF CycleDays
<1>2. IsFiniteSet(CycleDays(s))
  BY <1>1, DaysFinite, FS_Subset
<1> QED
  BY <1>1, <1>2 DEF Days

LEMMA StartsCompare ==
    ASSUME NEW r \in ResetDays, NEW a \in 1..Len(Months), NEW b \in 1..Len(Months)
    PROVE  /\ StartIn(r, a) \in Nat /\ StartIn(r, b) \in Nat
           /\ a < b <=> StartIn(r, a) < StartIn(r, b)
           /\ a <= b <=> StartIn(r, a) <= StartIn(r, b)
           /\ a = b <=> StartIn(r, a) = StartIn(r, b)
<1> DEFINE x == StartIn(r, a)
           y == StartIn(r, b)
<1>1. x \in Nat /\ y \in Nat /\ (a < b => x < y) /\ (b < a => y < x) /\ (a = b => x = y)
  BY StartsOrdered
<1> HIDE DEF x, y
<1>2. a \in Int /\ b \in Int
  OBVIOUS
<1>3. (a < b <=> x < y) /\ (a <= b <=> x <= y) /\ (a = b <=> x = y)
  BY <1>1, <1>2
<1> QED
  BY <1>1, <1>3 DEF x, y

(* A new cycle has no bytes yet.                                            *)
LEMMA RolloverDays ==
    ASSUME Clock, NEW n \in Account, Begins(n), InDays(n), n.seen <= time, ~n.unordered,
           NEW t \in Believed, t <= time
    PROVE  LET m == Rollover(n, t)
           IN  /\ InDays(m)
               /\ \A k \in 1..(Len(Months) - 1) :
                     m.start = StartIn(n.reset, k) => t < StartIn(n.reset, k + 1)
<1> DEFINE m == Rollover(n, t)
           c == CycleStart(n.reset, t)
           over == n.start < c
<1>1. /\ m \in Account /\ m.seen = n.seen /\ m.daily = n.daily /\ m.reset = n.reset
      /\ m.unordered = n.unordered
      /\ m.start = IF over THEN c ELSE n.start
      /\ m.used = IF over THEN 0 ELSE n.used
      /\ m.corrected = IF over THEN FALSE ELSE n.corrected
  BY RolloverFacts
<1>2. n.reset \in ResetDays /\ n.start \in Int /\ n.daily \in [Days -> Nat] /\ n.seen \in Int
  BY DEF Account
<1>3. PICK j \in 1..(Len(Months) - 1) :
         c = StartIn(n.reset, j) /\ StartIn(n.reset, j) <= t /\ t < StartIn(n.reset, j + 1)
  BY <1>2, CycleStartFacts
<1>4. PICK i \in 1..(Len(Months) - 1) : n.start = StartIn(n.reset, i)
  BY DEF Begins
<1>5. /\ Len(Months) \in Nat /\ j \in 1..Len(Months) /\ j + 1 \in 1..Len(Months)
      /\ i \in 1..Len(Months) /\ i + 1 \in 1..Len(Months)
  BY MonthFacts
<1>6. /\ \A a \in 1..Len(Months) : StartIn(n.reset, a) \in Nat
      /\ \A a, b \in 1..Len(Months) : a < b => StartIn(n.reset, a) < StartIn(n.reset, b)
  BY <1>2, StartsOrdered
<1>7. time \in Int /\ t \in Int
  BY MonthFacts, <1>3, <1>5, <1>6 DEF Clock, Believed
<1>8. /\ n.start <= time
      /\ \A d \in Days : time < d * DayLength => n.daily[d] = 0
      /\ \A d \in Days, k \in 1..Len(Months) :
            n.start < StartIn(n.reset, k) /\ StartIn(n.reset, k) <= d * DayLength
               => n.daily[d] = 0
      /\ ~n.corrected =>
            LET inCycle == Part(n.daily, CycleDays(n.start))
            IN  /\ n.used \in (inCycle - 1)..inCycle
                /\ n.used # inCycle => n.start < n.seen
  BY DEF InDays
<1> HIDE DEF m, c, over
<1>9. ASSUME over
      PROVE  /\ InDays(m)
             /\ \A k \in 1..(Len(Months) - 1) :
                   m.start = StartIn(n.reset, k) => t < StartIn(n.reset, k + 1)
  <2>1. m.start = c /\ m.used = 0 /\ n.start < c
    BY <1>1, <1>9 DEF over
  <2>2. m.start <= time
    BY <1>3, <1>5, <1>6, <1>7, <2>1
  <2>3. \A d \in Days, k \in 1..Len(Months) :
            m.start < StartIn(m.reset, k) /\ StartIn(m.reset, k) <= d * DayLength
               => m.daily[d] = 0
    <3> SUFFICES ASSUME NEW d \in Days, NEW k \in 1..Len(Months), c < StartIn(n.reset, k),
                        StartIn(n.reset, k) <= d * DayLength
                 PROVE  n.daily[d] = 0
      BY <1>1, <2>1
    <3>1. n.start < StartIn(n.reset, k)
      <4> DEFINE x == StartIn(n.reset, k)
      <4>1. x \in Nat /\ c < x /\ c \in Nat
        BY <1>3, <1>5, <1>6
      <4> HIDE DEF x
      <4>2. n.start < x
        BY <1>2, <2>1, <4>1
      <4> QED
        BY <4>2 DEF x
    <3> QED
      BY <1>8, <3>1
  <2>4. Part(n.daily, CycleDays(c)) = 0
    <3>1. IsFiniteSet(CycleDays(c))
      BY <1>3, <1>5, <1>6, CycleDaysAre
    <3>2. \A d \in CycleDays(c) : n.daily[d] = 0
      <4> SUFFICES ASSUME NEW d \in CycleDays(c) PROVE n.daily[d] = 0
        OBVIOUS
      <4>1. d \in Days /\ d \in Nat /\ DayOf(c) <= d
        BY DEF CycleDays, Days
      <4>2. c <= d * DayLength
        BY <1>2, <1>3, <1>5, <4>1, DaysOfStart
      <4> QED
        BY <1>3, <1>5, <1>8, <2>1, <4>1, <4>2
    <3> QED
      BY <3>1, <3>2, PartNothing
  <2>5. InDays(m)
    <3> DEFINE x == Part(m.daily, CycleDays(m.start))
    <3>1. x = 0
      BY <1>1, <2>1, <2>4
    <3> HIDE DEF x
    <3>2. m.used \in (x - 1)..x /\ m.used = x
      BY <2>1, <3>1
    <3> QED
      BY <1>1, <1>8, <2>2, <2>3, <3>2 DEF InDays, x
  <2>6. \A k \in 1..(Len(Months) - 1) :
           m.start = StartIn(n.reset, k) => t < StartIn(n.reset, k + 1)
    <3> SUFFICES ASSUME NEW k \in 1..(Len(Months) - 1), c = StartIn(n.reset, k)
                 PROVE  t < StartIn(n.reset, k + 1)
      BY <2>1
    <3>1. k \in 1..Len(Months)
      BY <1>5
    <3>2. k = j
      <4>1. StartIn(n.reset, k) = StartIn(n.reset, j)
        BY <1>3
      <4>2. k = j <=> StartIn(n.reset, k) = StartIn(n.reset, j)
        BY <1>2, <1>5, <3>1, StartsCompare
      <4> QED
        BY <4>1, <4>2
    <3> QED
      BY <1>3, <3>2
  <2> QED
    BY <2>5, <2>6
<1>10. ASSUME ~over
       PROVE  /\ InDays(m)
              /\ \A k \in 1..(Len(Months) - 1) :
                    m.start = StartIn(n.reset, k) => t < StartIn(n.reset, k + 1)
  <2>1. m.start = n.start /\ m.used = n.used /\ m.corrected = n.corrected /\ c <= n.start
    <3>1. c \in Nat
      BY <1>3, <1>5, <1>6
    <3> QED
      BY <1>1, <1>2, <1>10, <3>1 DEF over
  <2>2. InDays(m)
    BY <1>1, <1>8, <2>1 DEF InDays
  <2>3. \A k \in 1..(Len(Months) - 1) :
           m.start = StartIn(n.reset, k) => t < StartIn(n.reset, k + 1)
    <3> SUFFICES ASSUME NEW k \in 1..(Len(Months) - 1), n.start = StartIn(n.reset, k)
                 PROVE  t < StartIn(n.reset, k + 1)
      BY <2>1
    <3>1. k \in 1..Len(Months) /\ k + 1 \in 1..Len(Months)
      BY <1>5
    <3>2. j <= k
      BY <1>2, <1>3, <1>5, <2>1, <3>1, StartsCompare
    <3>3. StartIn(n.reset, j + 1) <= StartIn(n.reset, k + 1)
      <4>1. j + 1 <= k + 1
        BY <1>5, <3>1, <3>2
      <4> QED
        BY <1>2, <1>5, <3>1, <4>1, StartsCompare
    <3>4. StartIn(n.reset, j + 1) \in Nat /\ StartIn(n.reset, k + 1) \in Nat
      BY <1>5, <1>6, <3>1
    <3> QED
      BY <1>3, <1>7, <3>3, <3>4
  <2> QED
    BY <2>2, <2>3
<1> QED
  BY <1>9, <1>10 DEF m

LEMMA ChangeDays ==
    ASSUME Clock, NEW n \in Account, Begins(n), InDays(n), NEW r \in ResetDays
    PROVE  InDays(ChangeResetDay(n, r))
<1> DEFINE m == ChangeResetDay(n, r)
           c == CycleStart(r, time)
<1>1. /\ m \in Account /\ m.seen = n.seen /\ m.daily = n.daily /\ m.unordered = n.unordered
      /\ m.reset = r /\ m.start = c
      /\ m.used = IF n.start = c THEN n.used ELSE Part(n.daily, DaysTillNow(c))
      /\ m.corrected = IF n.start = c THEN n.corrected ELSE FALSE
  BY ChangeFacts
<1> SUFFICES ASSUME ~n.unordered PROVE InDays(m)
  BY <1>1 DEF InDays
<1>2. PICK j \in 1..(Len(Months) - 1) :
         c = StartIn(r, j) /\ StartIn(r, j) <= time /\ time < StartIn(r, j + 1)
  BY ClockBelieved, CycleStartFacts
<1>3. Len(Months) \in Nat /\ j \in 1..Len(Months) /\ j + 1 \in 1..Len(Months)
  BY MonthFacts
<1>4. /\ \A a \in 1..Len(Months) : StartIn(r, a) \in Nat
      /\ \A a, b \in 1..Len(Months) : a < b => StartIn(r, a) < StartIn(r, b)
  BY StartsOrdered
<1>5. /\ \A d \in Days : time < d * DayLength => n.daily[d] = 0
      /\ ~n.corrected =>
            LET inCycle == Part(n.daily, CycleDays(n.start))
            IN  /\ n.used \in (inCycle - 1)..inCycle
                /\ n.used # inCycle => n.start < n.seen
  BY DEF InDays
<1>6. /\ time \in Int /\ n.daily \in [Days -> Nat] /\ DayLength \in Nat \ {0}
      /\ Days \in SUBSET Nat
  BY MonthFacts DEF Clock, Account, Days
<1>7. \A d \in Days, k \in 1..Len(Months) :
          c < StartIn(r, k) /\ StartIn(r, k) <= d * DayLength => n.daily[d] = 0
  <2> SUFFICES ASSUME NEW d \in Days, NEW k \in 1..Len(Months), c < StartIn(r, k),
                      StartIn(r, k) <= d * DayLength
               PROVE  n.daily[d] = 0
    OBVIOUS
  <2>1. j + 1 <= k
    BY <1>2, <1>3, <1>4
  <2>2. StartIn(r, j + 1) <= StartIn(r, k)
    <3>1. CASE j + 1 = k
      BY <1>3, <1>4, <3>1
    <3>2. CASE j + 1 < k
      BY <1>3, <1>4, <3>2
    <3> QED
      BY <1>3, <2>1, <3>1, <3>2
  <2>3. StartIn(r, j + 1) \in Nat /\ StartIn(r, k) \in Nat /\ d * DayLength \in Int
    BY <1>3, <1>4, <1>6
  <2>4. time < d * DayLength
    BY <1>2, <1>6, <2>2, <2>3
  <2> QED
    BY <1>5, <2>4
<1>8. Part(n.daily, DaysTillNow(c)) = Part(n.daily, CycleDays(c)) /\ Part(n.daily, CycleDays(c)) \in Nat
  <2> DEFINE D == CycleDays(c)
             E == DaysTillNow(c)
             f == n.daily
  <2>1. IsFiniteSet(D) /\ D \in SUBSET Days
    BY <1>2, <1>3, <1>4, CycleDaysAre
  <2>2. E \in SUBSET D
    BY DEF CycleDays, DaysTillNow
  <2>3. \A d \in D : f[d] \in Nat /\ f[d] \in Int
    <3> HIDE DEF D
    <3>1. \A d \in Days : f[d] \in Nat
      BY <1>6
    <3> QED
      BY <2>1, <3>1
  <2>4. \A d \in D \ E : f[d] = 0
    <3> SUFFICES ASSUME NEW d \in D \ E PROVE f[d] = 0
      OBVIOUS
    <3>1. d \in Days /\ d \in Nat /\ ~(d <= DayOf(time))
      BY <1>6, <2>1 DEF CycleDays, DaysTillNow
    <3>2. time < d * DayLength
      <4>1. d <= time \div DayLength <=> d * DayLength <= time
        BY <1>6, <3>1, DayBounds
      <4>2. d * DayLength \in Int
        BY <1>6, <3>1
      <4> QED
        BY <1>6, <3>1, <4>1, <4>2 DEF DayOf
    <3> QED
      BY <1>5, <3>1, <3>2
  <2> HIDE DEF D, E, f
  <2>5. Part(f, D) = Part(f, E) + Part(f, D \ E)
    <3>1. \A d \in D : f[d] \in Int
      BY <2>3
    <3> QED
      BY <2>1, <2>2, <3>1, PartSplit
  <2>6. Part(f, D \ E) = 0
    <3>1. IsFiniteSet(D \ E)
      BY <2>1, FS_Subset
    <3> QED
      BY <2>4, <3>1, PartNothing
  <2>7. Part(f, D) \in Nat
    <3>1. \A d \in D : f[d] \in Nat
      BY <2>3
    <3> QED
      BY <2>1, <3>1, PartNatural
  <2>8. Part(f, E) \in Int
    <3>1. IsFiniteSet(E) /\ \A d \in E : f[d] \in Int
      BY <2>1, <2>2, <2>3, FS_Subset
    <3> QED
      BY <3>1, PartType
  <2>9. Part(f, E) = Part(f, D)
    BY <2>5, <2>6, <2>7, <2>8
  <2> QED
    BY <2>7, <2>9 DEF D, E, f
<1>9. c <= time
  BY <1>2, <1>3, <1>4, <1>6
<1> HIDE DEF m, c
<1>10. ~m.corrected =>
          LET inCycle == Part(m.daily, CycleDays(m.start))
          IN  /\ m.used \in (inCycle - 1)..inCycle
              /\ m.used # inCycle => m.start < m.seen
  <2>1. CASE n.start = c
    BY <1>1, <1>5, <2>1
  <2>2. CASE n.start # c
    <3> DEFINE x == Part(n.daily, CycleDays(c))
    <3>1. m.used = x /\ x \in Nat /\ Part(m.daily, CycleDays(m.start)) = x
      BY <1>1, <1>8, <2>2
    <3> HIDE DEF x
    <3> QED
      BY <3>1
  <2> QED
    BY <2>1, <2>2
<1> QED
  BY <1>1, <1>5, <1>7, <1>9, <1>10 DEF InDays

(* What a charge adds to the days of the cycle it adds to its use, up to    *)
(* the rounding of a report that spans the start.                           *)
LEMMA DaysAndShare ==
    ASSUME NEW daily \in [Days -> Nat], NEW delta \in Nat, NEW from \in Int, NEW to \in Int,
           from < to, from # Never, to <= LastTime + 1,
           NEW r \in ResetDays, NEW k \in 1..(Len(Months) - 1), to < StartIn(r, k + 1),
           StartIn(r, k) <= LastTime
    PROVE  LET start == StartIn(r, k)
               new   == Daily(daily, delta, from, to)
               more  == Part(new, CycleDays(start)) - Part(daily, CycleDays(start))
               share == IF delta > 0 THEN CycleShare(delta, start, from, to) ELSE 0
           IN  /\ Part(new, CycleDays(start)) \in Nat /\ Part(daily, CycleDays(start)) \in Nat
               /\ share \in Int
               /\ ~(from < start /\ start < to) => share = more
               /\ share \in (more - 1)..more
<1> DEFINE start == StartIn(r, k)
           s == DayOf(start)
           new == Daily(daily, delta, from, to)
           D == CycleDays(start)
           S == Share(delta, from, to, Edge(from, to, start))
           x == Part(daily, D)
           y == Part(new, D)
           share == IF delta > 0 THEN CycleShare(delta, start, from, to) ELSE 0
<1>1. Len(Months) \in Nat /\ k \in 1..Len(Months) /\ LastTime \in Nat /\ DayLength \in Nat \ {0}
  BY MonthFacts
<1>2. start \in Nat /\ s \in Nat /\ s * DayLength = start
  BY <1>1, DaysOfStart, StartsOrdered
<1>3. s \in Days
  <2>1. s <= (LastTime + 1) \div DayLength
    <3>1. start <= LastTime + 1 /\ LastTime + 1 \in Int
      BY <1>1, <1>2
    <3> HIDE DEF s, start
    <3> QED
      BY <1>1, <1>2, <3>1, DayBounds
  <2> HIDE DEF s
  <2>2. (LastTime + 1) \div DayLength \in Nat /\ Days = 0..((LastTime + 1) \div DayLength)
    BY DaysFinite
  <2> QED
    BY <1>2, <2>1, <2>2
<1>4. D = {d \in Days : s <= d}
  BY DEF CycleDays
<1>5. Cutoff(to) <= start /\ Cutoff(to) \in Int /\ Cutoff(to) < to
  BY CutoffBefore, EdgeFacts
<1>6. new \in [Days -> Nat] /\ y = x + delta - S
  <2>1. new \in [Days -> Nat]
    BY DailyFacts
  <2>2. \A e \in Days : Cutoff(to) <= e * DayLength =>
           LET rest == {d \in Days : e <= d}
           IN  Part(new, rest) = Part(daily, rest) + delta
                                 - Share(delta, from, to, Edge(from, to, e * DayLength))
    BY DailyFacts
  <2> HIDE DEF new, s, start
  <2>3. Cutoff(to) <= s * DayLength
    BY <1>2, <1>5
  <2>4. LET rest == {d \in Days : s <= d}
        IN  Part(new, rest) = Part(daily, rest) + delta
                              - Share(delta, from, to, Edge(from, to, s * DayLength))
    BY <1>3, <2>2, <2>3
  <2> QED
    BY <1>2, <1>4, <2>1, <2>4
<1>7. x \in Nat /\ y \in Nat
  <2>1. IsFiniteSet(D) /\ D \in SUBSET Days
    BY <1>2, CycleDaysAre
  <2> HIDE DEF D, new
  <2>2. \A d \in D : daily[d] \in Nat
    BY <2>1
  <2>3. \A d \in D : new[d] \in Nat
    BY <1>6, <2>1
  <2> QED
    BY <2>1, <2>2, <2>3, PartNatural
<1>8. S \in Int
  <2>1. Edge(from, to, start) \in from..to
    BY <1>2, EdgeFacts
  <2>2. S \in 0..delta
    BY <2>1, ShareFacts
  <2> QED
    BY <2>2
<1> HIDE DEF start, s, new, D, x, y
<1>9. ASSUME ~(from < start /\ start < to) PROVE share = delta - S
  <2>1. CASE to <= start
    <3>1. Edge(from, to, start) = to
      BY <1>2, <1>5, <2>1 DEF Edge, Later
    <3>2. S = delta
      <4>1. Share(delta, from, to, to) = delta
        BY ShareFacts
      <4> QED
        BY <3>1, <4>1, Zenon
    <3>3. CycleShare(delta, start, from, to) = 0
      BY <1>2, <2>1 DEF CycleShare
    <3> QED
      BY <3>2, <3>3
  <2>2. CASE start <= from
    <3>1. Edge(from, to, start) = from
      BY <1>2, <1>5, <2>2 DEF Edge, Later
    <3>2. S = 0
      <4>1. Share(delta, from, to, from) = 0
        BY ShareFacts
      <4> QED
        BY <3>1, <4>1
    <3>3. CycleShare(delta, start, from, to) = delta
      BY <1>2, <2>2 DEF CycleShare
    <3> QED
      BY <3>2, <3>3
  <2> QED
    BY <1>2, <1>9, <2>1, <2>2
<1>10. ASSUME from < start, start < to PROVE share \in (delta - S - 1)..(delta - S)
  <2>1. Edge(from, to, start) = start
    BY <1>2, <1>5, <1>10 DEF Edge, Later
  <2>2. CycleShare(delta, start, from, to) \in (delta - S - 1)..(delta - S)
    <3> DEFINE a == Share(delta, from, to, start)
    <3>1. CycleShare(delta, start, from, to) \in (delta - a - 1)..(delta - a)
      <4>1. start \in Int /\ from < start /\ start < to
        BY <1>2, <1>10
      <4> HIDE DEF a
      <4>2. CycleShare(delta, start, from, to) \in ((delta - a) - 1)..(delta - a)
        BY <4>1, Rounding DEF a
      <4> QED
        BY <4>2
    <3>2. S = a
      BY <2>1
    <3> HIDE DEF S, a
    <3> QED
      BY <3>1, <3>2
  <2>3. delta = 0 => S = 0
    <3>1. start \in from..to
      BY <1>2, <1>10
    <3>2. S \in 0..delta
      BY <2>1, <3>1, ShareFacts
    <3> QED
      BY <3>2
  <2>4. CASE delta > 0
    BY <2>2, <2>4
  <2>5. CASE ~(delta > 0)
    <3>1. delta = 0 /\ share = 0
      BY <2>5
    <3> HIDE DEF S, share
    <3> QED
      BY <2>3, <3>1
  <2> QED
    BY <2>4, <2>5
<1> HIDE DEF S, share
<1>11. y - x = delta - S
  BY <1>6, <1>7, <1>8
<1>12. /\ share \in Int /\ share \in ((y - x) - 1)..(y - x)
       /\ ~(from < start /\ start < to) => share = y - x
  <2>1. CASE from < start /\ start < to
    BY <1>7, <1>8, <1>10, <1>11, <2>1
  <2>2. CASE ~(from < start /\ start < to)
    BY <1>7, <1>8, <1>9, <1>11, <2>2
  <2> QED
    BY <2>1, <2>2
<1> QED
  BY <1>7, <1>12 DEF start, new, x, y, D, share

LEMMA ChargeDays ==
    ASSUME Clock, NEW n \in Account, Begins(n), Seems(n), InDays(n), NEW r \in Report
    PROVE  Seems(Charge(n, r)) /\ InDays(Charge(n, r))
<1> DEFINE c == Charge(n, r)
           m == Rollover(n, To(r))
           delta == Added(n, r)
           from == From(n)
           to == To(r)
<1>1. /\ c \in Account /\ Begins(c)
      /\ c.last = r /\ c.seen = time
      /\ c.daily = IF Known(n, r) THEN Daily(n.daily, delta, from, to) ELSE n.daily
      /\ c.start = m.start /\ c.reset = n.reset /\ c.corrected = m.corrected
      /\ c.used = IF delta > 0
                  THEN m.used + CycleShare(delta, Later(m.start, m.manual), from, to)
                  ELSE m.used
      /\ c.manual = IF to >= m.manual THEN Never ELSE m.manual
      /\ c.unordered = (n.unordered \/ to > time \/ (delta > 0 /\ to <= from))
  <2>1. c \in Account /\ Begins(c) /\ c.last = r /\ c.seen = time
    BY ChargeFacts, Zenon
  <2>2. c.daily = IF Known(n, r) THEN Daily(n.daily, delta, from, to) ELSE n.daily
    BY ChargeFacts, Zenon
  <2>3. c.start = m.start /\ c.reset = n.reset /\ c.corrected = m.corrected
    BY ChargeFacts, Zenon
  <2>4. c.used = IF delta > 0
                 THEN m.used + CycleShare(delta, Later(m.start, m.manual), from, to)
                 ELSE m.used
    BY ChargeFacts, Zenon
  <2>5. c.manual = IF to >= m.manual THEN Never ELSE m.manual
    BY ChargeFacts, Zenon
  <2>6. c.unordered = (n.unordered \/ to > time \/ (delta > 0 /\ to <= from))
    BY ChargeFacts, Zenon
  <2> HIDE DEF c, m, delta, from, to
  <2> QED
    BY <2>1, <2>2, <2>3, <2>4, <2>5, <2>6
<1>2. to \in Believed /\ to \in Int
  BY ToFacts
<1>3. /\ m \in Account /\ Begins(m) /\ m.seen = n.seen /\ m.daily = n.daily /\ m.reset = n.reset
      /\ m.unordered = n.unordered
      /\ m.manual = Never \/ (m.manual = n.manual /\ m.corrected = n.corrected)
  BY <1>2, RolloverFacts
<1>4. time \in Int /\ FirstTime \in Nat /\ FirstTime <= time /\ time <= LastTime /\ LastTime \in Nat
  BY MonthFacts DEF Clock
<1>5. ~m.corrected => m.manual = Never
  BY <1>3 DEF Seems
<1> HIDE DEF c, m, delta, from, to
<1>6. Seems(c)
  <2>1. c.seen <= time /\ FirstTime <= c.seen
    BY <1>1, <1>4
  <2>2. ~c.corrected => c.manual = Never
    BY <1>1, <1>5
  <2> QED
    BY <2>1, <2>2 DEF Seems
<1>7. ASSUME ~c.unordered PROVE InDays(c)
  <2>1. ~n.unordered /\ to <= time /\ ~(delta > 0 /\ to <= from)
    <3>1. ~n.unordered /\ ~(to > time) /\ ~(delta > 0 /\ to <= from)
      BY <1>1, <1>7, Zenon
    <3> QED
      BY <1>2, <1>4, <3>1
  <2>2. /\ InDays(m)
        /\ \A k \in 1..(Len(Months) - 1) :
              m.start = StartIn(n.reset, k) => to < StartIn(n.reset, k + 1)
    BY <1>2, <2>1, RolloverDays DEF m, to, Seems
  <2>3. PICK k \in 1..(Len(Months) - 1) : m.start = StartIn(n.reset, k)
    BY <1>3 DEF Begins
  <2>4. n.reset \in ResetDays /\ to < StartIn(n.reset, k + 1)
    BY <2>2, <2>3 DEF Account
  <2>5. /\ m.start <= time
        /\ \A d \in Days : time < d * DayLength => m.daily[d] = 0
        /\ \A d \in Days, j \in 1..Len(Months) :
              m.start < StartIn(n.reset, j) /\ StartIn(n.reset, j) <= d * DayLength
                 => m.daily[d] = 0
        /\ ~m.corrected =>
              LET inCycle == Part(m.daily, CycleDays(m.start))
              IN  /\ m.used \in (inCycle - 1)..inCycle
                  /\ m.used # inCycle => m.start < m.seen
    BY <1>3, <2>1, <2>2 DEF InDays
  <2>6. /\ m.start \in Int /\ m.seen \in Int /\ m.used \in Int
        /\ n.daily \in [Days -> Nat] /\ n.seen \in Int
    BY <1>3 DEF Account
  <2>7. m.start \in Nat /\ m.start <= LastTime
    <3>1. k \in 1..Len(Months)
      BY MonthFacts
    <3>2. m.start \in Nat
      BY <2>3, <2>4, <3>1, StartsOrdered
    <3> QED
      BY <1>4, <2>5, <3>2
  <2>8. n.seen <= time
    BY DEF Seems
  <2>9. ~m.corrected => Later(m.start, m.manual) = m.start
    BY <1>5, <2>7 DEF Later, Never
  <2>10. CASE ~Known(n, r) \/ from = Never \/ to <= from
    <3>1. delta = 0 /\ c.daily = m.daily
      <4>1. CASE ~Known(n, r)
        BY <1>1, <1>3, <4>1 DEF delta, Added
      <4>2. CASE Known(n, r)
        <5>1. n.last \in Report /\ n.last # NoReport
          BY <4>2 DEF Known, Comparable, Account
        <5>2. delta \in Nat
          BY <4>2, <5>1, DeltaNatural DEF delta, Added
        <5>3. n.last.at \in Int /\ FirstTime <= n.seen
          BY <5>1 DEF Report, Seems
        <5>4. from \in Int /\ n.seen - 1 <= from
          BY <2>6, <5>3, SampleFacts DEF from, From
        <5>5. 1 <= FirstTime
          <6> DEFINE b == FirstDay(2) * DayLength
          <6>1. b \in Nat
            BY MonthFacts, FirstDayStep
          <6>2. b < FirstTime
            BY CalendarAssumption
          <6> HIDE DEF b
          <6> QED
            BY <1>4, <6>1, <6>2
        <5>6. from # Never
          BY <1>4, <2>6, <5>3, <5>4, <5>5 DEF Never
        <5>7. to <= from
          BY <2>10, <4>2, <5>6
        <5>8. delta = 0
          BY <2>1, <5>2, <5>7
        <5>9. Daily(n.daily, delta, from, to) = n.daily
          BY <5>7 DEF Daily
        <5> QED
          BY <1>1, <1>3, <4>2, <5>8, <5>9
      <4> QED
        BY <4>1, <4>2
    <3>2. c.used = m.used
      BY <1>1, <3>1
    <3>3. ~c.corrected =>
             LET inCycle == Part(c.daily, CycleDays(c.start))
             IN  /\ c.used \in (inCycle - 1)..inCycle
                 /\ c.used # inCycle => c.start < c.seen
      BY <1>1, <1>3, <1>4, <2>5, <2>6, <2>8, <3>1, <3>2
    <3> QED
      BY <1>1, <2>5, <3>1, <3>3 DEF InDays
  <2>11. CASE Known(n, r) /\ from # Never /\ ~(to <= from)
    <3>1. n.last \in Report
      BY <2>11 DEF Known, Comparable, Account
    <3>2. delta \in Nat
      BY <2>11, <3>1, DeltaNatural DEF delta, Added
    <3>3. from \in Int /\ n.seen - 1 <= from
      <4>1. n.last.at \in Int
        BY <3>1 DEF Report
      <4> QED
        BY <2>6, <4>1, SampleFacts DEF from, From
    <3>4. from < to /\ to <= LastTime + 1
      BY <1>2, <1>4, <2>1, <2>11, <3>3
    <3>5. c.daily = Daily(n.daily, delta, from, to)
      BY <1>1, <2>11
    <3>6. \A d \in Days : to < d * DayLength /\ n.daily[d] = 0 => c.daily[d] = 0
      BY <1>2, <2>6, <2>11, <3>2, <3>3, <3>4, <3>5, DailyFacts
    <3>7. \A d \in Days : time < d * DayLength => c.daily[d] = 0
      <4> SUFFICES ASSUME NEW d \in Days, time < d * DayLength PROVE c.daily[d] = 0
        OBVIOUS
      <4>1. d * DayLength \in Int
        BY MonthFacts DEF Days
      <4>2. to < d * DayLength
        BY <1>2, <1>4, <2>1, <4>1
      <4> QED
        BY <1>3, <2>5, <3>6, <4>2
    <3>8. \A d \in Days, j \in 1..Len(Months) :
             c.start < StartIn(c.reset, j) /\ StartIn(c.reset, j) <= d * DayLength
                => c.daily[d] = 0
      <4> SUFFICES ASSUME NEW d \in Days, NEW j \in 1..Len(Months),
                          m.start < StartIn(n.reset, j), StartIn(n.reset, j) <= d * DayLength
                   PROVE  c.daily[d] = 0
        BY <1>1
      <4>1. k \in 1..Len(Months) /\ k + 1 \in 1..Len(Months) /\ k \in Int /\ j \in Int
        BY MonthFacts
      <4>2. StartIn(n.reset, k) < StartIn(n.reset, j)
        BY <2>3
      <4>3. k < j
        BY <2>4, <4>1, <4>2, StartsCompare
      <4>4. k + 1 <= j
        BY <4>1, <4>3
      <4>5. StartIn(n.reset, k + 1) <= StartIn(n.reset, j)
        BY <2>4, <4>1, <4>4, StartsCompare
      <4>6. StartIn(n.reset, k + 1) \in Nat /\ StartIn(n.reset, j) \in Nat /\ d * DayLength \in Int
        BY <2>4, <4>1, StartsOrdered, MonthFacts DEF Days
      <4>7. to < d * DayLength
        BY <1>2, <2>4, <4>5, <4>6
      <4> QED
        BY <1>3, <2>5, <3>6, <4>7
    <3> DEFINE x == Part(n.daily, CycleDays(m.start))
               y == Part(c.daily, CycleDays(m.start))
               share == IF delta > 0 THEN CycleShare(delta, m.start, from, to) ELSE 0
    <3>9. /\ x \in Nat /\ y \in Nat /\ share \in Int
          /\ ~(from < m.start /\ m.start < to) => share = y - x
          /\ share \in ((y - x) - 1)..(y - x)
      <4>1. StartIn(n.reset, k) <= LastTime
        BY <2>3, <2>7
      <4> DEFINE s == StartIn(n.reset, k)
                 b == Part(n.daily, CycleDays(s))
                 e == Part(Daily(n.daily, delta, from, to), CycleDays(s))
                 h == IF delta > 0 THEN CycleShare(delta, s, from, to) ELSE 0
      <4>2. /\ e \in Nat /\ b \in Nat /\ h \in Int
            /\ ~(from < s /\ s < to) => h = e - b
            /\ h \in ((e - b) - 1)..(e - b)
        <5> DEFINE old == n.daily
                   reset == n.reset
        <5>1. old \in [Days -> Nat] /\ reset \in ResetDays
          BY <2>4, <2>6
        <5>2. from \in Int /\ to \in Int /\ from < to /\ from # Never /\ to <= LastTime + 1
          BY <1>2, <2>11, <3>3, <3>4
        <5>3. to < StartIn(reset, k + 1) /\ StartIn(reset, k) <= LastTime
          BY <2>4, <4>1
        <5> HIDE DEF old, reset
        <5> DEFINE st == StartIn(reset, k)
                   nw == Daily(old, delta, from, to)
                   more == Part(nw, CycleDays(st)) - Part(old, CycleDays(st))
                   sh == IF delta > 0 THEN CycleShare(delta, st, from, to) ELSE 0
        <5>4. /\ Part(nw, CycleDays(st)) \in Nat /\ Part(old, CycleDays(st)) \in Nat
              /\ sh \in Int
              /\ ~(from < st /\ st < to) => sh = more
              /\ sh \in (more - 1)..more
          BY <3>2, <5>1, <5>2, <5>3, DaysAndShare
        <5> QED
          BY <5>4, Zenon DEF old, reset
      <4>3. s = m.start /\ b = x /\ e = y /\ h = share
        BY <2>3, <3>5
      <4> HIDE DEF x, y, share, s, b, e, h
      <4> QED
        BY <4>2, <4>3
    <3> HIDE DEF x, y
    <3>10. ASSUME ~m.corrected
           PROVE  /\ c.used \in (y - 1)..y
                  /\ c.used # y => m.start < time
      <4>1. /\ m.used \in (x - 1)..x
            /\ m.used # x => m.start < n.seen
        BY <1>3, <2>5, <3>10 DEF x
      <4>2. c.used = m.used + share
        BY <1>1, <2>6, <2>9, <3>2, <3>10
      <4> HIDE DEF share
      <4>3. CASE from < m.start /\ m.start < to
        <5>1. m.used = x
          BY <2>6, <3>3, <4>1, <4>3
        <5>2. c.used = x + share
          BY <4>2, <5>1
        <5>3. c.used \in (y - 1)..y
          BY <3>9, <5>2
        <5>4. m.start < time
          BY <1>2, <1>4, <2>1, <2>6, <4>3
        <5> QED
          BY <5>3, <5>4
      <4>4. CASE ~(from < m.start /\ m.start < to)
        <5>1. share = y - x /\ x \in Nat /\ y \in Nat
          BY <3>9, <4>4
        <5> DEFINE u == m.used
                   v == c.used
        <5>2. /\ u \in (x - 1)..x /\ (u # x => m.start < n.seen)
              /\ v = u + (y - x)
          BY <4>1, <4>2, <5>1
        <5> HIDE DEF u, v
        <5>3. v \in (y - 1)..y /\ (v # y => u # x)
          BY <5>1, <5>2
        <5>4. u # x => m.start < time
          BY <1>4, <2>6, <2>8, <5>2
        <5> QED
          BY <5>3, <5>4 DEF v
      <4> QED
        BY <4>3, <4>4
    <3>11. ~c.corrected =>
              LET inCycle == Part(c.daily, CycleDays(c.start))
              IN  /\ c.used \in (inCycle - 1)..inCycle
                  /\ c.used # inCycle => c.start < c.seen
      BY <1>1, <3>10 DEF y
    <3> QED
      BY <1>1, <2>5, <3>7, <3>8, <3>11 DEF InDays
  <2> QED
    BY <2>10, <2>11
<1>8. InDays(c)
  BY <1>7 DEF InDays
<1> QED
  BY <1>6, <1>8 DEF c

DayInv == \A n \in Accounts : Seems(n) /\ InDays(n)

LEMMA DayInit == TrafficInit => DayInv
<1> SUFFICES ASSUME TrafficInit PROVE DayInv
  OBVIOUS
<1>1. TrafficTypeOK /\ time = FirstTime /\ Clock /\ node \in Account /\ Begins(node)
  BY TrafficTypeInit, Zenon DEF TrafficInit, TrafficTypeOK, Accounts
<1> DEFINE zero == [d \in Days |-> 0]
<1>2. PICK r \in ResetDays :
        node = [last |-> NoReport, seen |-> Never, baseline |-> FALSE,
                start |-> CycleStart(r, FirstTime), used |-> 0, manual |-> Never,
                daily |-> zero, reset |-> r, newest |-> [sent |-> 0, changes |-> 0],
                corrected |-> FALSE, unordered |-> FALSE, rewound |-> FALSE]
  BY Zenon DEF TrafficInit
<1>3. \A d \in Days : zero[d] = 0
  OBVIOUS
<1> HIDE DEF zero
<1>4. /\ node.last = NoReport /\ node.seen = Never /\ node.start = CycleStart(r, FirstTime)
      /\ node.used = 0 /\ node.manual = Never /\ node.daily = zero
  BY <1>2
<1>5. FirstTime \in Nat
  BY MonthFacts
<1>6. Seems(node)
  BY <1>1, <1>4, <1>5 DEF Seems, Never
<1>7. node.start \in Nat /\ node.start <= time
  <2>1. FirstTime \in Believed
    BY <1>1, ClockBelieved
  <2>2. CycleStart(r, FirstTime) \in Nat /\ \E k \in 1..(Len(Months) - 1) :
           CycleStart(r, FirstTime) = StartIn(r, k) /\ StartIn(r, k) <= FirstTime
    BY <2>1, CycleStartFacts
  <2> QED
    BY <1>1, <1>4, <2>2
<1>8. Part(node.daily, CycleDays(node.start)) = 0
  <2> DEFINE D == CycleDays(node.start)
  <2>1. IsFiniteSet(D) /\ D \in SUBSET Days
    BY <1>7, CycleDaysAre
  <2> HIDE DEF D
  <2>2. \A d \in D : zero[d] = 0
    BY <1>3, <2>1
  <2>3. Part(zero, D) = 0
    BY <2>1, <2>2, PartNothing
  <2> QED
    BY <1>4, <2>3 DEF D
<1>9. InDays(node)
  <2> DEFINE x == Part(node.daily, CycleDays(node.start))
  <2>1. node.used = x /\ x \in Int
    BY <1>4, <1>8
  <2> HIDE DEF x
  <2>2. node.used \in (x - 1)..x
    BY <2>1
  <2>3. \A d \in Days : node.daily[d] = 0
    BY <1>3, <1>4
  <2> QED
    BY <1>7, <2>1, <2>2, <2>3 DEF InDays, x
<1>10. Accounts = {node}
  <2>1. edit = NoEdit /\ saved = node
    BY Zenon DEF TrafficInit
  <2> QED
    BY <2>1 DEF Accounts
<1> QED
  BY <1>6, <1>9, <1>10 DEF DayInv

LEMMA EditDays ==
    ASSUME Clock, node \in Account, Begins(node), Seems(node), InDays(node), NEW n, Edited(n)
    PROVE  Seems(n) /\ InDays(n)
<1> DEFINE rolled == Rollover(node, time)
<1>1. /\ n \in Account /\ n.last = node.last /\ n.seen = node.seen /\ n.daily = node.daily
      /\ n.unordered = node.unordered
  BY EditedFacts
<1>2. PICK r \in ResetDays :
         LET moved == ChangeResetDay(rolled, r)
         IN  /\ n.start = moved.start /\ n.reset = r
             /\ \/ n.corrected
                \/ /\ n.used = moved.used /\ n.manual = moved.manual
                   /\ n.corrected = moved.corrected
  BY EditedFacts
<1> DEFINE moved == ChangeResetDay(rolled, r)
<1>3. time \in Believed /\ time \in Int
  BY ClockBelieved, MonthFacts DEF Clock
<1>4. /\ rolled \in Account /\ Begins(rolled) /\ rolled.last = node.last
      /\ rolled.seen = node.seen /\ rolled.daily = node.daily
      /\ rolled.unordered = node.unordered
      /\ rolled.manual = Never \/ (rolled.manual = node.manual /\ rolled.corrected = node.corrected)
  BY <1>3, RolloverFacts
<1>5. InDays(rolled)
  <2>1. ASSUME ~node.unordered PROVE InDays(rolled)
    <3>1. time <= time /\ node.seen <= time
      BY <1>3 DEF Seems
    <3> QED
      BY <1>3, <2>1, <3>1, RolloverDays
  <2>2. ASSUME node.unordered PROVE InDays(rolled)
    BY <1>4, <2>2 DEF InDays
  <2> QED
    BY <2>1, <2>2
<1> HIDE DEF rolled
<1>6. /\ moved \in Account /\ moved.daily = node.daily /\ moved.seen = node.seen
      /\ moved.unordered = node.unordered /\ moved.reset = r
      /\ moved.manual = Never \/ (moved.manual = rolled.manual /\ moved.corrected = rolled.corrected)
  BY <1>4, ChangeFacts
<1>7. InDays(moved)
  BY <1>4, <1>5, ChangeDays
<1> HIDE DEF moved
<1>8. ~moved.corrected => moved.manual = Never
  BY <1>4, <1>6 DEF Seems
<1>9. /\ n.start = moved.start /\ n.reset = r
      /\ n.corrected \/ (/\ n.used = moved.used /\ n.manual = moved.manual
                         /\ n.corrected = moved.corrected)
  BY <1>2 DEF moved
<1>10. Seems(n)
  <2>1. ~n.corrected => n.manual = Never
    BY <1>8, <1>9
  <2> QED
    BY <1>1, <2>1 DEF Seems
<1>11. InDays(n)
  BY <1>1, <1>6, <1>7, <1>9 DEF InDays
<1> QED
  BY <1>10, <1>11

LEMMA SeenDays ==
    ASSUME Clock, node \in Account, Begins(node), Seems(node), InDays(node), NEW n, Seen(n)
    PROVE  Seems(n) /\ InDays(n)
<1>1. /\ n.last = node.last /\ n.seen = time /\ n.daily = node.daily /\ n.reset = node.reset
      /\ n.start = node.start /\ n.used = node.used /\ n.manual = node.manual
      /\ n.corrected = node.corrected /\ n.unordered = node.unordered
  BY SeenFacts DEF Seen
<1>2. time \in Int /\ FirstTime <= time /\ node.seen \in Int /\ node.start \in Int
  BY MonthFacts DEF Clock, Account
<1>3. Seems(n)
  BY <1>1, <1>2 DEF Seems
<1>4. node.start < node.seen => n.start < n.seen
  BY <1>1, <1>2 DEF Seems
<1>5. InDays(n)
  BY <1>1, <1>4 DEF InDays
<1> QED
  BY <1>3, <1>5

LEMMA DayNext ==
    ASSUME TrafficTypeOK, DayInv, [TrafficNext]_trafficVars
    PROVE  DayInv'
<1>1. Clock /\ node \in Account /\ Begins(node) /\ Seems(node) /\ InDays(node)
      /\ flight \in SUBSET Report
  BY DEF TrafficTypeOK, DayInv, Accounts
<1>2. ASSUME NEW n \in Accounts' PROVE n \in Account /\ Seems(n) /\ InDays(n)
  <2>1. CASE n \in Accounts
    BY <2>1, AccountsTyped DEF DayInv
  <2>2. CASE Charged(n)
    <3>1. PICK r \in flight : n = Charge(node, r)
      BY <2>2 DEF Charged
    <3>2. r \in Report
      BY <1>1
    <3>3. Charge(node, r) \in Account
      BY <1>1, <3>2, ChargeFacts
    <3> QED
      BY <1>1, <3>1, <3>2, <3>3, ChargeDays
  <2>3. CASE Seen(n)
    <3>1. n \in Account
      BY <1>1, <2>3, SeenFacts DEF Seen
    <3> QED
      BY <1>1, <2>3, <3>1, SeenDays
  <2>4. CASE Edited(n)
    <3>1. n \in Account
      BY <1>1, <2>4, EditedFacts
    <3> QED
      BY <1>1, <2>4, <3>1, EditDays
  <2> QED
    BY <1>2, <2>1, <2>2, <2>3, <2>4, AccountsNext
<1>3. time \in Int /\ time' \in Int /\ time <= time'
  <2>1. time \in Int /\ time' \in Int
    BY <1>1, ClockNext, MonthFacts DEF Clock
  <2>2. time' = time + 1 \/ time' = time
    <3>1. TrafficTick => time' = time + 1
      BY DEF TrafficTick
    <3>2. Reboot \/ SendReport \/ Lose \/ Receive \/ BasicSeen => UNCHANGED time
      BY Zenon DEF Reboot, SendReport, Lose, Receive, BasicSeen
    <3>3. (\E i \in Interfaces : Transfer(i) \/ Recreate(i)) => UNCHANGED time
      BY Zenon DEF Transfer, Recreate
    <3>4. (\E S \in SUBSET Interfaces \ {{}}, o \in Offsets : Reconfigure(S, o)) => UNCHANGED time
      BY Zenon DEF Reconfigure
    <3>5. (\E r \in ResetDays, c \in BOOLEAN : BeginNodeEdit(r, c)) => UNCHANGED time
      BY Zenon DEF BeginNodeEdit
    <3>6. EditFails \/ EndEdit \/ SaveNode \/ PanelCrash => UNCHANGED time
      BY Zenon DEF EditFails, EndEdit, SaveNode, PanelCrash
    <3>7. UNCHANGED trafficVars => UNCHANGED time
      BY DEF trafficVars
    <3> QED
      BY <3>1, <3>2, <3>3, <3>4, <3>5, <3>6, <3>7, Zenon DEF TrafficNext
  <2> QED
    BY <2>1, <2>2
<1>4. ASSUME NEW n \in Accounts' PROVE Seems(n)' /\ InDays(n)'
  <2>1. n \in Account /\ Seems(n) /\ InDays(n)
    BY <1>2, <1>4
  <2>2. n.seen \in Int /\ n.start \in Int
    BY <2>1 DEF Account
  <2>3. Seems(n)'
    BY <1>3, <2>1, <2>2 DEF Seems
  <2>4. \A d \in Days : time' < d * DayLength => time < d * DayLength
    <3> SUFFICES ASSUME NEW d \in Days, time' < d * DayLength PROVE time < d * DayLength
      OBVIOUS
    <3>1. d * DayLength \in Int
      BY MonthFacts DEF Days
    <3> QED
      BY <1>3, <3>1
  <2>5. n.start <= time => n.start <= time'
    BY <1>3, <2>2
  <2>6. InDays(n)'
    BY <2>1, <2>4, <2>5 DEF InDays
  <2> QED
    BY <2>3, <2>6
<1> QED
  BY <1>4 DEF DayInv

(* The use of a cycle and its days agree to one byte, for every calendar    *)
(* whose months are kept, through rollovers, new reset days, edits that     *)
(* commit while reports come in and crashes; but for corrections by hand    *)
(* and sample times out of order (traffic.go:40, 101, store.go:992).        *)
THEOREM DaysAgreeWithUse == TrafficSpec => []DaysMatchCycle
<1>1. TrafficInit => TrafficTypeOK /\ DayInv
  BY TrafficTypeInit, DayInit
<1>2. TrafficTypeOK /\ DayInv /\ [TrafficNext]_trafficVars => (TrafficTypeOK /\ DayInv)'
  BY TrafficTypeNext, DayNext
<1>3. TrafficTypeOK /\ DayInv => DaysMatchCycle
  <2>1. InCycle = Part(node.daily, CycleDays(node.start))
    BY DEF InCycle, Part, CycleDays
  <2> QED
    BY <2>1 DEF DayInv, InDays, DaysMatchCycle, Accounts
<1> QED
  BY <1>1, <1>2, <1>3, PTL DEF TrafficSpec

=============================================================================
