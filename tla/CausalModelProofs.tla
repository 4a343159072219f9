------------------------- MODULE CausalModelProofs -------------------------
(***************************************************************************)
(* What the causal model computes for every graph, every reading and every *)
(* order in which its walks may be served: proofs about CausalModel.       *)
(***************************************************************************)
EXTENDS CausalModel, TLAPS, FiniteSetTheorems, WellFoundedInduction

----------------------------------------------------------------------------
(* Fractions *)

(* A share of at most everything is at most One. *)
LEMMA ShareBounds ==
  ASSUME NEW a \in Nat, NEW c \in Nat, a > 0, c <= a
  PROVE  /\ (One * c) \div a \in 0..One
         /\ c = a => (One * c) \div a = One
         /\ c = 0 => (One * c) \div a = 0
<1> DEFINE q == (One * c) \div a
<1>1. q \in Int /\ a * q <= One * c /\ One * c < a * q + a
  BY DEF One
<1> HIDE DEF q
<1>2. q <= One
  <2>1. SUFFICES ASSUME q >= 1001 PROVE FALSE
    BY <1>1 DEF One
  <2>2. a * q >= a * 1001
    BY <1>1, <2>1
  <2> QED
    BY <1>1, <2>2 DEF One
<1>3. q >= 0
  <2>1. SUFFICES ASSUME q <= -1 PROVE FALSE
    BY <1>1
  <2>2. a * q <= a * (-1)
    BY <1>1, <2>1
  <2> QED
    BY <1>1, <2>2 DEF One
<1>4. c = a => q = One
  <2>1. SUFFICES ASSUME c = a, q <= 999 PROVE FALSE
    BY <1>1, <1>2 DEF One
  <2>2. a * q <= a * 999
    BY <1>1, <2>1
  <2> QED
    BY <1>1, <2>1, <2>2 DEF One
<1>5. c = 0 => q = 0
  <2>1. SUFFICES ASSUME c = 0, q >= 1 PROVE FALSE
    BY <1>1, <1>3
  <2>2. a * q >= a
    BY <1>1, <2>1
  <2> QED
    BY <1>1, <2>1, <2>2 DEF One
<1> QED
  BY <1>1, <1>2, <1>3, <1>4, <1>5 DEF q, One

(* Among at most a thousand, one more is a larger share. *)
LEMMA ShareIsStrict ==
  ASSUME NEW a \in Nat, NEW c \in Nat, NEW d \in Nat, a > 0, a <= One, c < d
  PROVE  (One * c) \div a < (One * d) \div a
<1> DEFINE p == (One * c) \div a
           q == (One * d) \div a
<1>1. p \in Int /\ a * p <= One * c /\ One * c < a * p + a
  BY DEF One
<1>2. q \in Int /\ a * q <= One * d /\ One * d < a * q + a
  BY DEF One
<1> HIDE DEF p, q
<1>3. SUFFICES ASSUME q <= p PROVE FALSE
  BY <1>1, <1>2 DEF p, q
<1>4. a * q <= a * p
  BY <1>1, <1>2, <1>3
<1>5. a * p \in Int /\ a * q \in Int
  BY <1>1, <1>2
<1> QED
  BY <1>1, <1>2, <1>4, <1>5 DEF One

(* The mean of numbers up to One is at most One. *)
LEMMA MeanBounds ==
  ASSUME NEW n \in Nat, NEW s \in Nat, n > 0, s <= One * n
  PROVE  s \div n \in 0..One
<1> DEFINE q == s \div n
<1>1. q \in Int /\ n * q <= s /\ s < n * q + n
  OBVIOUS
<1> HIDE DEF q
<1>2. q <= One
  <2>1. SUFFICES ASSUME q >= 1001 PROVE FALSE
    BY <1>1 DEF One
  <2>2. n * q >= n * 1001
    BY <1>1, <2>1
  <2> QED
    BY <1>1, <2>2 DEF One
<1>3. q >= 0
  <2>1. SUFFICES ASSUME q <= -1 PROVE FALSE
    BY <1>1
  <2>2. n * q <= n * (-1)
    BY <1>1, <2>1
  <2> QED
    BY <1>1, <2>2
<1> QED
  BY <1>1, <1>2, <1>3 DEF q, One

----------------------------------------------------------------------------
(* Readings *)

LEMMA IncidentFacts ==
  ASSUME inc \in Incidents
  PROVE  /\ inc \in Incident
         /\ inc.calls \subseteq Node \X Node
         /\ \A n \in Node : reading(n) \in Reading
         /\ \A e \in Node \X Node : inc.weight[e] \in 0..10
BY CausalAssumption DEF Incident, reading

LEMMA ReadingTypes ==
  ASSUME inc \in Incidents, NEW n \in Node
  PROVE  /\ ErrorRate(n) \in Nat
         /\ LatencyTenths(n) \in Nat
         /\ OrZero(reading(n).baseErr) \in Nat
<1>1. /\ reading(n).err \in Nat \cup {Absent} /\ reading(n).lat \in Nat \cup {Absent}
      /\ reading(n).baseErr \in Nat \cup {Absent}
      /\ reading(n).baseLat \in Nat \cup {Absent}
  BY IncidentFacts DEF Reading
<1>2. \A v \in Nat \cup {Absent} : OrZero(v) \in Nat /\ (OrZero(v) # 0 => v \in Nat \ {0})
  BY DEF OrZero, Absent
<1>3. LatencyTenths(n) \in Nat
  <2>1. CASE reading(n).lat = Absent \/ OrZero(reading(n).baseLat) = 0
    BY <2>1 DEF LatencyTenths
  <2>2. CASE ~(reading(n).lat = Absent \/ OrZero(reading(n).baseLat) = 0)
    <3>1. /\ reading(n).lat \in Nat /\ reading(n).baseLat \in Nat \ {0}
          /\ LatencyTenths(n) = (10 * reading(n).lat) \div reading(n).baseLat
      BY <1>1, <1>2, <2>2 DEF LatencyTenths, Absent
    <3>2. ASSUME NEW a \in Nat, NEW b \in Nat \ {0} PROVE (10 * a) \div b \in Nat
      <4> DEFINE q == (10 * a) \div b
      <4>1. q \in Int /\ b * q <= 10 * a /\ 10 * a < b * q + b
        OBVIOUS
      <4> HIDE DEF q
      <4>2. SUFFICES ASSUME q <= -1 PROVE FALSE
        BY <4>1 DEF q
      <4>3. b * q <= b * (-1)
        BY <4>1, <4>2
      <4> QED
        BY <4>1, <4>3
    <3> QED
      BY <3>1, <3>2
  <2> QED
    BY <2>1, <2>2
<1> QED
  BY <1>1, <1>2, <1>3 DEF ErrorRate

LEMMA ObservedNodes == Observed \subseteq Node /\ Anomalous \subseteq Observed
BY DEF Observed, Anomalous

LEMMA FiniteNodes ==
  ASSUME NEW S \in SUBSET Node
  PROVE  IsFiniteSet(S) /\ Cardinality(S) \in Nat /\ Cardinality(S) <= Cardinality(Node)
BY CausalAssumption, FS_Subset, FS_CardinalityType

(* A severity lies between 0 and One. *)
LEMMA SeverityType ==
  ASSUME inc \in Incidents, NEW n \in Node
  PROVE  Severity(n) \in 0..One
<1>1. ErrorRate(n) \in Nat /\ LatencyTenths(n) \in Nat
  BY ReadingTypes
<1> DEFINE errors == Least(One, 10 * ErrorRate(n))
           latency == IF LatencyTenths(n) > 10
                      THEN Least(One, 20 * (LatencyTenths(n) - 10)) ELSE 0
<1>2. errors \in 0..1000 /\ latency \in 0..1000
  BY <1>1 DEF Least, One
<1>3. Severity(n) = IF n \notin Observed \/ Most(errors, latency) = 0
                    THEN One \div 2 ELSE Most(errors, latency)
  BY DEF Severity
<1> HIDE DEF errors, latency
<1>4. Most(errors, latency) \in 0..1000
  BY <1>2 DEF Most
<1>5. One \div 2 \in 0..1000
  BY DEF One
<1> QED
  BY <1>3, <1>4, <1>5 DEF One

(* An edge attenuates, whatever its weight. *)
LEMMA AttenuatedType ==
  ASSUME inc \in Incidents, NEW s \in 0..One, NEW e \in Node \X Node
  PROVE  Attenuated(s, e) \in 0..One
<1> DEFINE w == inc.weight[e]
           p == s * w
<1>1. w \in 0..10
  BY IncidentFacts
<1> HIDE DEF w
<1>2. p \in Int /\ 0 <= p /\ p <= 10000
  <2>1. w \in {0, 1, 2, 3, 4, 5, 6, 7, 8, 9, 10}
    BY <1>1
  <2> QED
    BY <2>1 DEF One
<1>3. Attenuated(s, e) = p \div 10
  BY DEF Attenuated, w
<1> HIDE DEF p
<1>4. p \div 10 \in 0..1000
  BY <1>2
<1> QED
  BY <1>3, <1>4 DEF One

(* So a prediction is off by at most One, whatever the readings. *)
LEMMA RelativeErrorType ==
  ASSUME NEW p \in Nat, NEW o \in Nat
  PROVE  RelativeError(p, o, 10) \in 0..One
<1> DEFINE d == Distance(p, o)
           m == Most(10, o)
           q == (One * d) \div m
<1>1. d \in Nat /\ m \in Nat \ {0}
  BY DEF Distance, Most
<1> HIDE DEF d, m
<1>2. q \in Int /\ m * q <= One * d /\ One * d < m * q + m
  BY <1>1 DEF One
<1>3. RelativeError(p, o, 10) = Least(One, q)
  BY DEF RelativeError, d, m
<1> HIDE DEF q
<1>4. q >= 0
  <2>1. SUFFICES ASSUME q <= -1 PROVE FALSE
    BY <1>2
  <2>2. m * q <= m * (-1)
    BY <1>1, <1>2, <2>1
  <2> QED
    BY <1>1, <1>2, <2>2 DEF One
<1> QED
  BY <1>2, <1>3, <1>4 DEF Least, One

LEMMA NodeErrorType ==
  ASSUME inc \in Incidents, NEW n \in Node,
         n \in DOMAIN impacts => impacts[n].severity \in 0..One
  PROVE  NodeError(n) \in 0..One
<1>1. CASE n \notin DOMAIN impacts
  BY <1>1 DEF NodeError, One
<1>2. CASE n \in DOMAIN impacts
  <2> DEFINE s == impacts[n].severity
             x == RelativeError(s, 10 * ErrorRate(n), 10)
             y == RelativeError(10 + s \div 20, LatencyTenths(n), 10)
  <2>1. s \in 0..1000 /\ ErrorRate(n) \in Nat /\ LatencyTenths(n) \in Nat
    BY <1>2, ReadingTypes DEF One
  <2>2. NodeError(n) = (7 * x + 3 * y) \div 10
    BY <1>2 DEF NodeError
  <2> HIDE DEF s
  <2>3. s \in Nat /\ 10 * ErrorRate(n) \in Nat /\ 10 + s \div 20 \in Nat
    BY <2>1
  <2>4. x \in 0..One /\ y \in 0..One
    BY <2>1, <2>3, RelativeErrorType
  <2> HIDE DEF x, y
  <2> DEFINE z == 7 * x + 3 * y
  <2>5. z \in Int /\ 0 <= z /\ z <= 10000
    BY <2>4 DEF One
  <2>6. NodeError(n) = z \div 10
    BY <2>2
  <2> HIDE DEF z
  <2>7. z \div 10 \in 0..1000
    BY <2>5
  <2> QED
    BY <2>6, <2>7 DEF One
<1> QED
  BY <1>1, <1>2

----------------------------------------------------------------------------
(* Sums over the observed nodes *)

(* The element a fold takes next. *)
Pick(S) == CHOOSE n \in S : TRUE

(* What makes a function the sum of the errors over each subset of S that it is
   defined for. *)
Sums(g, D) ==
  \A s \in D : g[s] = IF s = {} THEN 0 ELSE NodeError(Pick(s)) + g[s \ {Pick(s)}]

SmallSubsets(S, k) == {s \in SUBSET S : Cardinality(s) <= k}

LEMMA PickIsElement == \A S : S # {} => Pick(S) \in S
BY DEF Pick

LEMMA SmallSubsetFacts ==
  ASSUME NEW S, IsFiniteSet(S), NEW k \in Nat
  PROVE  /\ \A s \in SUBSET S : IsFiniteSet(s) /\ Cardinality(s) \in Nat
         /\ \A s \in SUBSET S : s # {} =>
              /\ Pick(s) \in s
              /\ s \ {Pick(s)} \in SUBSET S
              /\ Cardinality(s \ {Pick(s)}) = Cardinality(s) - 1
         /\ SmallSubsets(S, 0) = {{}}
         /\ SmallSubsets(S, Cardinality(S)) = SUBSET S
<1>1. \A s \in SUBSET S : IsFiniteSet(s) /\ Cardinality(s) \in Nat
  BY FS_Subset, FS_CardinalityType
<1>2. \A s \in SUBSET S : s # {} => Cardinality(s \ {Pick(s)}) = Cardinality(s) - 1
  BY <1>1, PickIsElement, FS_RemoveElement
<1>3. \A s \in SUBSET S : Cardinality(s) <= 0 <=> s = {}
  BY <1>1, FS_EmptySet
<1>4. \A s \in SUBSET S : Cardinality(s) <= Cardinality(S)
  BY FS_Subset
<1> QED
  BY <1>1, <1>2, <1>3, <1>4, PickIsElement DEF SmallSubsets

(* Functions that sum over ever larger subsets: a least k without one would have a
   predecessor with one, and that one extends. *)
LEMMA SumsExist ==
  ASSUME NEW S, IsFiniteSet(S)
  PROVE  \E g : g = [s \in SUBSET S |->
                       IF s = {} THEN 0 ELSE NodeError(Pick(s)) + g[s \ {Pick(s)}]]
<1> DEFINE Summed(k) == \E g : /\ g = [s \in SmallSubsets(S, k) |-> g[s]]
                               /\ Sums(g, SmallSubsets(S, k))
<1>1. Summed(0)
  <2> DEFINE g == [s \in SmallSubsets(S, 0) |-> 0]
  <2>1. \A s \in SmallSubsets(S, 0) : s = {} /\ g[s] = 0
    BY SmallSubsetFacts
  <2>2. g = [s \in SmallSubsets(S, 0) |-> g[s]]
    OBVIOUS
  <2> HIDE DEF g
  <2> QED
    BY <2>1, <2>2 DEF Sums
<1>2. ASSUME NEW k \in Nat, Summed(k) PROVE Summed(k + 1)
  <2>1. PICK g : /\ g = [s \in SmallSubsets(S, k) |-> g[s]]
                 /\ Sums(g, SmallSubsets(S, k))
    BY <1>2
  <2> DEFINE D == SmallSubsets(S, k + 1)
             h == [s \in D |-> IF s = {} THEN 0 ELSE NodeError(Pick(s)) + g[s \ {Pick(s)}]]
  <2>2. ASSUME NEW s \in D, s # {}
        PROVE  s \ {Pick(s)} \in SmallSubsets(S, k) /\ s \ {Pick(s)} \in D
    <3>1. s \in SUBSET S /\ Cardinality(s) <= k + 1
      BY DEF SmallSubsets
    <3>2. /\ Cardinality(s) \in Nat
          /\ s \ {Pick(s)} \in SUBSET S
          /\ Cardinality(s \ {Pick(s)}) = Cardinality(s) - 1
      BY <2>2, <3>1, SmallSubsetFacts
    <3> QED
      BY <3>1, <3>2 DEF SmallSubsets
  <2>3. \A s \in SmallSubsets(S, k) : s \in D /\ h[s] = g[s]
    <3>1. SmallSubsets(S, k) \subseteq D
      BY SmallSubsetFacts DEF SmallSubsets
    <3> QED
      BY <2>1, <3>1 DEF Sums
  <2>4. h = [s \in D |-> h[s]]
    OBVIOUS
  <2>5. \A s \in D : h[s] = IF s = {} THEN 0 ELSE NodeError(Pick(s)) + g[s \ {Pick(s)}]
    OBVIOUS
  <2> HIDE DEF h, D
  <2>6. Sums(h, D)
    BY <2>2, <2>3, <2>5 DEF Sums
  <2> QED
    BY <2>4, <2>6 DEF D
<1> HIDE DEF Summed
<1>3. Summed(Cardinality(S))
  <2> DEFINE Bad == {k \in Nat : ~Summed(k)}
             R == OpToRel(<, Nat)
  <2>1. SUFFICES ASSUME Bad # {} PROVE FALSE
    BY FS_CardinalityType
  <2>2. IsWellFoundedOn(R, Nat)
    BY NatLessThanWellFounded
  <2>3. \A x, y \in Nat : x < y => <<x, y>> \in R
    BY DEF OpToRel
  <2> HIDE DEF R
  <2>4. PICK x \in Bad : \A y \in Bad : <<y, x>> \notin R
    <3>1. Bad \in SUBSET Nat
      OBVIOUS
    <3> HIDE DEF Bad
    <3> QED
      BY <2>1, <2>2, <3>1, WFMin
  <2>5. x \in Nat /\ ~Summed(x)
    BY <2>4
  <2>6. x # 0
    BY <1>1, <2>5
  <2>7. x - 1 \in Nat /\ x - 1 < x /\ (x - 1) + 1 = x
    BY <2>5, <2>6
  <2>8. x - 1 \notin Bad
    BY <2>3, <2>4, <2>5, <2>7
  <2>9. Summed(x - 1)
    BY <2>7, <2>8
  <2>10. Summed((x - 1) + 1)
    BY <1>2, <2>7, <2>9
  <2> QED
    BY <2>5, <2>7, <2>10
<1>4. PICK g : /\ g = [s \in SUBSET S |-> g[s]]
               /\ Sums(g, SUBSET S)
  <2>1. SmallSubsets(S, Cardinality(S)) = SUBSET S
    BY SmallSubsetFacts, FS_CardinalityType
  <2> QED
    BY <1>3, <2>1 DEF Summed
<1>5. [s \in SUBSET S |-> g[s]] =
        [s \in SUBSET S |-> IF s = {} THEN 0 ELSE NodeError(Pick(s)) + g[s \ {Pick(s)}]]
  BY <1>4 DEF Sums
<1> QED
  BY <1>4, <1>5

(* A sum of errors is at most One for each node. *)
LEMMA SumsBounds ==
  ASSUME NEW S, IsFiniteSet(S), NEW g, Sums(g, SUBSET S),
         \A n \in S : NodeError(n) \in 0..One
  PROVE  g[S] \in Nat /\ g[S] <= One * Cardinality(S)
<1> DEFINE Bounded(s) == g[s] \in Nat /\ g[s] <= One * Cardinality(s)
           Bad == {Cardinality(s) : s \in {t \in SUBSET S : ~Bounded(t)}}
           R == OpToRel(<, Nat)
<1>1. SUFFICES ASSUME Bad # {} PROVE FALSE
  OBVIOUS
<1>2. \A s \in SUBSET S : IsFiniteSet(s) /\ Cardinality(s) \in Nat
  BY FS_Subset, FS_CardinalityType
<1>3. IsWellFoundedOn(R, Nat)
  BY NatLessThanWellFounded
<1>4. \A x, y \in Nat : x < y => <<x, y>> \in R
  BY DEF OpToRel
<1> HIDE DEF R
<1>5. Bad \in SUBSET Nat
  BY <1>2
<1>6. \A s \in SUBSET S : ~Bounded(s) => Cardinality(s) \in Bad
  OBVIOUS
<1>7. \A x \in Bad : \E s \in SUBSET S : x = Cardinality(s) /\ ~Bounded(s)
  OBVIOUS
<1> HIDE DEF Bad, Bounded
<1>8. PICK x \in Bad : \A y \in Bad : <<y, x>> \notin R
  BY <1>1, <1>3, <1>5, WFMin
<1>9. PICK s \in SUBSET S : x = Cardinality(s) /\ ~Bounded(s)
  BY <1>7, <1>8
<1>10. CASE s = {}
  <2>1. g[s] = 0 /\ Cardinality(s) = 0
    BY <1>10, FS_EmptySet DEF Sums
  <2> QED
    BY <1>9, <2>1 DEF Bounded, One
<1>11. CASE s # {}
  <2> DEFINE t == s \ {Pick(s)}
             e == NodeError(Pick(s))
  <2>1. /\ Pick(s) \in s /\ t \in SUBSET S
        /\ Cardinality(t) \in Nat /\ Cardinality(s) = Cardinality(t) + 1
    <3>1. Pick(s) \in s
      BY <1>11, PickIsElement
    <3>2. Cardinality(t) = Cardinality(s) - 1
      BY <1>2, <3>1, FS_RemoveElement
    <3> QED
      BY <1>2, <3>1, <3>2
  <2>2. g[s] = e + g[t] /\ e \in 0..One
    BY <1>11, <2>1 DEF Sums
  <2> HIDE DEF t, e
  <2>3. Cardinality(t) < x
    BY <1>9, <2>1
  <2>4. x \in Nat
    BY <1>5, <1>8
  <2>5. Cardinality(t) \notin Bad
    BY <1>4, <1>8, <2>1, <2>3, <2>4
  <2>6. Bounded(t)
    BY <1>6, <2>1, <2>5
  <2>7. Bounded(s)
    BY <2>1, <2>2, <2>6 DEF Bounded, One
  <2> QED
    BY <1>9, <2>7
<1> QED
  BY <1>10, <1>11

(* The fit of a prediction lies between 0 and One. *)
LEMMA FitType ==
  ASSUME inc \in Incidents,
         \A n \in DOMAIN impacts : impacts[n].severity \in 0..One
  PROVE  Fit \in 0..One
<1> DEFINE total == FoldSet(LAMBDA n, sum : NodeError(n) + sum, 0, Observed)
           N == Cardinality(Observed)
<1>1. CASE Observed = {}
  <2>1. One \div 2 \in 0..One
    BY DEF One
  <2> QED
    BY <1>1, <2>1 DEF Fit
<1>2. CASE Observed # {}
  <2>1. IsFiniteSet(Observed) /\ N \in Nat /\ N # 0
    BY <1>2, ObservedNodes, FiniteNodes, FS_EmptySet
  <2>2. total \in Nat /\ total <= One * N
    <3> DEFINE g == CHOOSE f : f = [s \in SUBSET Observed |->
                      IF s = {} THEN 0 ELSE NodeError(Pick(s)) + f[s \ {Pick(s)}]]
    <3>1. total = g[Observed]
      BY DEF FoldSet, MapThenFoldSet, Pick
    <3>2. g = [s \in SUBSET Observed |->
                 IF s = {} THEN 0 ELSE NodeError(Pick(s)) + g[s \ {Pick(s)}]]
      BY <2>1, SumsExist
    <3> HIDE DEF g
    <3>3. Sums(g, SUBSET Observed)
      BY <3>2 DEF Sums
    <3>4. \A n \in Observed : NodeError(n) \in 0..One
      BY ObservedNodes, NodeErrorType
    <3> QED
      BY <2>1, <3>1, <3>3, <3>4, SumsBounds
  <2>3. Fit = One - total \div N
    BY <1>2 DEF Fit
  <2> HIDE DEF total, N
  <2>4. N > 0
    BY <2>1
  <2>5. total \div N \in 0..One
    BY <2>1, <2>2, <2>4, MeanBounds
  <2>6. \A q \in 0..One : One - q \in 0..One
    BY DEF One
  <2> QED
    BY <2>3, <2>5, <2>6
<1> QED
  BY <1>1, <1>2

----------------------------------------------------------------------------
(* The nodes that reach a set *)

(* Reaching(S, W) holds S, is closed, and lies in every closed set that holds S; a
   node other than those of S is there for a callee of its own. *)
LEMMA ReachingIsLeast ==
  ASSUME NEW S \in SUBSET Node, NEW W \in SUBSET Node
  PROVE  /\ Reaching(S, W) \in SUBSET Node
         /\ S \subseteq Reaching(S, W)
         /\ Closed(Reaching(S, W), W)
         /\ \A X \in SUBSET Node :
              S \subseteq X /\ Closed(X, W) => Reaching(S, W) \subseteq X
         /\ S \subseteq W => Reaching(S, W) \subseteq W
         /\ \A n \in Reaching(S, W) \ S :
              \E m \in Reaching(S, W) : n \in Callers(m) \cap W
<1> DEFINE R == Reaching(S, W)
<1>1. R \in SUBSET Node /\ S \subseteq R
  BY DEF Reaching
<1>2. \A X \in SUBSET Node : S \subseteq X /\ Closed(X, W) => R \subseteq X
  BY DEF Reaching
<1>3. Closed(R, W)
  <2> SUFFICES ASSUME NEW m \in R, NEW p \in Callers(m) \cap W,
                      NEW X \in SUBSET Node, S \subseteq X, Closed(X, W)
               PROVE  p \in X
    BY DEF Closed, Reaching
  <2>1. m \in X
    BY <1>2
  <2> QED
    BY <2>1 DEF Closed
<1>4. S \subseteq W => R \subseteq W
  BY <1>2 DEF Closed
<1>5. ASSUME NEW n \in R \ S PROVE \E m \in R : n \in Callers(m) \cap W
  <2> DEFINE X == R \ {n}
  <2>1. X \in SUBSET Node /\ S \subseteq X /\ ~ R \subseteq X
    BY <1>1
  <2>2. ~Closed(X, W)
    BY <1>2, <2>1
  <2>3. PICK m \in X : ~ Callers(m) \cap W \subseteq X
    BY <2>2 DEF Closed
  <2>4. Callers(m) \cap W \subseteq R
    BY <1>3, <2>3 DEF Closed
  <2> QED
    BY <2>3, <2>4
<1> QED
  BY <1>1, <1>2, <1>3, <1>4, <1>5

(* Nothing leads to nothing. *)
LEMMA NothingReaches ==
  ASSUME NEW W \in SUBSET Node
  PROVE  Reaching({}, W) = {}
<1>1. Closed({}, W)
  BY DEF Closed
<1> QED
  BY <1>1, ReachingIsLeast

----------------------------------------------------------------------------
(* The inductive invariant *)

(* A record of what was computed for a candidate. *)
Assessment ==
  [node : Node, explained : SUBSET Node, hops : UNION {[S -> Nat] : S \in SUBSET Node},
   confidence : Nat, fit : Nat, causal : Nat]

Typed ==
  /\ inc \in Incidents
  /\ pc \in {"start", "assess", "simulate", "explain", "done", "raised"}
  /\ index \in 1..Len(Candidates) + 1
  /\ DOMAIN impacts \in SUBSET Node
  /\ \A n \in DOMAIN impacts :
       /\ impacts[n] \in [hop : Nat, severity : 0..One]
       /\ impacts[n].hop < Cardinality(DOMAIN impacts)
  /\ queue \in Seq(DOMAIN impacts)
  /\ explained \in SUBSET Anomalous
  /\ frontier \in SUBSET explained
  /\ assessed \in Seq(Assessment)
  /\ Len(assessed) = index - 1
  /\ \A i \in DOMAIN ranking : \E j \in DOMAIN Candidates : ranking[i] = Candidates[j]

(* Where the run is: past the check of the graph, and before the last candidate's
   record. *)
Placed ==
  /\ pc \notin {"start", "raised"} => Acyclic(inc.calls)
  /\ pc \in {"simulate", "explain"} => index <= Len(Candidates)
  /\ pc \in {"start", "explain", "assess"} => queue = <<>>

Queued(n) == \E i \in DOMAIN queue : queue[i] = n

hop(n) == impacts[n].hop

(* What the simulation has hit leads to the candidate, each node one hop beyond one of
   its callees; a node that is no longer queued has had all its callers hit. *)
Linked ==
  /\ Candidate \in DOMAIN impacts
  /\ hop(Candidate) = 0
  /\ DOMAIN impacts \subseteq Reaching({Candidate}, Node)
  /\ \A n \in DOMAIN impacts : hop(n) > 0 =>
       \E m \in DOMAIN impacts : <<n, m>> \in inc.calls /\ hop(m) = hop(n) - 1
  /\ \A m \in DOMAIN impacts : \/ Queued(m)
                               \/ \A p \in Callers(m) :
                                    p \in DOMAIN impacts /\ hop(p) <= hop(m) + 1

(* The queue is served by distance, and nothing hit lies more than one hop beyond what
   it holds. *)
Breadthwise ==
  /\ \A i, j \in DOMAIN queue : i <= j => hop(queue[i]) <= hop(queue[j])
  /\ \A n \in DOMAIN impacts : \A i \in DOMAIN queue : hop(n) <= hop(queue[i]) + 1

(* The counterfactual has the other roots, and nothing that does not lead to one; a
   node that it has taken from its queue has had its callers explained. *)
Explained ==
  LET roots == OriginCandidates \cap Remaining
  IN  /\ roots \subseteq explained
      /\ explained \subseteq Reaching(roots, Remaining)
      /\ \A m \in explained \ frontier : Callers(m) \cap Remaining \subseteq explained

ShortestFrom(hops, c) ==
  LET Within(k) == {n \in DOMAIN hops : hops[n] <= k}
  IN  /\ hops[c] = 0
      /\ DOMAIN hops = Reaching({c}, Node)
      /\ \A n \in DOMAIN hops : hops[n] > 0 =>
           /\ \E m \in Within(hops[n] - 1) : <<n, m>> \in inc.calls
           /\ \A m \in Within(hops[n] - 2) : <<n, m>> \notin inc.calls

Necessity(E) ==
  IF Anomalous = {} THEN 0
  ELSE (One * Cardinality(Anomalous \ E)) \div Cardinality(Anomalous)

(* A record says what it should of its candidate. *)
Recorded(r, c) ==
  /\ r.node = c
  /\ r.explained =
       Reaching(OriginCandidates \cap (Anomalous \ {c}), Anomalous \ {c})
  /\ ShortestFrom(r.hops, c)
  /\ r.confidence = Necessity(r.explained)
  /\ r.fit \in 0..One
  /\ r.causal \in 0..One

Records == \A i \in DOMAIN assessed : Recorded(assessed[i], Candidates[i])

Walks ==
  /\ pc \in {"simulate", "explain"} => Linked /\ Breadthwise
  /\ pc = "explain" => Explained

IInv == Typed /\ Placed /\ Walks /\ Records

----------------------------------------------------------------------------
(* What no step touches *)

LEMMA AnomalousStays ==
  ASSUME inc' = inc
  PROVE  /\ Anomalous' = Anomalous
         /\ OriginCandidates' = OriginCandidates
         /\ \A n \in Node : Callers(n)' = Callers(n)
<1>1. Observed' = Observed
  BY DEF Observed, reading
<1>2. \A n : IsErrorAnomalous(n)' <=> IsErrorAnomalous(n)
  BY DEF IsErrorAnomalous, ErrorRate, reading
<1>3. \A n : IsLatencyAnomalous(n)' <=> IsLatencyAnomalous(n)
  BY DEF IsLatencyAnomalous, reading
<1>4. Anomalous' = Anomalous
  BY <1>1, <1>2, <1>3 DEF Anomalous
<1>5. OriginCandidates' = OriginCandidates
  BY <1>4 DEF OriginCandidates
<1> QED
  BY <1>4, <1>5 DEF Callers

LEMMA ReachingStays ==
  ASSUME inc' = inc, NEW S, NEW W
  PROVE  Reaching(S, W)' = Reaching(S, W)
BY DEF Reaching, Closed, Callers

LEMMA RecordedStays ==
  ASSUME inc' = inc, NEW r, NEW c, Recorded(r, c)
  PROVE  Recorded(r, c)'
<1>1. Anomalous' = Anomalous /\ OriginCandidates' = OriginCandidates
  BY AnomalousStays
<1>2. \A S, W : Reaching(S, W)' = Reaching(S, W)
  BY ReachingStays
<1>3. ShortestFrom(r.hops, c)' <=> ShortestFrom(r.hops, c)
  BY <1>2 DEF ShortestFrom
<1>4. Necessity(r.explained)' = Necessity(r.explained)
  BY <1>1 DEF Necessity
<1> QED
  BY <1>1, <1>2, <1>3, <1>4 DEF Recorded

LEMMA RecordsStay ==
  ASSUME Records, inc' = inc, assessed' = assessed
  PROVE  Records'
<1>1. \A r, c : Recorded(r, c) => Recorded(r, c)'
  BY RecordedStays
<1> QED
  BY <1>1 DEF Records

LEMMA InitIInv == Init => IInv
<1> SUFFICES ASSUME Init PROVE IInv
  OBVIOUS
<1>1. Len(Candidates) \in Nat
  BY CausalAssumption
<1>2. Typed
  BY <1>1 DEF Init, Typed
<1> QED
  BY <1>2 DEF Init, IInv, Placed, Walks, Records

LEMMA StartIInv == IInv /\ Start => IInv'
<1> SUFFICES ASSUME IInv, Start PROVE IInv'
  OBVIOUS
<1>1. Anomalous' = Anomalous
  BY AnomalousStays DEF Start
<1>2. Typed'
  BY <1>1 DEF IInv, Typed, Start
<1>3. Records'
  BY RecordsStay DEF IInv, Start
<1> QED
  BY <1>2, <1>3 DEF IInv, Placed, Walks, Start

(* The candidate is reached before any caller is asked for. *)
LEMMA AssessIInv == IInv /\ Assess => IInv'
<1> SUFFICES ASSUME IInv, Assess PROVE IInv'
  OBVIOUS
<1>1. /\ Candidate \in Node
      /\ Candidate' = Candidate
      /\ inc \in Incidents
  <2>1. index \in DOMAIN Candidates
    BY CausalAssumption DEF IInv, Typed, Assess
  <2> QED
    BY <2>1, CausalAssumption DEF Assess, Candidate, IInv, Typed
<1>2. /\ DOMAIN impacts' = {Candidate}
      /\ impacts'[Candidate] = [hop |-> 0, severity |-> Severity(Candidate)]
      /\ queue' = <<Candidate>>
  BY DEF Assess
<1>3. Anomalous' = Anomalous
  BY AnomalousStays DEF Assess
<1>4. Typed'
  <2>1. Severity(Candidate) \in 0..One
    BY <1>1, SeverityType
  <2>2. Cardinality({Candidate}) = 1
    BY FS_Singleton
  <2>3. \A n \in DOMAIN impacts' :
          /\ impacts'[n] \in [hop : Nat, severity : 0..One]
          /\ impacts'[n].hop < Cardinality(DOMAIN impacts')
    BY <1>2, <2>1, <2>2
  <2>4. queue' \in Seq(DOMAIN impacts') /\ DOMAIN impacts' \in SUBSET Node
    BY <1>1, <1>2
  <2> QED
    BY <1>3, <2>3, <2>4 DEF IInv, Typed, Assess
<1>5. Linked'
  <2>1. Queued(Candidate)'
    BY <1>1, <1>2 DEF Queued
  <2>2. {Candidate} \subseteq Reaching({Candidate}, Node)
    BY <1>1, ReachingIsLeast
  <2>3. (Reaching({Candidate}, Node))' = Reaching({Candidate}, Node)
    BY <1>1, ReachingStays DEF Assess
  <2> QED
    BY <1>1, <1>2, <2>1, <2>2, <2>3 DEF Linked, hop
<1>6. Breadthwise'
  BY <1>1, <1>2 DEF Breadthwise, hop
<1>7. Records'
  BY RecordsStay DEF IInv, Assess
<1> QED
  BY <1>4, <1>5, <1>6, <1>7 DEF IInv, Placed, Walks, Assess

(* An order of a set lists each of its elements. *)
LEMMA OrderListsAll ==
  ASSUME NEW S \in SUBSET Node, NEW order \in SetToSeqs(S)
  PROVE  /\ order \in Seq(S)
         /\ \A n \in S : \E i \in 1..Len(order) : order[i] = n
<1> DEFINE N == Cardinality(S)
<1>1. IsFiniteSet(S) /\ N \in Nat
  BY FiniteNodes
<1>2. order \in [1..N -> S] /\ \A i, j \in 1..N : i # j => order[i] # order[j]
  BY DEF SetToSeqs
<1>3. order \in Injection(1..N, S)
  BY <1>2 DEF Injection, IsInjective
<1>4. Cardinality(1..N) = N
  BY <1>1, FS_Interval
<1>5. order \in Surjection(1..N, S)
  BY <1>1, <1>3, <1>4, FS_Injection
<1> HIDE DEF N
<1>6. order \in Seq(S) /\ Len(order) = N
  BY <1>1, <1>2
<1> QED
  BY <1>5, <1>6 DEF Surjection

(* What the queue of the simulation holds after one turn. *)
LEMMA TailAndOrder ==
  ASSUME NEW A, NEW B, NEW q \in Seq(A), q # <<>>, NEW order \in Seq(B)
  PROVE  /\ Tail(q) \o order \in Seq(A \cup B)
         /\ Len(Tail(q) \o order) = Len(q) - 1 + Len(order)
         /\ \A i \in 1..Len(q) - 1 : (Tail(q) \o order)[i] = q[i + 1]
         /\ \A i \in 1..Len(order) : (Tail(q) \o order)[Len(q) - 1 + i] = order[i]
         /\ q[1] = Head(q) /\ q[1] \in A
         /\ Len(q) \in Nat \ {0} /\ Len(order) \in Nat
<1>1. Tail(q) \in Seq(A) /\ Len(Tail(q)) = Len(q) - 1
      /\ \A i \in 1..Len(q) - 1 : Tail(q)[i] = q[i + 1]
  OBVIOUS
<1>2. Len(q) \in Nat \ {0} /\ q[1] = Head(q) /\ q[1] \in A
  OBVIOUS
<1>3. Tail(q) \in Seq(A \cup B) /\ order \in Seq(A \cup B)
  BY <1>1
<1> DEFINE t == Tail(q)
<1>4. \A i \in 1..Len(t) + Len(order) :
         (t \o order)[i] = IF i <= Len(t) THEN t[i] ELSE order[i - Len(t)]
  BY <1>3
<1>5. t \o order \in Seq(A \cup B) /\ Len(t \o order) = Len(t) + Len(order)
  BY <1>3
<1>6. Len(order) \in Nat
  OBVIOUS
<1> HIDE DEF t
<1>7. \A i \in 1..Len(q) - 1 : (t \o order)[i] = t[i]
  BY <1>1, <1>2, <1>4, <1>6 DEF t
<1>8. \A i \in 1..Len(order) : (t \o order)[Len(q) - 1 + i] = order[i]
  <2> SUFFICES ASSUME NEW i \in 1..Len(order)
               PROVE  (t \o order)[Len(q) - 1 + i] = order[i]
    OBVIOUS
  <2>1. Len(t) = Len(q) - 1 /\ Len(t) \in Nat
    BY <1>1, <1>2 DEF t
  <2>2. Len(t) + i \in 1..Len(t) + Len(order) /\ ~(Len(t) + i <= Len(t))
        /\ (Len(t) + i) - Len(t) = i
    BY <1>6, <2>1
  <2> QED
    BY <1>4, <2>1, <2>2
<1> QED
  BY <1>1, <1>2, <1>5, <1>6, <1>7, <1>8 DEF t

(* One turn of the simulation keeps the walk breadth-first. *)
LEMMA PropagateIInv == IInv /\ Propagate => IInv'
<1> SUFFICES ASSUME IInv, Propagate PROVE IInv'
  OBVIOUS
<1> DEFINE D == DOMAIN impacts
           current == Head(queue)
           fresh == Unreached(current)
           k == hop(current)
           L == Len(queue)
<1>1. /\ inc \in Incidents /\ inc' = inc
      /\ Candidate \in D /\ Candidate' = Candidate
      /\ D \in SUBSET Node
      /\ \A n \in D : hop(n) \in Nat /\ impacts[n].severity \in 0..One
      /\ \A n \in D : hop(n) < Cardinality(D)
      /\ queue \in Seq(D) /\ queue # <<>>
  BY DEF IInv, Typed, Walks, Linked, Propagate, Candidate, hop
<1>2. current \in D /\ k \in Nat /\ current \in Node
  BY <1>1
<1>3. fresh \in SUBSET Node /\ fresh \cap D = {} /\ fresh = Callers(current) \ D
  BY DEF Unreached, Callers
<1>4. PICK order \in SetToSeqs(fresh) : queue' = Tail(queue) \o order
  BY DEF Propagate
<1>5. order \in Seq(fresh) /\ \A n \in fresh : \E i \in 1..Len(order) : order[i] = n
  BY <1>3, <1>4, OrderListsAll
<1>6. /\ queue' \in Seq(D \cup fresh)
      /\ Len(queue') = L - 1 + Len(order)
      /\ \A i \in 1..L - 1 : queue'[i] = queue[i + 1]
      /\ \A i \in 1..Len(order) : queue'[L - 1 + i] = order[i]
      /\ queue[1] = current
      /\ L \in Nat \ {0} /\ Len(order) \in Nat
  BY <1>1, <1>4, <1>5, TailAndOrder
<1>7. /\ DOMAIN impacts' = D \cup fresh
      /\ \A n \in D : impacts'[n] = impacts[n]
      /\ \A n \in fresh : impacts'[n].hop = k + 1
  BY <1>3 DEF Propagate, hop
<1>8. \A n \in D : hop(n)' = hop(n)
  BY <1>7 DEF hop
<1>9. \A n \in fresh : hop(n)' = k + 1
  BY <1>7 DEF k, hop
<1>10. /\ \A i \in 1..L : queue[i] \in D /\ k <= hop(queue[i]) /\ hop(queue[i]) <= k + 1
       /\ \A n \in D : hop(n) <= k + 1
       /\ \A i, j \in 1..L : i <= j => hop(queue[i]) <= hop(queue[j])
       /\ \A n \in D, i \in 1..L : hop(n) <= hop(queue[i]) + 1
  <2>1. DOMAIN queue = 1..L /\ 1 \in 1..L /\ \A i \in 1..L : queue[i] \in D
    BY <1>1, <1>6
  <2>2. Breadthwise
    BY DEF IInv, Walks, Propagate
  <2>3. /\ \A i, j \in 1..L : i <= j => hop(queue[i]) <= hop(queue[j])
        /\ \A n \in D, i \in 1..L : hop(n) <= hop(queue[i]) + 1
    BY <2>1, <2>2 DEF Breadthwise
  <2> HIDE DEF D, current, k, L
  <2>4. \A n \in D : hop(n) <= k + 1
    BY <1>6, <2>1, <2>3 DEF k
  <2>5. \A i \in 1..L : 1 <= i
    OBVIOUS
  <2>6. \A i \in 1..L : k <= hop(queue[i])
    BY <1>6, <2>1, <2>3, <2>5 DEF k
  <2> QED
    BY <2>1, <2>3, <2>4, <2>6
<1>11. ASSUME NEW i \in 1..Len(queue')
       PROVE  \/ /\ i \in 1..L - 1 /\ i + 1 \in 1..L
                 /\ queue'[i] = queue[i + 1] /\ queue[i + 1] \in D
              \/ i > L - 1 /\ queue'[i] \in fresh
  <2>1. CASE i \in 1..L - 1
    BY <1>6, <1>10, <2>1
  <2>2. CASE i \notin 1..L - 1
    <3>1. i - (L - 1) \in 1..Len(order) /\ L - 1 + (i - (L - 1)) = i
      BY <1>6, <2>2
    <3>2. order[i - (L - 1)] \in fresh
      BY <1>5, <3>1
    <3>3. queue'[i] = order[i - (L - 1)]
      BY <1>6, <3>1
    <3> QED
      BY <1>6, <2>2, <3>1, <3>2, <3>3
  <2> QED
    BY <2>1, <2>2
<1>12. Callers(current) \subseteq D \cup fresh
  BY <1>3
<1>13. /\ Anomalous' = Anomalous
       /\ \A n \in Node : Callers(n)' = Callers(n)
  BY <1>1, AnomalousStays
<1>14. DOMAIN queue' = 1..Len(queue')
  BY <1>6
<1> HIDE DEF D, current, fresh, k, L
<1>15. Typed'
  <2>1. \A n \in fresh : Attenuated(impacts[current].severity, <<n, current>>) \in 0..One
    BY <1>1, <1>2, <1>3, AttenuatedType
  <2>2. \A n \in fresh : impacts'[n] \in [hop : Nat, severity : 0..One]
    <3>1. \A n \in fresh :
            impacts'[n] = [hop |-> impacts[current].hop + 1,
                           severity |-> Attenuated(impacts[current].severity, <<n, current>>)]
      BY DEF Propagate, current, fresh
    <3>2. ASSUME NEW h \in Nat, NEW s \in 0..One
          PROVE  [hop |-> h, severity |-> s] \in [hop : Nat, severity : 0..One]
      OBVIOUS
    <3>3. impacts[current].hop + 1 \in Nat
      BY <1>2 DEF k, hop
    <3> QED
      BY <2>1, <3>1, <3>2, <3>3
  <2>3. \A n \in D : impacts'[n] \in [hop : Nat, severity : 0..One]
    BY <1>7 DEF IInv, Typed, D
  <2>4. /\ Cardinality(D) <= Cardinality(D \cup fresh)
        /\ Cardinality(D) \in Nat /\ Cardinality(D \cup fresh) \in Nat
    BY <1>1, <1>3, FiniteNodes, FS_Subset
  <2>5. fresh # {} => Cardinality(D) < Cardinality(D \cup fresh)
    <3>1. SUFFICES ASSUME fresh # {} PROVE Cardinality(D) # Cardinality(D \cup fresh)
      BY <2>4
    <3>2. IsFiniteSet(D \cup fresh) /\ D \subseteq D \cup fresh
      BY <1>1, <1>3, FiniteNodes
    <3>3. D # D \cup fresh
      BY <1>3, <3>1
    <3> QED
      BY <3>2, <3>3, FS_Subset
  <2>6. \A n \in D \cup fresh : impacts'[n].hop < Cardinality(D \cup fresh)
    <3>1. \A n \in D : impacts'[n].hop < Cardinality(D \cup fresh)
      BY <1>1, <1>7, <2>4 DEF hop
    <3>2. \A n \in fresh : impacts'[n].hop < Cardinality(D \cup fresh)
      <4>1. k < Cardinality(D)
        BY <1>1, <1>2 DEF k
      <4> QED
        BY <1>2, <1>7, <2>4, <2>5, <4>1 DEF hop
    <3> QED
      BY <3>1, <3>2
  <2> QED
    BY <1>1, <1>3, <1>6, <1>7, <1>13, <2>2, <2>3, <2>6 DEF IInv, Typed, Propagate
<1>16. Linked'
  <2>1. \A S, W : Reaching(S, W)' = Reaching(S, W)
    BY <1>1, ReachingStays
  <2>2. D \cup fresh \subseteq Reaching({Candidate}, Node)
    <3>1. D \subseteq Reaching({Candidate}, Node)
      BY DEF IInv, Walks, Linked, Propagate, D
    <3>2. Closed(Reaching({Candidate}, Node), Node)
      <4>1. {Candidate} \in SUBSET Node
        BY <1>1
      <4> QED
        BY <4>1, ReachingIsLeast
    <3> QED
      BY <1>2, <1>3, <3>1, <3>2 DEF Closed
  <2>3. Candidate \in D /\ hop(Candidate)' = 0
    BY <1>1, <1>8 DEF IInv, Walks, Linked, Propagate
  <2>4. ASSUME NEW n \in D \cup fresh, hop(n)' > 0
        PROVE  \E m \in D : <<n, m>> \in inc.calls /\ hop(m)' = hop(n)' - 1
    <3>1. CASE n \in D
      BY <1>1, <1>8, <2>4, <3>1 DEF IInv, Walks, Linked, Propagate, D
    <3>2. CASE n \in fresh
      <4>1. <<n, current>> \in inc.calls
        BY <1>3, <3>2 DEF Callers
      <4> QED
        BY <1>2, <1>8, <1>9, <3>2, <4>1 DEF k
    <3> QED
      BY <3>1, <3>2
  <2>5. ASSUME NEW m \in D \cup fresh
        PROVE  \/ Queued(m)'
               \/ \A p \in Callers(m) : p \in D \cup fresh /\ hop(p)' <= hop(m)' + 1
    <3>1. CASE m = current
      <4>1. \A p \in Callers(current) : p \in D \cup fresh /\ hop(p)' <= k + 1
        BY <1>2, <1>8, <1>9, <1>10, <1>12
      <4> QED
        BY <1>2, <1>8, <3>1, <4>1 DEF k
    <3>2. CASE m \in fresh
      <4>1. PICK i \in 1..Len(order) : order[i] = m
        BY <1>5, <3>2
      <4>2. L - 1 + i \in 1..Len(queue') /\ queue'[L - 1 + i] = m
        BY <1>6, <4>1
      <4> QED
        BY <1>14, <4>2 DEF Queued
    <3>3. CASE m \in D /\ m # current /\ Queued(m)
      <4>1. PICK i \in 1..L : queue[i] = m
        BY <1>1, <3>3 DEF Queued, L
      <4>2. i # 1
        BY <1>6, <3>3, <4>1
      <4>3. i - 1 \in 1..L - 1 /\ (i - 1) + 1 = i
        BY <1>6, <4>2
      <4>4. i - 1 \in 1..Len(queue')
        BY <1>6, <4>3
      <4>5. queue'[i - 1] = m
        BY <1>6, <4>1, <4>3
      <4> QED
        BY <1>14, <4>4, <4>5 DEF Queued
    <3>4. CASE m \in D /\ ~Queued(m)
      <4>1. \A p \in Callers(m) : p \in D /\ hop(p) <= hop(m) + 1
        BY <3>4 DEF IInv, Walks, Linked, Propagate, D
      <4> QED
        BY <1>8, <3>4, <4>1
    <3> QED
      BY <3>1, <3>2, <3>3, <3>4
  <2> QED
    <3>1. (Reaching({Candidate}, Node))' = Reaching({Candidate}, Node)
      BY <1>1, <2>1
    <3>2. DOMAIN impacts' = D \cup fresh /\ D \cup fresh \subseteq Node
      BY <1>1, <1>3, <1>7
    <3> QED
      BY <1>1, <1>13, <2>2, <2>3, <2>4, <2>5, <3>1, <3>2 DEF Linked
<1>17. Breadthwise'
  <2>1. ASSUME NEW i \in 1..Len(queue')
        PROVE  /\ queue'[i] \in D => /\ i + 1 \in 1..L /\ queue'[i] = queue[i + 1]
                                     /\ hop(queue[i + 1]) \in Nat
               /\ queue'[i] \notin D => queue'[i] \in fresh /\ i > L - 1
    BY <1>1, <1>3, <1>11
  <2>2. ASSUME NEW i \in 1..Len(queue'), NEW j \in 1..Len(queue'), i <= j
        PROVE  impacts'[queue'[i]].hop <= impacts'[queue'[j]].hop
    <3>1. CASE queue'[i] \in D /\ queue'[j] \in D
      <4>1. /\ i + 1 \in 1..L /\ j + 1 \in 1..L /\ i + 1 <= j + 1
            /\ queue'[i] = queue[i + 1] /\ queue'[j] = queue[j + 1]
        BY <2>1, <2>2, <3>1
      <4>2. hop(queue[i + 1]) <= hop(queue[j + 1])
        BY <1>10, <4>1
      <4> QED
        BY <1>7, <3>1, <4>1, <4>2 DEF hop
    <3>2. CASE queue'[i] \in D /\ queue'[j] \notin D
      <4>1. queue'[j] \in fresh /\ hop(queue'[i]) <= k + 1
        BY <1>10, <2>1, <3>2
      <4> QED
        BY <1>2, <1>7, <3>2, <4>1 DEF hop
    <3>3. CASE queue'[i] \notin D /\ queue'[j] \in D
      <4>1. i > L - 1 /\ j + 1 \in 1..L
        BY <2>1, <3>3
      <4> QED
        BY <1>6, <2>2, <4>1
    <3>4. CASE queue'[i] \notin D /\ queue'[j] \notin D
      <4>1. queue'[i] \in fresh /\ queue'[j] \in fresh
        BY <2>1, <3>4
      <4> QED
        BY <1>2, <1>7, <4>1
    <3> QED
      BY <3>1, <3>2, <3>3, <3>4
  <2>3. ASSUME NEW n \in D \cup fresh, NEW i \in 1..Len(queue')
        PROVE  impacts'[n].hop <= impacts'[queue'[i]].hop + 1
    <3>1. impacts'[n].hop \in Nat /\ impacts'[n].hop <= k + 1
      BY <1>1, <1>2, <1>7, <1>10 DEF hop
    <3>2. impacts'[queue'[i]].hop >= k
      <4>1. CASE queue'[i] \in D
        BY <1>7, <1>10, <2>1, <4>1 DEF hop
      <4>2. CASE queue'[i] \notin D
        BY <1>2, <1>7, <2>1, <4>2
      <4> QED
        BY <4>1, <4>2
    <3>3. impacts'[queue'[i]].hop \in Nat
      BY <1>1, <1>2, <1>7, <2>1 DEF hop
    <3> QED
      BY <1>2, <3>1, <3>2, <3>3
  <2> QED
    BY <1>7, <1>14, <2>2, <2>3 DEF Breadthwise, hop
<1>18. Records'
  BY RecordsStay DEF IInv, Propagate
<1> QED
  BY <1>15, <1>16, <1>17, <1>18 DEF IInv, Placed, Walks, Propagate

(* The counterfactual starts from the other roots. *)
LEMMA SupposeIInv == IInv /\ Suppose => IInv'
<1> SUFFICES ASSUME IInv, Suppose PROVE IInv'
  OBVIOUS
<1>1. /\ Anomalous' = Anomalous /\ OriginCandidates' = OriginCandidates
      /\ Candidate' = Candidate /\ inc' = inc
  BY AnomalousStays DEF Suppose, Candidate
<1>2. Remaining' = Remaining
  BY <1>1 DEF Remaining
<1>3. \A S, W : Reaching(S, W)' = Reaching(S, W)
  BY <1>1, ReachingStays
<1> DEFINE roots == OriginCandidates \cap Remaining
<1>4. roots \in SUBSET Node /\ Remaining \in SUBSET Node /\ roots \in SUBSET Anomalous
  BY ObservedNodes DEF OriginCandidates, Remaining
<1>5. roots \subseteq Reaching(roots, Remaining)
  BY <1>4, ReachingIsLeast
<1>6. Typed'
  BY <1>1, <1>4 DEF IInv, Typed, Suppose
<1>7. Explained'
  BY <1>1, <1>2, <1>3, <1>5 DEF Explained, Suppose
<1>8. Linked' /\ Breadthwise'
  <2>1. Linked /\ Breadthwise
    BY DEF IInv, Walks, Suppose
  <2>2. impacts' = impacts /\ queue' = queue
    BY DEF Suppose
  <2>3. (Reaching({Candidate}, Node))' = Reaching({Candidate}, Node)
    BY <1>1, <1>3
  <2>4. DOMAIN impacts \subseteq Node /\ \A n \in Node : Callers(n)' = Callers(n)
    BY <1>1, AnomalousStays DEF IInv, Typed
  <2>5. Linked'
    BY <1>1, <2>1, <2>2, <2>3, <2>4 DEF Linked, Queued, hop
  <2>6. Breadthwise'
    BY <2>1, <2>2 DEF Breadthwise, hop
  <2> QED
    BY <2>5, <2>6
<1>9. Records'
  BY RecordsStay DEF IInv, Suppose
<1> QED
  BY <1>6, <1>7, <1>8, <1>9 DEF IInv, Placed, Walks, Suppose

LEMMA SupposeOutsideGraphIInv == IInv /\ SupposeOutsideGraph => IInv'
<1> SUFFICES ASSUME IInv, SupposeOutsideGraph PROVE IInv'
  OBVIOUS
<1>1. Anomalous' = Anomalous
  BY AnomalousStays DEF SupposeOutsideGraph
<1>2. Typed'
  BY <1>1 DEF IInv, Typed, SupposeOutsideGraph
<1>3. Records'
  BY RecordsStay DEF IInv, SupposeOutsideGraph
<1> QED
  BY <1>2, <1>3 DEF IInv, Placed, Walks, SupposeOutsideGraph

(* One turn of the counterfactual: whichever node is taken, its callers follow. *)
LEMMA ExplainIInv == IInv /\ Explain => IInv'
<1> SUFFICES ASSUME IInv, Explain PROVE IInv'
  OBVIOUS
<1>1. /\ Anomalous' = Anomalous /\ OriginCandidates' = OriginCandidates
      /\ Candidate' = Candidate /\ inc' = inc
  BY AnomalousStays DEF Explain, Candidate
<1>2. Remaining' = Remaining
  BY <1>1 DEF Remaining
<1>3. \A S, W : Reaching(S, W)' = Reaching(S, W)
  BY <1>1, ReachingStays
<1>4. PICK current \in frontier :
        /\ explained' = explained \cup Explainable(current)
        /\ frontier' = (frontier \ {current}) \cup Explainable(current)
  BY DEF Explain
<1> DEFINE roots == OriginCandidates \cap Remaining
<1>5. roots \in SUBSET Node /\ Remaining \in SUBSET Node /\ Remaining \in SUBSET Anomalous
  BY ObservedNodes DEF OriginCandidates, Remaining
<1>6. Explained /\ explained \in SUBSET Anomalous /\ frontier \in SUBSET explained
  BY DEF IInv, Typed, Walks, Explain
<1>7. Explainable(current) = (Callers(current) \cap Remaining) \ explained
  BY DEF Explainable
<1>8. explained' \in SUBSET Anomalous /\ frontier' \in SUBSET explained'
  BY <1>4, <1>5, <1>6, <1>7
<1>9. Typed'
  BY <1>1, <1>8 DEF IInv, Typed, Explain
<1>10. Explained'
  <2>1. Closed(Reaching(roots, Remaining), Remaining)
    BY <1>5, ReachingIsLeast
  <2>2. /\ roots \subseteq explained /\ explained \subseteq Reaching(roots, Remaining)
        /\ \A m \in explained \ frontier : Callers(m) \cap Remaining \subseteq explained
    BY <1>6 DEF Explained
  <2>3. roots \subseteq explained'
    BY <1>4, <2>2
  <2>4. explained' \subseteq Reaching(roots, Remaining)
    BY <1>4, <1>6, <1>7, <2>1, <2>2 DEF Closed
  <2>5. \A m \in explained' \ frontier' : Callers(m) \cap Remaining \subseteq explained'
    BY <1>4, <1>6, <1>7, <2>2
  <2>6. \A m \in explained' : Callers(m)' = Callers(m)
    BY <1>1, <1>8, ObservedNodes, AnomalousStays
  <2>7. (OriginCandidates \cap Remaining)' = roots
        /\ Reaching(roots, Remaining)' = Reaching(roots, Remaining)
    BY <1>1, <1>2, <1>3
  <2> QED
    BY <1>1, <1>2, <1>3, <2>3, <2>4, <2>5, <2>6, <2>7 DEF Explained
<1>11. Linked' /\ Breadthwise'
  <2>1. Linked /\ Breadthwise
    BY DEF IInv, Walks, Explain
  <2>2. impacts' = impacts /\ queue' = queue
    BY DEF Explain
  <2>3. (Reaching({Candidate}, Node))' = Reaching({Candidate}, Node)
    BY <1>1, <1>3
  <2>4. DOMAIN impacts \subseteq Node /\ \A n \in Node : Callers(n)' = Callers(n)
    BY <1>1, AnomalousStays DEF IInv, Typed
  <2>5. Linked'
    BY <1>1, <2>1, <2>2, <2>3, <2>4 DEF Linked, Queued, hop
  <2>6. Breadthwise'
    BY <2>1, <2>2 DEF Breadthwise, hop
  <2> QED
    BY <2>5, <2>6
<1>12. Records'
  BY RecordsStay DEF IInv, Explain
<1> QED
  BY <1>9, <1>10, <1>11, <1>12 DEF IInv, Placed, Walks, Explain

(* The simulation has ended: what it hit is what reaches the candidate, at its
   distance. *)
LEMMA WalkEnds ==
  ASSUME Typed, Linked, queue = <<>>, index <= Len(Candidates)
  PROVE  ShortestFrom([n \in DOMAIN impacts |-> impacts[n].hop], Candidate)
<1> DEFINE D == DOMAIN impacts
           hops == [n \in D |-> impacts[n].hop]
           c == Candidate
<1>1. /\ c \in D /\ D \in SUBSET Node /\ hop(c) = 0
      /\ D \subseteq Reaching({c}, Node)
      /\ \A n \in D : hop(n) \in Nat
      /\ \A n \in D : hop(n) > 0 =>
           \E m \in D : <<n, m>> \in inc.calls /\ hop(m) = hop(n) - 1
  BY DEF Typed, Linked, hop
<1>2. \A m \in D : \A p \in Callers(m) : p \in D /\ hop(p) <= hop(m) + 1
  BY DEF Linked, Queued
<1>3. Closed(D, Node)
  BY <1>2 DEF Closed
<1>4. D = Reaching({c}, Node)
  <2>1. {c} \in SUBSET Node /\ {c} \subseteq D
    BY <1>1
  <2>2. Reaching({c}, Node) \subseteq D
    BY <1>1, <1>3, <2>1, ReachingIsLeast
  <2> QED
    BY <1>1, <2>2
<1>5. DOMAIN hops = D /\ \A n \in D : hops[n] = hop(n)
  BY DEF hop
<1>6. \A n \in D, m \in D : <<n, m>> \in inc.calls => hop(n) <= hop(m) + 1
  BY <1>1, <1>2 DEF Callers
<1> HIDE DEF D, hops, c
<1>7. ASSUME NEW n \in D, hops[n] > 0
      PROVE  /\ \E m \in {x \in D : hops[x] <= hops[n] - 1} : <<n, m>> \in inc.calls
             /\ \A m \in {x \in D : hops[x] <= hops[n] - 2} : <<n, m>> \notin inc.calls
  <2>1. PICK m \in D : <<n, m>> \in inc.calls /\ hop(m) = hop(n) - 1
    BY <1>1, <1>5, <1>7
  <2>2. hops[m] <= hops[n] - 1
    BY <1>1, <1>5, <2>1
  <2>3. ASSUME NEW x \in D, hops[x] <= hops[n] - 2, <<n, x>> \in inc.calls
        PROVE  FALSE
    <3>1. hop(n) <= hop(x) + 1 /\ hop(x) <= hop(n) - 2
      BY <1>5, <1>6, <2>3
    <3> QED
      BY <1>1, <3>1
  <2> QED
    BY <2>1, <2>2, <2>3
<1>8. hops[c] = 0
  BY <1>1, <1>5
<1>9. ShortestFrom(hops, c)
  BY <1>4, <1>5, <1>7, <1>8 DEF ShortestFrom
<1> QED
  BY <1>9 DEF hops, c, D

(* The counterfactual has ended: it has explained all that leads to another root. *)
LEMMA CounterfactualEnds ==
  ASSUME Explained, explained \in SUBSET Anomalous, frontier = {}
  PROVE  explained = Reaching(OriginCandidates \cap Remaining, Remaining)
<1> DEFINE roots == OriginCandidates \cap Remaining
<1>1. roots \in SUBSET Node /\ Remaining \in SUBSET Node /\ explained \in SUBSET Node
  BY ObservedNodes DEF OriginCandidates, Remaining
<1>2. /\ roots \subseteq explained /\ explained \subseteq Reaching(roots, Remaining)
      /\ \A m \in explained : Callers(m) \cap Remaining \subseteq explained
  BY DEF Explained
<1>3. Closed(explained, Remaining)
  BY <1>2 DEF Closed
<1> HIDE DEF roots
<1>4. Reaching(roots, Remaining) \subseteq explained
  BY <1>1, <1>2, <1>3, ReachingIsLeast
<1> QED
  BY <1>2, <1>4 DEF roots

(* A confidence is a share of the anomalies. *)
LEMMA NecessityType ==
  ASSUME NEW E
  PROVE  Necessity(E) \in 0..One
<1>1. CASE Anomalous = {}
  BY <1>1 DEF Necessity, One
<1>2. CASE Anomalous # {}
  <2> DEFINE a == Cardinality(Anomalous)
             b == Cardinality(Anomalous \ E)
  <2>1. IsFiniteSet(Anomalous) /\ a \in Nat
    BY ObservedNodes, FiniteNodes
  <2>2. a # 0
    BY <1>2, <2>1, FS_EmptySet
  <2>3. b \in Nat /\ b <= a
    <3>1. Anomalous \ E \subseteq Anomalous
      OBVIOUS
    <3> QED
      BY <2>1, <3>1, FS_Subset, FS_CardinalityType
  <2>4. Necessity(E) = (One * b) \div a
    BY <1>2 DEF Necessity
  <2> HIDE DEF a, b
  <2>5. a > 0
    BY <2>1, <2>2
  <2> QED
    BY <2>1, <2>3, <2>4, <2>5, ShareBounds
<1> QED
  BY <1>1, <1>2

LEMMA RecordIInv == IInv /\ Record => IInv'
<1> SUFFICES ASSUME IInv, Record PROVE IInv'
  OBVIOUS
<1> DEFINE r == [node |-> Candidate, explained |-> explained,
                 hops |-> [n \in DOMAIN impacts |-> impacts[n].hop],
                 confidence |-> Confidence, fit |-> Fit,
                 causal |-> (6 * Fit + 4 * Confidence) \div 10]
<1>1. /\ Typed /\ Linked /\ Explained /\ queue = <<>>
      /\ index <= Len(Candidates) /\ frontier = {}
  BY DEF IInv, Walks, Placed, Record
<1>2. /\ inc \in Incidents /\ inc' = inc
      /\ index \in DOMAIN Candidates /\ Len(Candidates) \in Nat
      /\ explained \in SUBSET Anomalous
      /\ assessed \in Seq(Assessment) /\ Len(assessed) = index - 1
      /\ \A n \in DOMAIN impacts : impacts[n].severity \in 0..One
  BY <1>1, CausalAssumption DEF Typed, Record
<1>3. Candidate \in Node /\ Candidate = Candidates[index]
  BY <1>2, CausalAssumption DEF Candidate
<1>4. assessed' = Append(assessed, r) /\ index' = index + 1
  BY DEF Record
<1>5. Fit \in 0..One
  BY <1>2, FitType
<1>6. Confidence = Necessity(explained)
  BY DEF Confidence, Necessity
<1>7. Confidence \in 0..One
  BY <1>6, NecessityType
<1>8. (6 * Fit + 4 * Confidence) \div 10 \in 0..One
  BY <1>5, <1>7 DEF One
<1>9. r.hops \in UNION {[S -> Nat] : S \in SUBSET Node}
  <2>1. DOMAIN impacts \in SUBSET Node /\ \A n \in DOMAIN impacts : impacts[n].hop \in Nat
    BY <1>1 DEF Typed
  <2>2. r.hops \in [DOMAIN impacts -> Nat]
    BY <2>1
  <2> QED
    BY <2>1, <2>2
<1>10. /\ r.node = Candidate /\ r.explained = explained
       /\ r.hops = [n \in DOMAIN impacts |-> impacts[n].hop]
       /\ r.confidence = Confidence /\ r.fit = Fit
       /\ r.causal = (6 * Fit + 4 * Confidence) \div 10
  OBVIOUS
<1>11. r \in Assessment
  <2>1. \A x \in 0..One : x \in Nat
    BY DEF One
  <2>2. explained \in SUBSET Node
    BY <1>2, ObservedNodes
  <2>3. Confidence \in Nat /\ Fit \in Nat /\ (6 * Fit + 4 * Confidence) \div 10 \in Nat
    BY <1>5, <1>7, <1>8, <2>1
  <2> DEFINE x == (6 * Fit + 4 * Confidence) \div 10
             h == [n \in DOMAIN impacts |-> impacts[n].hop]
             H == UNION {[S -> Nat] : S \in SUBSET Node}
  <2>4. h \in H /\ x \in Nat
    BY <1>9, <2>3
  <2> HIDE DEF x, h, H
  <2>5. [node |-> Candidate, explained |-> explained, hops |-> h,
         confidence |-> Confidence, fit |-> Fit, causal |-> x]
          \in [node : Node, explained : SUBSET Node, hops : H,
               confidence : Nat, fit : Nat, causal : Nat]
    BY <1>3, <2>2, <2>3, <2>4
  <2> QED
    BY <2>5 DEF x, h, H, Assessment
<1>12. Recorded(r, Candidate)
  <2>1. ShortestFrom(r.hops, Candidate)
    BY <1>1, <1>10, WalkEnds
  <2>2. r.explained = Reaching(OriginCandidates \cap (Anomalous \ {Candidate}),
                               Anomalous \ {Candidate})
    BY <1>1, <1>2, <1>10, CounterfactualEnds DEF Remaining
  <2> QED
    BY <1>5, <1>6, <1>7, <1>8, <1>10, <2>1, <2>2 DEF Recorded
<1> HIDE DEF r
<1>13. /\ assessed' \in Seq(Assessment) /\ Len(assessed') = index
       /\ DOMAIN assessed' = 1..index
       /\ \A i \in 1..index - 1 : i \in DOMAIN assessed /\ assessed'[i] = assessed[i]
       /\ assessed'[index] = r
  <2>1. index \in Nat \ {0}
    BY <1>2
  <2>2. /\ Append(assessed, r) \in Seq(Assessment)
        /\ Len(Append(assessed, r)) = Len(assessed) + 1
        /\ \A i \in 1..Len(assessed) : Append(assessed, r)[i] = assessed[i]
        /\ Append(assessed, r)[Len(assessed) + 1] = r
    BY <1>2, <1>11
  <2> QED
    BY <1>2, <1>4, <2>1, <2>2
<1>14. Anomalous' = Anomalous
  BY <1>2, AnomalousStays
<1>15. Typed'
  <2>1. index + 1 \in 1..Len(Candidates) + 1 /\ (index + 1) - 1 = index
    BY <1>1, <1>2
  <2> QED
    BY <1>1, <1>4, <1>13, <1>14, <2>1 DEF Typed, Record
<1>16. Records'
  <2>1. \A x, c : Recorded(x, c) => Recorded(x, c)'
    BY <1>2, RecordedStays
  <2>2. Recorded(r, Candidates[index])
    BY <1>3, <1>12
  <2>3. \A i \in 1..index - 1 : Recorded(assessed[i], Candidates[i])
    BY <1>13 DEF IInv, Records
  <2>4. \A i \in 1..index : i \in 1..index - 1 \/ i = index
    BY <1>2
  <2>5. \A i \in 1..index : Recorded(assessed'[i], Candidates[i])
    BY <1>13, <2>2, <2>3, <2>4
  <2> QED
    BY <1>13, <2>1, <2>5 DEF Records
<1> QED
  BY <1>1, <1>15, <1>16 DEF IInv, Placed, Walks, Record

----------------------------------------------------------------------------
(* The ranking *)

(* As many positions as there are values: an injection takes each. *)
LEMMA InjectionIsOnto ==
  ASSUME NEW n \in Nat, NEW r \in [1..n -> 1..n],
         \A i, j \in 1..n : r[i] = r[j] => i = j
  PROVE  \A k \in 1..n : \E i \in 1..n : r[i] = k
<1>1. r \in Injection(1..n, 1..n)
  BY DEF Injection, IsInjective
<1>2. IsFiniteSet(1..n)
  BY FS_Interval
<1>3. r \in Surjection(1..n, 1..n)
  BY <1>1, <1>2, FS_Injection
<1> QED
  BY <1>3 DEF Surjection

(* Each candidate's rank is one more than the number of those before it, and the
   ranks are the positions of a list in which all come one before the other. *)
LEMMA SortedExists ==
  ASSUME assessed \in Seq(Assessment)
  PROVE  /\ Sorted \in [1..Len(assessed) -> 1..Len(assessed)]
         /\ \A i, j \in 1..Len(assessed) : i < j => Before(Sorted[i], Sorted[j])
<1> DEFINE n == Len(assessed)
           Ahead(i) == {j \in 1..n : Before(j, i)}
           rank == [i \in 1..n |-> Cardinality(Ahead(i)) + 1]
<1>1. n \in Nat /\ \A i \in 1..n : assessed[i].causal \in Nat
  <2>1. \A i \in 1..n : assessed[i] \in Assessment
    OBVIOUS
  <2> QED
    BY <2>1 DEF Assessment
<1> HIDE DEF n
<1>2. /\ \A i \in 1..n : ~Before(i, i)
      /\ \A i, j \in 1..n : i = j \/ Before(i, j) \/ Before(j, i)
      /\ \A i, j, k \in 1..n : Before(i, j) /\ Before(j, k) => Before(i, k)
  BY <1>1 DEF Before
<1>3. \A i \in 1..n : /\ IsFiniteSet(Ahead(i)) /\ Cardinality(Ahead(i)) \in Nat
                      /\ Cardinality(Ahead(i)) < n
  <2> SUFFICES ASSUME NEW i \in 1..n
               PROVE  /\ IsFiniteSet(Ahead(i)) /\ Cardinality(Ahead(i)) \in Nat
                      /\ Cardinality(Ahead(i)) < n
    OBVIOUS
  <2>1. IsFiniteSet(1..n) /\ Cardinality(1..n) = n
    BY <1>1, FS_Interval
  <2>2. Ahead(i) \subseteq 1..n /\ Ahead(i) # 1..n
    BY <1>2
  <2> HIDE DEF Ahead
  <2>3. /\ IsFiniteSet(Ahead(i)) /\ Cardinality(Ahead(i)) <= Cardinality(1..n)
        /\ Cardinality(Ahead(i)) # Cardinality(1..n)
    BY <2>1, <2>2, FS_Subset
  <2>4. Cardinality(Ahead(i)) \in Nat
    BY <2>3, FS_CardinalityType
  <2> QED
    BY <1>1, <2>1, <2>3, <2>4
<1>4. ASSUME NEW i \in 1..n, NEW j \in 1..n, Before(i, j)
      PROVE  Cardinality(Ahead(i)) < Cardinality(Ahead(j))
  <2>1. Ahead(i) \subseteq Ahead(j) /\ Ahead(i) # Ahead(j)
    BY <1>2, <1>4
  <2>2. Cardinality(Ahead(i)) \in Nat /\ Cardinality(Ahead(j)) \in Nat
        /\ IsFiniteSet(Ahead(j))
    BY <1>3
  <2> HIDE DEF Ahead
  <2>3. /\ Cardinality(Ahead(i)) <= Cardinality(Ahead(j))
        /\ Cardinality(Ahead(i)) # Cardinality(Ahead(j))
    BY <2>1, <2>2, FS_Subset
  <2> QED
    BY <2>2, <2>3
<1> HIDE DEF Ahead
<1>5. rank \in [1..n -> 1..n]
  BY <1>1, <1>3
<1>6. \A i, j \in 1..n : Before(i, j) => rank[i] < rank[j]
  BY <1>3, <1>4
<1>7. \A i \in 1..n : rank[i] \in Int
  BY <1>5
<1> HIDE DEF rank
<1>8. \A i, j \in 1..n : rank[i] = rank[j] => i = j
  BY <1>2, <1>6, <1>7
<1>9. \A k \in 1..n : \E i \in 1..n : rank[i] = k
  BY <1>1, <1>5, <1>8, InjectionIsOnto
<1> DEFINE o == [k \in 1..n |-> CHOOSE i \in 1..n : rank[i] = k]
<1>10. \A k \in 1..n : o[k] \in 1..n /\ rank[o[k]] = k
  BY <1>9
<1>11. o \in [1..n -> 1..n]
  BY <1>10
<1> HIDE DEF o
<1>12. ASSUME NEW i \in 1..n, NEW j \in 1..n, i < j PROVE Before(o[i], o[j])
  <2>1. /\ o[i] \in 1..n /\ o[j] \in 1..n
        /\ rank[o[i]] = i /\ rank[o[j]] = j
    BY <1>10
  <2>2. ~(rank[o[j]] < rank[o[i]]) /\ rank[o[i]] # rank[o[j]]
    BY <1>12, <2>1
  <2>3. o[i] # o[j] /\ ~Before(o[j], o[i])
    BY <1>6, <2>1, <2>2
  <2> QED
    BY <1>2, <2>1, <2>3
<1>13. \E p \in [1..n -> 1..n] : \A i, j \in 1..n : i < j => Before(p[i], p[j])
  BY <1>11, <1>12
<1> QED
  BY <1>13 DEF Sorted, n

LEMMA RankIInv == IInv /\ Rank => IInv'
<1> SUFFICES ASSUME IInv, Rank PROVE IInv'
  OBVIOUS
<1> DEFINE n == Len(assessed)
           m == Least(TopK, n)
<1>1. /\ assessed \in Seq(Assessment) /\ Len(assessed) = index - 1
      /\ index \in 1..Len(Candidates) + 1 /\ Len(Candidates) \in Nat
  BY CausalAssumption DEF IInv, Typed
<1>2. n \in Nat /\ DOMAIN assessed = 1..n /\ n <= Len(Candidates)
  BY <1>1
<1>3. 1..m \subseteq 1..n
  BY <1>2, CausalAssumption DEF Least
<1>4. Sorted \in [1..n -> 1..n]
  BY <1>1, SortedExists
<1>5. ranking' = [i \in 1..m |-> assessed[Sorted[i]].node]
  BY DEF Rank
<1>6. \A i \in 1..n : assessed[i].node = Candidates[i] /\ i \in DOMAIN Candidates
  <2>1. \A i \in 1..n : Recorded(assessed[i], Candidates[i])
    BY <1>2 DEF IInv, Records
  <2>2. DOMAIN Candidates = 1..Len(Candidates)
    BY CausalAssumption
  <2> HIDE DEF n
  <2>3. \A i \in 1..n : i \in DOMAIN Candidates
    BY <1>1, <1>2, <2>2
  <2> QED
    BY <2>1, <2>3 DEF Recorded
<1> HIDE DEF n, m
<1>7. \A i \in DOMAIN ranking' : \E j \in DOMAIN Candidates : ranking'[i] = Candidates[j]
  <2> SUFFICES ASSUME NEW i \in 1..m
               PROVE  \E j \in DOMAIN Candidates : ranking'[i] = Candidates[j]
    BY <1>5
  <2>1. Sorted[i] \in 1..n
    BY <1>3, <1>4
  <2> QED
    BY <1>5, <1>6, <2>1
<1>8. Anomalous' = Anomalous
  BY AnomalousStays DEF Rank
<1>9. Typed'
  BY <1>7, <1>8 DEF IInv, Typed, Rank
<1>10. Records'
  BY RecordsStay DEF IInv, Rank
<1> QED
  BY <1>9, <1>10 DEF IInv, Placed, Walks, Rank

LEMMA StutterIInv == IInv /\ UNCHANGED vars => IInv'
<1> SUFFICES ASSUME IInv, UNCHANGED vars PROVE IInv'
  OBVIOUS
<1>1. /\ inc' = inc /\ impacts' = impacts /\ queue' = queue /\ pc' = pc
      /\ index' = index /\ explained' = explained /\ frontier' = frontier
      /\ assessed' = assessed /\ ranking' = ranking
  BY DEF vars
<1>2. /\ Anomalous' = Anomalous /\ OriginCandidates' = OriginCandidates
      /\ Candidate' = Candidate
  BY <1>1, AnomalousStays DEF Candidate
<1>3. Remaining' = Remaining
  BY <1>2 DEF Remaining
<1>4. \A S, W : Reaching(S, W)' = Reaching(S, W)
  BY <1>1, ReachingStays
<1>5. Typed'
  BY <1>1, <1>2 DEF IInv, Typed
<1>6. DOMAIN impacts \subseteq Node /\ explained \subseteq Node
  BY ObservedNodes DEF IInv, Typed
<1>7. \A n \in Node : Callers(n)' = Callers(n)
  BY <1>1, AnomalousStays
<1>8. Linked => Linked'
  <2>1. (Reaching({Candidate}, Node))' = Reaching({Candidate}, Node)
    BY <1>2, <1>4
  <2> QED
    BY <1>1, <1>2, <1>6, <1>7, <2>1 DEF Linked, Queued, hop
<1>9. Breadthwise => Breadthwise'
  BY <1>1 DEF Breadthwise, hop
<1>10. Explained => Explained'
  <2>1. (OriginCandidates \cap Remaining)' = OriginCandidates \cap Remaining
    BY <1>2, <1>3
  <2>2. (Reaching(OriginCandidates \cap Remaining, Remaining))' =
          Reaching(OriginCandidates \cap Remaining, Remaining)
    BY <1>3, <1>4, <2>1
  <2> QED
    BY <1>1, <1>3, <1>6, <1>7, <2>1, <2>2 DEF Explained
<1>11. Walks'
  BY <1>1, <1>8, <1>9, <1>10 DEF IInv, Walks
<1>12. Records'
  BY <1>1, RecordsStay DEF IInv
<1> QED
  BY <1>1, <1>5, <1>11, <1>12 DEF IInv, Placed

(* Every reachable state satisfies the inductive invariant. *)
LEMMA Invariance == Spec => []IInv
<1>1. IInv /\ [Next]_vars => IInv'
  <2> SUFFICES ASSUME IInv, [Next]_vars PROVE IInv'
    OBVIOUS
  <2>1. CASE Start
    BY <2>1, StartIInv
  <2>2. CASE Assess
    BY <2>2, AssessIInv
  <2>3. CASE Propagate
    BY <2>3, PropagateIInv
  <2>4. CASE Suppose
    BY <2>4, SupposeIInv
  <2>5. CASE SupposeOutsideGraph
    BY <2>5, SupposeOutsideGraphIInv
  <2>6. CASE Explain
    BY <2>6, ExplainIInv
  <2>7. CASE Record
    BY <2>7, RecordIInv
  <2>8. CASE Rank
    BY <2>8, RankIInv
  <2>9. CASE Ended
    BY <2>9, StutterIInv DEF Ended
  <2>10. CASE UNCHANGED vars
    BY <2>10, StutterIInv
  <2> QED
    BY <2>1, <2>2, <2>3, <2>4, <2>5, <2>6, <2>7, <2>8, <2>9, <2>10 DEF Next
<1> QED
  BY InitIInv, <1>1, PTL DEF Spec

----------------------------------------------------------------------------
(* Theorems *)

(* For every graph and reading, severities, confidences, fits and scores stay within
   [0, 1], no hop count exceeds the number of nodes, the queues hold nodes reached
   only, and the ranking lists candidates (causal_model.py: rank_candidates). *)
THEOREM TypeCorrect == Spec => []TypeOK
<1>1. IInv => TypeOK
  <2> SUFFICES ASSUME IInv PROVE TypeOK
    OBVIOUS
  <2>1. inc \in Incident
    BY IncidentFacts DEF IInv, Typed
  <2>2. \A n \in DOMAIN impacts :
          impacts[n] \in [hop : 0..Cardinality(Node), severity : 0..One]
    <3> SUFFICES ASSUME NEW n \in DOMAIN impacts
                 PROVE  impacts[n] \in [hop : 0..Cardinality(Node), severity : 0..One]
      OBVIOUS
    <3>1. /\ impacts[n] \in [hop : Nat, severity : 0..One]
          /\ impacts[n].hop < Cardinality(DOMAIN impacts)
          /\ DOMAIN impacts \in SUBSET Node
      BY DEF IInv, Typed
    <3>2. /\ Cardinality(DOMAIN impacts) \in Nat /\ Cardinality(Node) \in Nat
          /\ Cardinality(DOMAIN impacts) <= Cardinality(Node)
      BY <3>1, FiniteNodes
    <3>3. impacts[n].hop \in 0..Cardinality(Node)
      BY <3>1, <3>2
    <3> QED
      BY <3>1, <3>3
  <2>3. \A i \in DOMAIN queue : queue[i] \in DOMAIN impacts
    BY DEF IInv, Typed
  <2>4. \A i \in DOMAIN assessed :
          /\ assessed[i].node = Candidates[i]
          /\ assessed[i].confidence \in 0..One
          /\ assessed[i].fit \in 0..One
          /\ assessed[i].causal \in 0..One
    BY NecessityType DEF IInv, Records, Recorded
  <2> QED
    BY <2>1, <2>2, <2>3, <2>4 DEF IInv, Typed, TypeOK
<1> QED
  BY Invariance, <1>1, PTL

(* For every graph and whatever the order in which the queue is served, a candidate's
   counterfactual explains the anomalous nodes that lead to another root through
   others, and no more (CounterfactualAnalyzer). *)
THEOREM OtherRootsExplain == Spec => []ExplainedByOtherRoots
<1>1. IInv => ExplainedByOtherRoots
  BY DEF IInv, Records, Recorded, ExplainedByOtherRoots
<1> QED
  BY Invariance, <1>1, PTL

(* For every graph and every order of the callers, the simulation hits what reaches
   the candidate, each at its shortest distance (ForwardSimulator). *)
THEOREM SimulationIsBreadthFirst == Spec => []HopsAreShortest
<1>1. IInv => HopsAreShortest
  <2> SUFFICES ASSUME IInv, NEW i \in DOMAIN assessed
               PROVE  LET hops == assessed[i].hops
                          Within(k) == {n \in DOMAIN hops : hops[n] <= k}
                      IN  /\ hops[assessed[i].node] = 0
                          /\ DOMAIN hops = Reaching({assessed[i].node}, Node)
                          /\ \A n \in DOMAIN hops : hops[n] > 0 =>
                               /\ \E m \in Within(hops[n] - 1) : <<n, m>> \in inc.calls
                               /\ \A m \in Within(hops[n] - 2) : <<n, m>> \notin inc.calls
    BY DEF HopsAreShortest
  <2>1. ShortestFrom(assessed[i].hops, assessed[i].node)
    BY DEF IInv, Records, Recorded
  <2> QED
    BY <2>1 DEF ShortestFrom
<1> QED
  BY Invariance, <1>1, PTL

(* In an acyclic graph a set of failing nodes holds one that calls none of them. *)
LEMMA SinkOf ==
  ASSUME inc \in Incidents, Acyclic(inc.calls), NEW S \in SUBSET Node, S # {}
  PROVE  \E n \in S : \A m \in S : <<n, m>> \notin inc.calls
BY DEF Acyclic

(* With no root left out, every failing node leads to a root. *)
LEMMA AllAreExplained ==
  ASSUME inc \in Incidents, Acyclic(inc.calls)
  PROVE  Reaching(OriginCandidates, Anomalous) = Anomalous
<1> DEFINE E == Reaching(OriginCandidates, Anomalous)
<1>1. OriginCandidates \in SUBSET Node /\ Anomalous \in SUBSET Node
      /\ OriginCandidates \subseteq Anomalous
  BY ObservedNodes DEF OriginCandidates
<1>2. E \subseteq Anomalous /\ OriginCandidates \subseteq E /\ Closed(E, Anomalous)
  BY <1>1, ReachingIsLeast
<1> HIDE DEF E
<1>3. SUFFICES ASSUME Anomalous \ E # {} PROVE FALSE
  BY <1>2 DEF E
<1>4. PICK n \in Anomalous \ E : \A m \in Anomalous \ E : <<n, m>> \notin inc.calls
  BY <1>1, <1>3, SinkOf
<1>5. PICK m \in Anomalous : <<n, m>> \in inc.calls
  BY <1>2, <1>4 DEF OriginCandidates
<1>6. m \in E
  BY <1>4, <1>5
<1>7. n \in Callers(m) \cap Anomalous
  BY <1>1, <1>4, <1>5 DEF Callers
<1> QED
  BY <1>2, <1>4, <1>6, <1>7 DEF Closed

(* The counterfactual of a candidate leaves the candidate unexplained if it fails. *)
LEMMA CandidateIsUnexplained ==
  ASSUME NEW c
  PROVE  Reaching(OriginCandidates \cap (Anomalous \ {c}), Anomalous \ {c})
           \subseteq Anomalous \ {c}
<1> DEFINE W == Anomalous \ {c}
           S == OriginCandidates \cap W
<1>1. W \in SUBSET Node /\ S \in SUBSET Node /\ S \subseteq W
  BY ObservedNodes
<1> HIDE DEF S, W
<1>2. Reaching(S, W) \subseteq W
  BY <1>1, ReachingIsLeast
<1> QED
  BY <1>2 DEF S, W

(* A share of nothing, of everything, and the order of two shares. *)
LEMMA NecessityOrder ==
  ASSUME NEW D \in SUBSET Anomalous, NEW E \in SUBSET Anomalous
  PROVE  /\ D = Anomalous => Necessity(D) = 0
         /\ D = {} /\ Anomalous # {} => Necessity(D) = One
         /\ D \subseteq E /\ D # E /\ Cardinality(Anomalous) <= One
              => Necessity(D) > Necessity(E)
<1> DEFINE A == Anomalous
           a == Cardinality(A)
           d == Cardinality(A \ D)
           e == Cardinality(A \ E)
<1>1. IsFiniteSet(A) /\ a \in Nat /\ (A # {} => a > 0)
  BY ObservedNodes, FiniteNodes, FS_EmptySet
<1>2. \A S \in SUBSET A : IsFiniteSet(S) /\ Cardinality(S) \in Nat /\ Cardinality(S) <= a
  BY <1>1, FS_Subset, FS_CardinalityType
<1>3. /\ A \ D \in SUBSET A /\ A \ E \in SUBSET A
      /\ IsFiniteSet(A \ D) /\ d \in Nat /\ d <= a /\ e \in Nat /\ e <= a
  BY <1>2
<1>4. A # {} => Necessity(D) = (One * d) \div a /\ Necessity(E) = (One * e) \div a
  BY DEF Necessity
<1>5. D = A => Necessity(D) = 0
  <2>1. SUFFICES ASSUME D = A, A # {} PROVE Necessity(D) = 0
    BY DEF Necessity
  <2>2. d = 0
    <3>1. A \ D = {}
      BY <2>1
    <3> QED
      BY <3>1, FS_EmptySet
  <2> HIDE DEF d, a
  <2> QED
    BY <1>1, <1>3, <1>4, <2>1, <2>2, ShareBounds
<1>6. D = {} /\ A # {} => Necessity(D) = One
  <2>1. SUFFICES ASSUME D = {}, A # {} PROVE Necessity(D) = One
    OBVIOUS
  <2>2. d = a
    <3>1. A \ D = A
      BY <2>1
    <3> QED
      BY <3>1
  <2> HIDE DEF d, a
  <2> QED
    BY <1>1, <1>3, <1>4, <2>1, <2>2, ShareBounds
<1>7. D \subseteq E /\ D # E /\ a <= One => Necessity(D) > Necessity(E)
  <2>1. SUFFICES ASSUME D \subseteq E, D # E, a <= One
                 PROVE  Necessity(D) > Necessity(E)
    OBVIOUS
  <2>2. A # {} /\ A \ E \subseteq A \ D /\ A \ E # A \ D
    BY <2>1
  <2>3. e <= d /\ e # d
    BY <1>3, <2>2, FS_Subset
  <2> HIDE DEF a, d, e
  <2>4. a > 0 /\ e < d
    BY <1>1, <1>3, <2>2, <2>3
  <2>5. (One * e) \div a < (One * d) \div a
    BY <1>1, <1>3, <2>1, <2>4, ShareIsStrict
  <2>6. (One * e) \div a \in Int /\ (One * d) \div a \in Int
    BY <1>1, <1>3, <2>4 DEF One
  <2> QED
    BY <1>4, <2>2, <2>5, <2>6
<1> QED
  BY <1>5, <1>6, <1>7

(* The counterfactual of the culprit u explains strictly less than that of its victim
   v: without v, the root that u leads to still explains u; without u, nothing that
   only v would explain is reached.  Were u not explained without v, every failing
   node that leads to v would call another that does. *)
LEMMA CulpritExplainsLess ==
  ASSUME inc \in Incidents, Acyclic(inc.calls),
         NEW u \in Anomalous, NEW v \in Anomalous,
         {m \in Anomalous : <<v, m>> \in inc.calls} = {u},
         NEW D, D = Reaching(OriginCandidates \cap (Anomalous \ {u}), Anomalous \ {u}),
         NEW E, E = Reaching(OriginCandidates \cap (Anomalous \ {v}), Anomalous \ {v})
  PROVE  D \subseteq E /\ D # E
<1> DEFINE A == Anomalous
           O == OriginCandidates
           R == Reaching({v}, A)
           Su == O \cap (A \ {u})
           Sv == O \cap (A \ {v})
           Wu == A \ {u}
           Wv == A \ {v}
<1>1. A \in SUBSET Node /\ O \subseteq A /\ v \notin O
  BY ObservedNodes DEF OriginCandidates
<1>2. u # v
  <2>1. PICK n \in {v} : \A m \in {v} : <<n, m>> \notin inc.calls
    BY <1>1, SinkOf
  <2> QED
    BY <2>1
<1>3. \A m \in A : <<v, m>> \in inc.calls <=> m = u
  OBVIOUS
<1>4. /\ Su \in SUBSET Node /\ Sv \in SUBSET Node /\ Wu \in SUBSET Node /\ Wv \in SUBSET Node
      /\ Sv \subseteq Wv /\ Sv = O /\ {v} \in SUBSET Node /\ {v} \subseteq A
  BY <1>1
<1> HIDE DEF Su, Sv, Wu, Wv
<1>5. E \in SUBSET Node /\ Sv \subseteq E /\ Closed(E, Wv) /\ E \subseteq Wv
  BY <1>4, ReachingIsLeast DEF Sv, Wv
<1>6. R \in SUBSET Node /\ {v} \subseteq R /\ Closed(R, A) /\ R \subseteq A
  BY <1>1, <1>4, ReachingIsLeast
<1>7. \A n \in R \ {v} : \E m \in R : n \in Callers(m) \cap A
  BY <1>1, <1>4, ReachingIsLeast
<1>8. D \subseteq E \ {u}
  <2> DEFINE X == E \ {u}
  <2>1. Su \subseteq X
    BY <1>4, <1>5 DEF Su
  <2>2. ASSUME NEW m \in X, NEW p \in Callers(m) \cap Wu PROVE p \in X
    <3>1. <<p, m>> \in inc.calls /\ p \in A /\ p # u /\ m \in A /\ m # u
      BY <1>5, <2>2 DEF Callers, Wu, Wv
    <3>2. p # v
      BY <1>3, <3>1
    <3>3. p \in Callers(m) \cap Wv
      BY <2>2, <3>1, <3>2 DEF Wv
    <3> QED
      BY <1>5, <3>1, <3>3 DEF Closed
  <2>3. Closed(X, Wu) /\ X \in SUBSET Node
    BY <1>5, <2>2 DEF Closed
  <2> HIDE DEF X
  <2>4. Reaching(Su, Wu) \subseteq X
    BY <1>4, <2>1, <2>3, ReachingIsLeast
  <2> QED
    BY <2>4 DEF X, Su, Wu
<1> HIDE DEF R
<1>9. u \notin R
  <2>1. SUFFICES ASSUME u \in R PROVE FALSE
    OBVIOUS
  <2>2. PICK n \in R : \A m \in R : <<n, m>> \notin inc.calls
    BY <1>6, SinkOf
  <2>3. CASE n = v
    BY <1>3, <1>6, <2>1, <2>2, <2>3
  <2>4. CASE n # v
    BY <1>7, <2>2, <2>4 DEF Callers
  <2> QED
    BY <2>3, <2>4
<1>10. A \subseteq E \cup R
  <2>1. SUFFICES ASSUME (A \ E) \ R # {} PROVE FALSE
    OBVIOUS
  <2>2. PICK n \in (A \ E) \ R : \A m \in (A \ E) \ R : <<n, m>> \notin inc.calls
    <3>1. (A \ E) \ R \in SUBSET Node
      BY <1>1
    <3> QED
      BY <2>1, <3>1, SinkOf
  <2>3. n # v /\ n \in A /\ n \notin E /\ n \notin R
    BY <1>6, <2>2
  <2>4. n \notin O
    BY <1>4, <1>5, <2>3
  <2>5. PICK m \in A : <<n, m>> \in inc.calls
    BY <2>3, <2>4 DEF OriginCandidates
  <2>6. n \in Callers(m) /\ n \in Wv
    BY <1>1, <2>3, <2>5 DEF Callers, Wv
  <2>7. m \notin E
    BY <1>5, <2>3, <2>6 DEF Closed
  <2>8. m \notin R
    BY <1>6, <2>3, <2>6 DEF Closed
  <2> QED
    BY <2>2, <2>5, <2>7, <2>8
<1>11. u \in E
  BY <1>9, <1>10
<1> QED
  BY <1>8, <1>11

(* For every acyclic graph: the only origin has full confidence, and a node that does
   not fail has none; one that fails has some, unless there are more anomalies than a
   confidence in thousandths can tell apart (CounterfactualAnalyzer). *)
THEOREM CreditIsDeserved == Spec => [](Cardinality(Anomalous) <= One => CreditMatchesGuilt)
<1>1. IInv => (Cardinality(Anomalous) <= One => CreditMatchesGuilt)
  <2> SUFFICES ASSUME IInv, Cardinality(Anomalous) <= One, pc = "done",
                      NEW i \in DOMAIN assessed
               PROVE  /\ OriginCandidates = {assessed[i].node} =>
                           assessed[i].confidence = One
                      /\ assessed[i].node \notin Anomalous => assessed[i].confidence = 0
                      /\ assessed[i].node \in Anomalous => assessed[i].confidence > 0
    BY DEF CreditMatchesGuilt
  <2> DEFINE c == assessed[i].node
             E == assessed[i].explained
  <2>1. /\ inc \in Incidents /\ Acyclic(inc.calls)
        /\ Recorded(assessed[i], c)
    BY DEF IInv, Typed, Placed, Records, Recorded
  <2>2. E = Reaching(OriginCandidates \cap (Anomalous \ {c}), Anomalous \ {c})
    BY <2>1 DEF Recorded
  <2>3. assessed[i].confidence = Necessity(E)
    BY <2>1 DEF Recorded
  <2>4. OriginCandidates \subseteq Anomalous /\ Anomalous \in SUBSET Node
    BY ObservedNodes DEF OriginCandidates
  <2> HIDE DEF c, E
  <2>5. E \subseteq Anomalous \ {c}
    BY <2>2, CandidateIsUnexplained
  <2>6. ASSUME OriginCandidates = {c} PROVE Necessity(E) = One
    <3>1. OriginCandidates \cap (Anomalous \ {c}) = {} /\ Anomalous # {}
      BY <2>4, <2>6
    <3>2. Anomalous \ {c} \in SUBSET Node
      BY <2>4
    <3>3. E = {}
      BY <2>2, <3>1, <3>2, NothingReaches
    <3> QED
      BY <3>1, <3>3, NecessityOrder
  <2>7. ASSUME c \notin Anomalous PROVE Necessity(E) = 0
    <3>1. Anomalous \ {c} = Anomalous /\ OriginCandidates \cap Anomalous = OriginCandidates
      BY <2>4, <2>7
    <3>2. E = Anomalous
      BY <2>1, <2>2, <3>1, AllAreExplained
    <3> QED
      BY <3>2, NecessityOrder
  <2>8. ASSUME c \in Anomalous PROVE Necessity(E) > 0
    <3>1. E \subseteq Anomalous /\ E # Anomalous
      BY <2>5, <2>8
    <3>2. Necessity(E) > Necessity(Anomalous) /\ Necessity(Anomalous) = 0
      BY <3>1, NecessityOrder
    <3> QED
      BY <3>2
  <2> QED
    BY <2>3, <2>6, <2>7, <2>8 DEF c
<1> QED
  BY Invariance, <1>1, PTL

(* For every acyclic graph, a failing node whose one failing callee is u has strictly
   less confidence than u, however the two walks went; the bound is again what
   thousandths can tell apart (CounterfactualAnalyzer). *)
THEOREM BlameMovesToTheOrigin ==
  Spec => [](Cardinality(Anomalous) <= One => CulpritBeatsVictim)
<1>1. IInv => (Cardinality(Anomalous) <= One => CulpritBeatsVictim)
  <2> SUFFICES ASSUME IInv, Cardinality(Anomalous) <= One, pc = "done",
                      NEW i \in DOMAIN assessed, NEW j \in DOMAIN assessed,
                      {assessed[i].node, assessed[j].node} \subseteq Anomalous,
                      {m \in Anomalous : <<assessed[j].node, m>> \in inc.calls}
                        = {assessed[i].node}
               PROVE  assessed[i].confidence > assessed[j].confidence
    BY DEF CulpritBeatsVictim
  <2> DEFINE u == assessed[i].node
             v == assessed[j].node
             D == assessed[i].explained
             E == assessed[j].explained
  <2>1. /\ inc \in Incidents /\ Acyclic(inc.calls)
        /\ Recorded(assessed[i], u) /\ Recorded(assessed[j], v)
    BY DEF IInv, Typed, Placed, Records, Recorded
  <2>2. /\ D = Reaching(OriginCandidates \cap (Anomalous \ {u}), Anomalous \ {u})
        /\ E = Reaching(OriginCandidates \cap (Anomalous \ {v}), Anomalous \ {v})
        /\ assessed[i].confidence = Necessity(D)
        /\ assessed[j].confidence = Necessity(E)
    BY <2>1 DEF Recorded
  <2>3. /\ u \in Anomalous /\ v \in Anomalous
        /\ {m \in Anomalous : <<v, m>> \in inc.calls} = {u}
    OBVIOUS
  <2> HIDE DEF u, v, D, E
  <2>4. D \subseteq E /\ D # E
    BY <2>1, <2>2, <2>3, CulpritExplainsLess
  <2>5. D \subseteq Anomalous /\ E \subseteq Anomalous
    BY <2>2, CandidateIsUnexplained
  <2>6. Necessity(D) > Necessity(E)
    BY <2>4, <2>5, NecessityOrder
  <2> QED
    BY <2>2, <2>6
<1> QED
  BY Invariance, <1>1, PTL

(* What rank_candidates returns: TopK distinct candidates or all there are, and for
   each that is listed, every candidate with a higher score listed before it. *)
BestFirst ==
  pc = "done" =>
  /\ DOMAIN ranking = 1..Least(TopK, Len(Candidates))
  /\ \A i, j \in DOMAIN ranking : ranking[i] = ranking[j] => i = j
  /\ \A i \in DOMAIN ranking : \E k \in DOMAIN assessed :
       /\ assessed[k].node = ranking[i]
       /\ \A l \in DOMAIN assessed : assessed[l].causal > assessed[k].causal =>
            \E h \in 1..i - 1 : ranking[h] = assessed[l].node

LEMMA RankIsBestFirst == IInv /\ Rank => BestFirst'
<1> SUFFICES ASSUME IInv, Rank PROVE BestFirst'
  OBVIOUS
<1> DEFINE n == Len(assessed)
           m == Least(TopK, n)
           o == Sorted
<1>1. /\ assessed \in Seq(Assessment) /\ assessed' = assessed
      /\ n \in Nat /\ DOMAIN assessed = 1..n /\ n = Len(Candidates)
  BY CausalAssumption DEF IInv, Typed, Rank
<1>2. \A i \in 1..n : /\ assessed[i].node = Candidates[i] /\ i \in DOMAIN Candidates
                      /\ assessed[i].causal \in Nat
  <2>1. \A i \in 1..n : Recorded(assessed[i], Candidates[i]) /\ assessed[i] \in Assessment
    BY <1>1 DEF IInv, Records
  <2>2. DOMAIN Candidates = 1..n
    BY <1>1, CausalAssumption
  <2> QED
    BY <2>1, <2>2 DEF Recorded, Assessment
<1>3. 1..m \subseteq 1..n /\ m \in Nat
  BY <1>1, CausalAssumption DEF Least
<1>4. o \in [1..n -> 1..n] /\ \A i, j \in 1..n : i < j => Before(o[i], o[j])
  BY <1>1, SortedExists
<1>5. DOMAIN ranking' = 1..m /\ \A i \in 1..m : ranking'[i] = assessed[o[i]].node
  BY DEF Rank
<1> HIDE DEF n, m, o
<1>6. \A i, j \in 1..n : i < j => assessed[o[i]].causal >= assessed[o[j]].causal /\ o[i] # o[j]
  <2> SUFFICES ASSUME NEW i \in 1..n, NEW j \in 1..n, i < j
               PROVE  assessed[o[i]].causal >= assessed[o[j]].causal /\ o[i] # o[j]
    OBVIOUS
  <2>1. Before(o[i], o[j]) /\ o[i] \in 1..n /\ o[j] \in 1..n
    BY <1>4
  <2>2. assessed[o[i]].causal \in Nat /\ assessed[o[j]].causal \in Nat
    BY <1>2, <2>1
  <2> QED
    BY <2>1, <2>2 DEF Before
<1>7. \A i, j \in 1..n : o[i] = o[j] => i = j
  BY <1>1, <1>6
<1>8. \A k \in 1..n : \E i \in 1..n : o[i] = k
  BY <1>1, <1>4, <1>7, InjectionIsOnto
<1>9. \A i, j \in 1..m : ranking'[i] = ranking'[j] => i = j
  <2> SUFFICES ASSUME NEW i \in 1..m, NEW j \in 1..m, ranking'[i] = ranking'[j]
               PROVE  i = j
    OBVIOUS
  <2>1. i \in 1..n /\ j \in 1..n /\ o[i] \in 1..n /\ o[j] \in 1..n
    BY <1>3, <1>4
  <2>2. Candidates[o[i]] = Candidates[o[j]]
    BY <1>2, <1>5, <2>1
  <2>3. o[i] = o[j]
    BY <1>2, <2>1, <2>2, CausalAssumption
  <2> QED
    BY <1>7, <2>1, <2>3
<1>10. ASSUME NEW i \in 1..m, NEW l \in 1..n, assessed[l].causal > assessed[o[i]].causal
       PROVE  \E h \in 1..i - 1 : ranking'[h] = assessed[l].node
  <2>1. PICK h \in 1..n : o[h] = l
    BY <1>8
  <2>2. i \in 1..n /\ o[i] \in 1..n
    BY <1>3, <1>4
  <2>3. assessed[l].causal \in Nat /\ assessed[o[i]].causal \in Nat
    BY <1>2, <2>2
  <2>4. h < i
    <3>1. h # i
      BY <1>10, <2>1, <2>3
    <3>2. ~(i < h)
      BY <1>6, <1>10, <2>1, <2>2, <2>3
    <3> QED
      BY <2>1, <2>2, <3>1, <3>2
  <2>5. h \in 1..i - 1 /\ h \in 1..m
    BY <1>3, <2>1, <2>4
  <2> QED
    BY <1>5, <2>1, <2>5
<1>11. \A i \in 1..m : o[i] \in 1..n /\ assessed[o[i]].node = ranking'[i]
  BY <1>3, <1>4, <1>5
<1>12. m = Least(TopK, Len(Candidates))
  BY <1>1 DEF m
<1> QED
  BY <1>1, <1>5, <1>9, <1>10, <1>11, <1>12 DEF BestFirst

(* For every number of candidates and every TopK, the ranking is best first: the list
   that the loop is handed leaves out no candidate that scores above one it holds
   (causal_model.py: the sort and the slice). *)
THEOREM RankingIsBestFirst == Spec => []BestFirst
<1>1. Init => BestFirst
  BY DEF Init, BestFirst
<1>2. IInv /\ BestFirst /\ [Next]_vars => BestFirst'
  <2> SUFFICES ASSUME IInv, BestFirst, [Next]_vars PROVE BestFirst'
    OBVIOUS
  <2>1. CASE Rank
    BY <2>1, RankIsBestFirst
  <2>2. CASE Start \/ Assess \/ Propagate \/ Suppose \/ SupposeOutsideGraph
             \/ Explain \/ Record
    BY <2>2 DEF BestFirst, Start, Assess, Propagate, Suppose, SupposeOutsideGraph,
                Explain, Record
  <2>3. CASE Ended \/ UNCHANGED vars
    BY <2>3 DEF BestFirst, Ended, vars
  <2> QED
    BY <2>1, <2>2, <2>3 DEF Next
<1> QED
  BY Invariance, <1>1, <1>2, PTL DEF Spec

============================================================================
