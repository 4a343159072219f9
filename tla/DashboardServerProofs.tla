------------------------ MODULE DashboardServerProofs ------------------------
(***************************************************************************)
(* What the dashboard server keeps for any clients, however many requests  *)
(* they send and however often the process is restarted: proofs about      *)
(* DashboardServer.                                                        *)
(***************************************************************************)
EXTENDS DashboardServer, FiniteSetTheorems, NaturalsInduction, WellFoundedInduction, TLAPS

Busy == IF stage = "idle" THEN 0 ELSE 1

(* A write is of one request, which is no longer waiting. *)
Counted == IsFiniteSet(inbox) /\ ticks + Cardinality(inbox) + Busy <= sent

(* No client names a record by what uuid4 has yet to make up. *)
Keyed ==
  \A request \in inbox :
    /\ request.op = "analyze" => request.key \in IncidentId \cup {NoId}
    /\ request.op \in {"get", "feedback"} => request.key \in IncidentId \cup fresh

Shaped == DOMAIN seen = DOMAIN NothingSeen

(* What clients know in this life of the process is still in the store, and what they
   are being told; no request waits that was sent knowing more. *)
KnownIsStored ==
  \A i \in Id : known[i] > 0 => i \in DOMAIN results /\ known[i] <= results[i].stamp

ToldIsStored ==
  \A reply \in replies : reply.life = restarts =>
    \A i \in DOMAIN reply.stamps : i \in DOMAIN results /\ reply.stamps[i] <= results[i].stamp

AskedOfKnown ==
  \A request \in inbox : request.life = restarts =>
    \A i \in Id : request.floor[i] <= known[i]

Typed == TypeOK /\ Counted /\ Keyed /\ Shaped

Recent ==
  /\ NothingInherited /\ AcceptedStays
  /\ KnownIsStored /\ ToldIsStored /\ AskedOfKnown
  /\ ReadsAreRecent

IInv == Typed /\ Recent

----------------------------------------------------------------------------
(* Sequences laid end to end *)

(* Counting up from nothing reaches every number. *)
LEMMA CountingUp ==
  ASSUME NEW N \in Nat, NEW S, 0 \in S, \A n \in 0..N : n \in S /\ n < N => n + 1 \in S
  PROVE  0..N \subseteq S /\ N \in S
<1> SUFFICES ASSUME ~(0..N \subseteq S) PROVE FALSE
  OBVIOUS
<1> DEFINE R == OpToRel(<, Nat)
           Missed == (0..N) \ S
<1>1. IsWellFoundedOn(R, Nat)
  BY NatLessThanWellFounded
<1>2. \A x, y \in Nat : x < y => <<x, y>> \in R
  BY DEF OpToRel
<1>3. Missed \subseteq Nat /\ Missed # {}
  OBVIOUS
<1> HIDE DEF R, Missed
<1>4. PICK m \in Missed : \A y \in Missed : <<y, m>> \notin R
  BY <1>1, <1>3, WFMin
<1>5. m \in 0..N /\ m \notin S /\ m > 0
  BY DEF Missed
<1>6. m - 1 \in 0..N /\ m - 1 \in Nat /\ m \in Nat /\ m - 1 < m /\ m - 1 < N
  BY <1>5
<1>7. m - 1 \in S
  <2>1. <<m - 1, m>> \in R
    BY <1>2, <1>6
  <2> QED BY <1>4, <1>6, <2>1 DEF Missed
<1>8. (m - 1) + 1 \in S
  BY <1>6, <1>7
<1> QED BY <1>5, <1>8

(* The function that FlattenSeq is defined with, as far as n. *)
Flattened(seqs, f, n) ==
  f = [i \in 1..n |-> IF i = 1 THEN seqs[i] ELSE f[i - 1] \o seqs[i]]

LEMMA FlattenedExists ==
  ASSUME NEW seqs, NEW N \in Nat
  PROVE  \E f : Flattened(seqs, f, N)
<1> DEFINE S == {n \in 0..N : \E f : Flattened(seqs, f, n)}
<1>1. 0 \in S
  <2>1. Flattened(seqs, [i \in 1..0 |-> 0], 0)
    BY DEF Flattened
  <2> QED BY <2>1
<1>2. ASSUME NEW n \in 0..N, n \in S, n < N PROVE n + 1 \in S
  <2>1. PICK f : Flattened(seqs, f, n)
    BY <1>2
  <2> DEFINE last == IF n = 0 THEN seqs[1] ELSE f[n] \o seqs[n + 1]
             g == [i \in 1..(n + 1) |-> IF i = n + 1 THEN last ELSE f[i]]
  <2>2. ASSUME NEW i \in 1..(n + 1)
        PROVE  g[i] = IF i = 1 THEN seqs[i] ELSE g[i - 1] \o seqs[i]
    <3>1. CASE i = n + 1
      <4>1. g[i] = last
        BY <3>1
      <4>2. i # 1 => g[i - 1] = f[n] /\ n # 0
        BY <3>1
      <4> QED BY <3>1, <4>1, <4>2
    <3>2. CASE i # n + 1
      <4>1. i \in 1..n /\ g[i] = f[i] /\ (i # 1 => g[i - 1] = f[i - 1])
        BY <3>2
      <4>2. f[i] = IF i = 1 THEN seqs[i] ELSE f[i - 1] \o seqs[i]
        BY <2>1, <4>1 DEF Flattened
      <4> QED BY <4>1, <4>2
    <3> QED BY <3>1, <3>2
  <2>3. g = [i \in 1..(n + 1) |-> g[i]]
    OBVIOUS
  <2> HIDE DEF g
  <2>4. Flattened(seqs, g, n + 1)
    BY <2>2, <2>3 DEF Flattened
  <2>5. n + 1 \in 0..N
    BY <1>2
  <2> QED BY <2>4, <2>5
<1> HIDE DEF S
<1>3. N \in S
  BY <1>1, <1>2, CountingUp
<1> QED BY <1>3 DEF S

Alike(s, t, n) == \A i \in 1..n : s[i] = t[i]

(* Where sequences begin alike, so does what is laid end to end. *)
LEMMA FlattenedAgree ==
  ASSUME NEW s, NEW t, NEW f, NEW g, NEW m \in Nat, NEW k \in Nat, NEW n \in Nat,
         n <= m, n <= k,
         Flattened(s, f, m), Flattened(t, g, k), Alike(s, t, n)
  PROVE  Alike(f, g, n)
<1> DEFINE S == {i \in 0..n : i > 0 => f[i] = g[i]}
<1>1. 0 \in S
  OBVIOUS
<1>2. ASSUME NEW i \in 0..n, i \in S, i < n PROVE i + 1 \in S
  <2>1. i + 1 \in 1..m /\ i + 1 \in 1..k /\ i + 1 \in 1..n
    BY <1>2
  <2>2. /\ f[i + 1] = IF i + 1 = 1 THEN s[i + 1] ELSE f[(i + 1) - 1] \o s[i + 1]
        /\ g[i + 1] = IF i + 1 = 1 THEN t[i + 1] ELSE g[(i + 1) - 1] \o t[i + 1]
    BY <2>1 DEF Flattened
  <2>3. s[i + 1] = t[i + 1]
    BY <2>1 DEF Alike
  <2>4. i # 0 => f[(i + 1) - 1] = g[(i + 1) - 1]
    BY <1>2
  <2> QED BY <2>1, <2>2, <2>3, <2>4
<1> HIDE DEF S
<1>3. 0..n \subseteq S
  BY <1>1, <1>2, CountingUp
<1> QED BY <1>3 DEF S, Alike

LEMMA FlattenIs ==
  ASSUME NEW seqs, Len(seqs) \in Nat, Len(seqs) # 0, NEW f, Flattened(seqs, f, Len(seqs))
  PROVE  FlattenSeq(seqs) = f[Len(seqs)]
<1> DEFINE g == CHOOSE g : g = [i \in 1..Len(seqs) |-> IF i = 1 THEN seqs[i] ELSE g[i - 1] \o seqs[i]]
<1>1. Flattened(seqs, g, Len(seqs))
  BY DEF Flattened
<1>2. FlattenSeq(seqs) = g[Len(seqs)]
  BY DEF FlattenSeq
<1> HIDE DEF g
<1>3. g[Len(seqs)] = f[Len(seqs)]
  <2> DEFINE n == Len(seqs)
  <2>1. n \in Nat /\ n <= n /\ n \in 1..n /\ Alike(seqs, seqs, n)
    BY DEF Alike
  <2>2. Flattened(seqs, g, n) /\ Flattened(seqs, f, n)
    BY <1>1
  <2> HIDE DEF n
  <2>3. Alike(g, f, n)
    BY <2>1, <2>2, FlattenedAgree
  <2>4. g[n] = f[n]
    BY <2>1, <2>3 DEF Alike
  <2> QED BY <2>4 DEF n
<1> QED BY <1>2, <1>3

LEMMA FlattenEmpty == FlattenSeq(<<>>) = <<>>
BY DEF FlattenSeq

LEMMA FlattenType ==
  ASSUME NEW X, NEW s \in Seq(Seq(X))
  PROVE  FlattenSeq(s) \in Seq(X)
<1>1. CASE Len(s) = 0
  BY <1>1 DEF FlattenSeq
<1>2. CASE Len(s) # 0
  <2> DEFINE N == Len(s)
  <2>1. N \in Nat /\ N # 0 /\ \A n \in 1..N : s[n] \in Seq(X)
    BY <1>2
  <2> HIDE DEF N
  <2>2. PICK f : Flattened(s, f, N)
    BY <2>1, FlattenedExists
  <2> DEFINE S == {n \in 0..N : n > 0 => f[n] \in Seq(X)}
  <2>3. 0 \in S
    BY <2>1
  <2>4. ASSUME NEW n \in 0..N, n \in S, n < N PROVE n + 1 \in S
    <3>1. n + 1 \in 1..N /\ n + 1 \in 0..N /\ s[n + 1] \in Seq(X) /\ (n + 1) - 1 = n
      BY <2>1, <2>4
    <3>2. f[n + 1] = IF n + 1 = 1 THEN s[n + 1] ELSE f[(n + 1) - 1] \o s[n + 1]
      BY <2>2, <3>1 DEF Flattened
    <3>3. n # 0 => f[n] \in Seq(X)
      BY <2>1, <2>4
    <3>4. f[n + 1] \in Seq(X)
      BY <3>1, <3>2, <3>3
    <3> QED BY <3>1, <3>4
  <2> HIDE DEF S
  <2>5. N \in S
    BY <2>1, <2>3, <2>4, CountingUp
  <2>6. f[N] \in Seq(X)
    BY <2>1, <2>5 DEF S
  <2>7. FlattenSeq(s) = f[N]
    BY <2>1, <2>2, FlattenIs DEF N
  <2> QED BY <2>6, <2>7
<1> QED BY <1>1, <1>2

LEMMA FlattenAppend ==
  ASSUME NEW X, NEW s \in Seq(Seq(X)), NEW x \in Seq(X)
  PROVE  FlattenSeq(Append(s, x)) = FlattenSeq(s) \o x
<1> DEFINE t == Append(s, x)
           n == Len(s)
<1>1. /\ t \in Seq(Seq(X)) /\ Len(t) = n + 1 /\ n \in Nat
      /\ t[n + 1] = x /\ \A i \in 1..n : s[i] = t[i]
      /\ n + 1 \in Nat /\ n + 1 # 0 /\ n + 1 \in 1..(n + 1) /\ (n + 1) - 1 = n
      /\ n <= n /\ n <= n + 1 /\ Len(s) = n
  OBVIOUS
<1> HIDE DEF t, n
<1>2. PICK g : Flattened(t, g, n + 1)
  BY <1>1, FlattenedExists
<1>3. FlattenSeq(t) = g[n + 1]
  BY <1>1, <1>2, FlattenIs
<1>4. g[n + 1] = IF n + 1 = 1 THEN t[n + 1] ELSE g[(n + 1) - 1] \o t[n + 1]
  BY <1>1, <1>2 DEF Flattened
<1>5. CASE n = 0
  <2>1. s = <<>> /\ FlattenSeq(s) = <<>>
    BY <1>1, <1>5, FlattenEmpty
  <2>2. <<>> \o x = x
    OBVIOUS
  <2> QED BY <1>1, <1>3, <1>4, <1>5, <2>1, <2>2 DEF t
<1>6. CASE n # 0
  <2>1. PICK f : Flattened(s, f, n)
    BY <1>1, FlattenedExists
  <2>2. f[n] = g[n]
    <3>1. Alike(s, t, n)
      BY <1>1 DEF Alike
    <3>2. Alike(f, g, n)
      BY <1>1, <1>2, <2>1, <3>1, FlattenedAgree
    <3>3. n \in 1..n
      BY <1>1, <1>6
    <3> QED BY <3>2, <3>3 DEF Alike
  <2>3. FlattenSeq(s) = f[n]
    BY <1>1, <1>6, <2>1, FlattenIs
  <2>4. g[n + 1] = g[n] \o x
    <3>1. n + 1 # 1 /\ (n + 1) - 1 = n /\ t[n + 1] = x
      BY <1>1, <1>6
    <3> QED BY <1>4, <3>1
  <2>5. FlattenSeq(t) = FlattenSeq(s) \o x
    BY <1>3, <2>2, <2>3, <2>4
  <2> QED BY <2>5 DEF t
<1> QED BY <1>5, <1>6

(* The first n elements, and one more. *)
Beginning(s, n) == [i \in 1..n |-> s[i]]

LEMMA BeginningFacts ==
  ASSUME NEW X, NEW s \in Seq(X)
  PROVE  /\ Beginning(s, 0) = <<>> /\ Beginning(s, Len(s)) = s
         /\ \A n \in 0..Len(s) : Beginning(s, n) \in Seq(X) /\ Len(Beginning(s, n)) = n
         /\ \A n \in 0..Len(s) : n < Len(s) =>
              Beginning(s, n + 1) = Append(Beginning(s, n), s[n + 1])
<1>1. Beginning(s, 0) = <<>>
  BY DEF Beginning
<1>2. Beginning(s, Len(s)) = s
  BY DEF Beginning
<1>3. ASSUME NEW n \in 0..Len(s)
      PROVE  Beginning(s, n) \in Seq(X) /\ Len(Beginning(s, n)) = n
  BY DEF Beginning
<1>4. ASSUME NEW n \in 0..Len(s), n < Len(s)
      PROVE  Beginning(s, n + 1) = Append(Beginning(s, n), s[n + 1])
  <2> DEFINE a == Beginning(s, n + 1)
             b == Append(Beginning(s, n), s[n + 1])
  <2>1. s[n + 1] \in X /\ n + 1 \in 0..Len(s)
    BY <1>4
  <2>2. a \in Seq(X) /\ b \in Seq(X) /\ Len(a) = n + 1 /\ Len(b) = n + 1
    BY <1>3, <2>1
  <2>3. ASSUME NEW i \in 1..(n + 1) PROVE a[i] = b[i]
    <3>1. a[i] = s[i]
      BY DEF Beginning
    <3>2. CASE i = n + 1
      BY <1>3, <3>1, <3>2
    <3>3. CASE i # n + 1
      <4>1. i \in 1..n /\ b[i] = Beginning(s, n)[i]
        BY <1>3, <2>1, <3>3
      <4> QED BY <3>1, <4>1 DEF Beginning
    <3> QED BY <3>2, <3>3
  <2> HIDE DEF a, b
  <2>4. a = b
    BY <2>2, <2>3
  <2> QED BY <2>4 DEF a, b
<1> QED BY <1>1, <1>2, <1>3, <1>4

(* One element each, end to end, are the sequence itself. *)
LEMMA FlattenSingles ==
  ASSUME NEW X, NEW s \in Seq(X)
  PROVE  FlattenSeq([i \in DOMAIN s |-> <<s[i]>>]) = s
<1> DEFINE t == [i \in DOMAIN s |-> <<s[i]>>]
           N == Len(s)
           S == {n \in 0..N : FlattenSeq(Beginning(t, n)) = Beginning(s, n)}
<1>1. t \in Seq(Seq(X)) /\ Len(t) = N /\ N \in Nat /\ \A i \in 1..N : t[i] = <<s[i]>>
  <2>1. N \in Nat /\ DOMAIN s = 1..N /\ \A i \in 1..N : s[i] \in X
    OBVIOUS
  <2>2. \A i \in 1..N : <<s[i]>> \in Seq(X)
    BY <2>1
  <2>3. t = [i \in 1..N |-> <<s[i]>>]
    BY <2>1
  <2> HIDE DEF t, N
  <2>4. t \in Seq(Seq(X)) /\ Len(t) = N
    BY <2>1, <2>2, <2>3
  <2> QED BY <2>1, <2>3, <2>4
<1>2. Len(s) = N /\ \A i \in 1..N : s[i] \in X
  OBVIOUS
<1> HIDE DEF t, N
<1>3. 0 \in S
  BY <1>1, BeginningFacts, FlattenEmpty
<1>4. ASSUME NEW n \in 0..N, n \in S, n < N PROVE n + 1 \in S
  <2>1. /\ Beginning(t, n) \in Seq(Seq(X)) /\ Beginning(s, n) \in Seq(X)
        /\ Beginning(t, n + 1) = Append(Beginning(t, n), t[n + 1])
        /\ Beginning(s, n + 1) = Append(Beginning(s, n), s[n + 1])
    BY <1>1, <1>2, <1>4, BeginningFacts
  <2>2. /\ n + 1 \in 1..N /\ n + 1 \in 0..N
        /\ t[n + 1] = <<s[n + 1]>> /\ s[n + 1] \in X /\ t[n + 1] \in Seq(X)
    BY <1>1, <1>2, <1>4
  <2>3. FlattenSeq(Beginning(t, n + 1)) = FlattenSeq(Beginning(t, n)) \o t[n + 1]
    BY <2>1, <2>2, FlattenAppend
  <2>4. FlattenSeq(Beginning(t, n)) = Beginning(s, n)
    BY <1>4
  <2>5. Beginning(s, n) \o <<s[n + 1]>> = Append(Beginning(s, n), s[n + 1])
    BY <2>1, <2>2
  <2> QED BY <2>1, <2>2, <2>3, <2>4, <2>5
<1> HIDE DEF S
<1>5. N \in S
  BY <1>1, <1>3, <1>4, CountingUp
<1>6. FlattenSeq(Beginning(t, N)) = Beginning(s, N)
  BY <1>5 DEF S
<1>7. Beginning(t, N) = t /\ Beginning(s, N) = s
  BY <1>1, <1>2, BeginningFacts
<1> QED BY <1>6, <1>7 DEF t

(* What is left of s when only the good are kept. *)
Left(s, good) == FlattenSeq([i \in DOMAIN s |-> IF s[i] \in good THEN <<s[i]>> ELSE <<>>])

LEMMA LeftType ==
  ASSUME NEW X, NEW good, NEW s \in Seq(X)
  PROVE  Left(s, good) \in Seq(X \cap good)
<1> DEFINE t == [i \in DOMAIN s |-> IF s[i] \in good THEN <<s[i]>> ELSE <<>>]
<1>1. Len(s) \in Nat /\ DOMAIN s = 1..Len(s) /\ \A i \in 1..Len(s) : s[i] \in X
  OBVIOUS
<1>2. ASSUME NEW i \in 1..Len(s) PROVE t[i] \in Seq(X \cap good)
  <2>1. s[i] \in good => <<s[i]>> \in Seq(X \cap good)
    BY <1>1
  <2>2. <<>> \in Seq(X \cap good)
    OBVIOUS
  <2>3. t[i] = IF s[i] \in good THEN <<s[i]>> ELSE <<>>
    BY <1>1
  <2> QED BY <2>1, <2>2, <2>3
<1>3. t \in Seq(Seq(X \cap good))
  <2>1. t = [i \in 1..Len(s) |-> t[i]]
    BY <1>1
  <2> HIDE DEF t
  <2> QED BY <1>1, <1>2, <2>1
<1> HIDE DEF t
<1>4. FlattenSeq(t) \in Seq(X \cap good)
  BY <1>3, FlattenType
<1> QED BY <1>4 DEF Left, t

LEMMA LeftIsAll ==
  ASSUME NEW X, NEW good, NEW s \in Seq(X \cap good)
  PROVE  Left(s, good) = s
<1>1. \A i \in DOMAIN s : s[i] \in good
  OBVIOUS
<1>2. [i \in DOMAIN s |-> IF s[i] \in good THEN <<s[i]>> ELSE <<>>] = [i \in DOMAIN s |-> <<s[i]>>]
  BY <1>1
<1> QED BY <1>2, FlattenSingles DEF Left

(* What T makes of the elements, laid end to end. *)
Laid(T, s) == FlattenSeq([i \in DOMAIN s |-> T[s[i]]])

(* What adds nothing may as well be left out. *)
LEMMA LeftOutAddsNothing ==
  ASSUME NEW R, NEW X, NEW good, NEW T \in [R -> Seq(X)], NEW s \in Seq(R),
         \A r \in R : r \notin good => T[r] = <<>>
  PROVE  Laid(T, s) = Laid(T, Left(s, good))
<1> DEFINE a == [i \in DOMAIN s |-> T[s[i]]]
           b == [i \in DOMAIN s |-> IF s[i] \in good THEN <<s[i]>> ELSE <<>>]
           Through(w) == [i \in DOMAIN w |-> T[w[i]]]
           N == Len(s)
           S == {n \in 0..N : FlattenSeq(Beginning(a, n)) = FlattenSeq(Through(FlattenSeq(Beginning(b, n))))}
<1>1. N \in Nat /\ DOMAIN s = 1..N /\ \A i \in 1..N : s[i] \in R /\ T[s[i]] \in Seq(X)
  <2>1. N \in Nat /\ DOMAIN s = 1..N /\ \A i \in 1..N : s[i] \in R
    OBVIOUS
  <2> QED BY <2>1
<1>2. a \in Seq(Seq(X)) /\ Len(a) = N /\ \A i \in 1..N : a[i] = T[s[i]]
  BY <1>1
<1>3. b \in Seq(Seq(R)) /\ Len(b) = N
      /\ \A i \in 1..N : b[i] = IF s[i] \in good THEN <<s[i]>> ELSE <<>>
  <2>1. \A i \in 1..N : b[i] \in Seq(R)
    BY <1>1
  <2>2. b = [i \in 1..N |-> b[i]] /\ \A i \in 1..N : b[i] = IF s[i] \in good THEN <<s[i]>> ELSE <<>>
    BY <1>1
  <2> HIDE DEF b
  <2> QED BY <1>1, <2>1, <2>2
<1> HIDE DEF a, b
<1>4. ASSUME NEW w \in Seq(R)
      PROVE  Through(w) \in Seq(Seq(X))
  <2>1. Len(w) \in Nat /\ DOMAIN w = 1..Len(w) /\ \A i \in 1..Len(w) : w[i] \in R
    OBVIOUS
  <2>2. \A i \in 1..Len(w) : T[w[i]] \in Seq(X)
    BY <2>1
  <2> QED BY <2>1, <2>2
<1>5. ASSUME NEW w \in Seq(R), NEW r \in R
      PROVE  Through(Append(w, r)) = Append(Through(w), T[r])
  <2> DEFINE v == Append(w, r)
  <2>1. /\ Len(w) \in Nat /\ DOMAIN w = 1..Len(w) /\ v \in Seq(R)
        /\ DOMAIN v = 1..(Len(w) + 1) /\ v[Len(w) + 1] = r
        /\ \A i \in 1..Len(w) : v[i] = w[i]
    OBVIOUS
  <2>2. Through(w) \in Seq(Seq(X)) /\ Len(Through(w)) = Len(w) /\ T[r] \in Seq(X)
    BY <1>4, <2>1
  <2>3. \A i \in 1..Len(w) : Through(w)[i] = T[w[i]]
    BY <2>1
  <2> HIDE DEF v
  <2>4. /\ DOMAIN Through(v) = 1..(Len(w) + 1)
        /\ \A i \in 1..(Len(w) + 1) : Through(v)[i] = T[v[i]]
        /\ Through(v) \in Seq(Seq(X))
    BY <1>4, <2>1
  <2> HIDE DEF Through
  <2> DEFINE u == Append(Through(w), T[r])
  <2>5. /\ u \in Seq(Seq(X)) /\ Len(u) = Len(w) + 1 /\ u[Len(w) + 1] = T[r]
        /\ \A i \in 1..Len(w) : u[i] = Through(w)[i]
    BY <2>1, <2>2
  <2>6. Len(Through(v)) = Len(w) + 1
    BY <2>1, <2>4
  <2>7. ASSUME NEW i \in 1..(Len(w) + 1) PROVE Through(v)[i] = u[i]
    <3> HIDE DEF u
    <3>1. Through(v)[i] = T[v[i]]
      BY <2>4
    <3>2. CASE i = Len(w) + 1
      BY <2>1, <2>5, <3>1, <3>2
    <3>3. CASE i # Len(w) + 1
      <4>1. i \in 1..Len(w)
        BY <2>1, <3>3
      <4> QED BY <2>1, <2>3, <2>5, <3>1, <4>1
    <3> QED BY <3>2, <3>3
  <2> HIDE DEF u
  <2>8. Through(v) = u
    BY <2>4, <2>5, <2>6, <2>7
  <2> QED BY <2>8 DEF u, v
<1>6. 0 \in S
  <2>1. Beginning(a, 0) = <<>> /\ Beginning(b, 0) = <<>>
    BY <1>2, <1>3, BeginningFacts
  <2>2. Through(<<>>) = <<>>
    OBVIOUS
  <2> HIDE DEF Through
  <2> QED BY <1>1, <2>1, <2>2, FlattenEmpty
<1>7. ASSUME NEW n \in 0..N, n \in S, n < N PROVE n + 1 \in S
  <2>1. /\ Beginning(a, n) \in Seq(Seq(X)) /\ Beginning(b, n) \in Seq(Seq(R))
        /\ Beginning(a, n + 1) = Append(Beginning(a, n), a[n + 1])
        /\ Beginning(b, n + 1) = Append(Beginning(b, n), b[n + 1])
    BY <1>2, <1>3, <1>7, BeginningFacts
  <2>2. /\ n + 1 \in 1..N /\ n + 1 \in 0..N
        /\ a[n + 1] = T[s[n + 1]] /\ s[n + 1] \in R /\ T[s[n + 1]] \in Seq(X)
        /\ b[n + 1] = IF s[n + 1] \in good THEN <<s[n + 1]>> ELSE <<>>
    BY <1>1, <1>2, <1>3, <1>7
  <2> DEFINE w == FlattenSeq(Beginning(b, n))
  <2>3. w \in Seq(R)
    BY <2>1, FlattenType
  <2>4. FlattenSeq(Beginning(a, n)) = FlattenSeq(Through(w)) /\ FlattenSeq(Beginning(a, n)) \in Seq(X)
    BY <1>7, <2>1, FlattenType
  <2>5. FlattenSeq(Beginning(a, n + 1)) = FlattenSeq(Through(w)) \o T[s[n + 1]]
    BY <2>1, <2>2, <2>4, FlattenAppend
  <2>6. FlattenSeq(Beginning(b, n + 1)) = w \o b[n + 1]
    <3>1. b[n + 1] \in Seq(R)
      BY <2>2
    <3> QED BY <2>1, <3>1, FlattenAppend
  <2> HIDE DEF w
  <2>7. CASE s[n + 1] \in good
    <3>1. FlattenSeq(Beginning(b, n + 1)) = Append(w, s[n + 1])
      BY <2>2, <2>3, <2>6, <2>7
    <3>2. Through(Append(w, s[n + 1])) = Append(Through(w), T[s[n + 1]]) /\ Through(w) \in Seq(Seq(X))
      BY <1>4, <1>5, <2>2, <2>3
    <3> HIDE DEF Through
    <3>3. FlattenSeq(Through(Append(w, s[n + 1]))) = FlattenSeq(Through(w)) \o T[s[n + 1]]
      BY <2>2, <3>2, FlattenAppend
    <3> QED BY <2>2, <2>5, <3>1, <3>3
  <2>8. CASE s[n + 1] \notin good
    <3>1. FlattenSeq(Beginning(b, n + 1)) = w
      <4>1. b[n + 1] = <<>>
        BY <2>2, <2>8
      <4>2. w \o <<>> = w
        BY <2>3
      <4> QED BY <2>6, <4>1, <4>2
    <3>2. T[s[n + 1]] = <<>>
      BY <2>2, <2>8
    <3>3. FlattenSeq(Through(w)) \in Seq(X)
      BY <2>4
    <3> HIDE DEF Through
    <3>4. FlattenSeq(Through(w)) \o <<>> = FlattenSeq(Through(w))
      BY <3>3
    <3> QED BY <2>2, <2>5, <3>1, <3>2, <3>4
  <2> QED BY <2>7, <2>8
<1>8. N \in S
  <2> HIDE DEF S, N
  <2> QED BY <1>1, <1>6, <1>7, CountingUp
<1>9. Beginning(a, N) = a /\ Beginning(b, N) = b
  BY <1>2, <1>3, BeginningFacts
<1>10. Left(s, good) = FlattenSeq(b)
  BY DEF Left, b
<1>11. Laid(T, s) = FlattenSeq(a) /\ Laid(T, Left(s, good)) = FlattenSeq(Through(Left(s, good)))
  BY DEF Laid, a
<1> HIDE DEF Through
<1> QED BY <1>8, <1>9, <1>10, <1>11

----------------------------------------------------------------------------
USE ServerAssumption

----------------------------------------------------------------------------
(* Types *)

LEMMA InitInv == Init => IInv
<1> SUFFICES ASSUME Init PROVE IInv
  OBVIOUS
<1> USE DEF Init
<1>1. offer.requests \in Nat
  OBVIOUS
<1>2. Unknown \in [Id -> Version] /\ \A i \in Id : Unknown[i] = 0
  BY DEF Unknown, Version
<1>3. DOMAIN results = {}
  OBVIOUS
<1>4. TypeOK
  BY <1>1, <1>2, <1>3 DEF TypeOK, Idle
<1>5. Counted
  BY FS_EmptySet DEF Counted, Busy
<1>6. Keyed /\ Shaped /\ NothingInherited /\ AcceptedStays /\ ToldIsStored /\ AskedOfKnown
      /\ ReadsAreRecent
  BY <1>3 DEF Keyed, Shaped, NothingInherited, AcceptedStays, ToldIsStored, AskedOfKnown,
              ReadsAreRecent
<1>7. KnownIsStored
  BY <1>2 DEF KnownIsStored
<1> QED BY <1>4, <1>5, <1>6, <1>7 DEF IInv, Typed, Recent

LEMMA Numbers ==
  ASSUME TypeOK
  PROVE  /\ ticks \in Nat /\ sent \in Nat /\ restarts \in Nat /\ offer.requests \in Nat
         /\ ticks <= sent /\ sent <= offer.requests
         /\ Version \subseteq Nat /\ known \in [Id -> Nat]
         /\ \A i \in DOMAIN results : results[i].stamp \in Nat /\ results[i].stamp <= ticks
<1>1. ticks \in Nat /\ sent \in Nat /\ restarts \in Nat /\ offer.requests \in Nat
      /\ ticks <= sent /\ sent <= offer.requests
  BY DEF TypeOK
<1>2. Version \subseteq Nat
  BY <1>1 DEF Version
<1>3. known \in [Id -> Nat]
  BY <1>2 DEF TypeOK
<1>4. \A i \in DOMAIN results : results[i].stamp \in 1..ticks
  BY DEF TypeOK
<1> QED BY <1>1, <1>2, <1>3, <1>4

(* What has been written, asked and answered stays so when the counters go up. *)
LEMMA Growth ==
  ASSUME TypeOK, offer' = offer, ticks' \in Nat, sent' \in Nat, restarts' \in Nat,
         ticks <= ticks', sent <= sent', restarts <= restarts'
  PROVE  /\ Version \subseteq Version' /\ Request \subseteq Request'
         /\ AnAnswer \subseteq AnAnswer'
<1>1. ticks \in Nat /\ sent \in Nat /\ restarts \in Nat
  BY Numbers
<1>2. Version \subseteq Version'
  BY <1>1 DEF Version
<1>3. 1..sent \subseteq 1..sent' /\ 0..restarts \subseteq 0..restarts'
  BY <1>1
<1>4. [Id -> Version] \subseteq [Id -> Version']
  BY <1>2
<1>5. Request \subseteq Request'
  BY <1>3, <1>4 DEF Request
<1>6. StampsOf(Id) \subseteq StampsOf(Id)'
  BY <1>2 DEF StampsOf
<1>7. AnAnswer \subseteq AnAnswer'
  BY <1>3, <1>5, <1>6 DEF AnAnswer
<1> QED BY <1>2, <1>5, <1>7

(* What Reply makes of a request. *)
LEMMA ReplyIsAnswer ==
  ASSUME TypeOK, NEW request \in Request, NEW status \in {200, 404, 500},
         NEW stamps \in StampsOf(Id)
  PROVE  /\ Reply(request, status, stamps) \in AnAnswer
         /\ Reply(request, status, stamps).to.op = request.op
         /\ Reply(request, status, stamps).to.key = request.key
         /\ Reply(request, status, stamps).to.floor = request.floor
         /\ Reply(request, status, stamps).to.life = request.life
         /\ Reply(request, status, stamps).status = status
         /\ Reply(request, status, stamps).stamps = stamps
         /\ Reply(request, status, stamps).life = restarts
<1>1. restarts \in 0..restarts
  BY Numbers
<1> DEFINE to == [request EXCEPT !.payload = NoPayload]
<1>2. /\ to \in Request /\ to.op = request.op /\ to.key = request.key
      /\ to.floor = request.floor /\ to.life = request.life
  <2> HIDE DEF NoPayload
  <2> QED BY DEF Request
<1> HIDE DEF to
<1> DEFINE reply == [to |-> to, status |-> status, stamps |-> stamps, life |-> restarts]
<1>3. reply \in AnAnswer
  BY <1>1, <1>2 DEF AnAnswer
<1>4. Reply(request, status, stamps) = reply
  BY DEF Reply, to
<1> HIDE DEF to
<1> QED BY <1>2, <1>3, <1>4

LEMMA NoStampsAreStamps ==
  NoStamps \in StampsOf(Id) /\ DOMAIN NoStamps = {}
<1>1. NoStamps \in [{} -> Version] /\ DOMAIN NoStamps = {}
  BY DEF NoStamps
<1> QED BY <1>1 DEF StampsOf

LEMMA StampsOfOne ==
  ASSUME NEW i \in Id, NEW n \in Version
  PROVE  [j \in {i} |-> n] \in StampsOf(Id)
<1>1. [j \in {i} |-> n] \in [{i} -> Version] /\ {i} \in SUBSET Id
  OBVIOUS
<1> QED BY <1>1 DEF StampsOf

----------------------------------------------------------------------------
(* Types are kept *)

LEMMA SendTyped ==
  ASSUME Typed, NEW op, NEW key, NEW payload, Send(op, key, payload),
         op \in {"analyze", "get", "feedback", "list"}, key \in Id \cup {NoId},
         payload \in offer.payloads \cup {NoPayload},
         op = "analyze" => key \in IncidentId \cup {NoId},
         op \in {"get", "feedback"} => key \in IncidentId \cup fresh
  PROVE  Typed'
<1> DEFINE request == [n |-> sent + 1, op |-> op, key |-> key, payload |-> payload,
                       floor |-> known, life |-> restarts]
<1>1. /\ sent < offer.requests /\ sent' = sent + 1 /\ inbox' = inbox \cup {request}
      /\ UNCHANGED <<results, replies, stage, serving, id, seen, ticks, known, offer,
                     restarts, fresh>>
  BY DEF Send, analysis
<1>2. TypeOK /\ Counted /\ Keyed /\ Shaped
  BY DEF Typed
<1>3. /\ ticks \in Nat /\ sent \in Nat /\ restarts \in Nat /\ offer.requests \in Nat
      /\ ticks <= sent
  BY <1>2, Numbers
<1>4. Request \subseteq Request' /\ AnAnswer \subseteq AnAnswer' /\ Version \subseteq Version'
  BY <1>1, <1>2, <1>3, Growth
<1>5. request.op = op /\ request.key = key
  OBVIOUS
<1>6. request \in Request'
  <2>1. known \in [Id -> Version'] /\ sent + 1 \in 1..sent' /\ restarts \in 0..restarts'
    BY <1>1, <1>2, <1>3 DEF TypeOK, Version
  <2> QED BY <1>1, <2>1 DEF Request
<1> HIDE DEF request
<1>7. TypeOK'
  <2>1. inbox' \subseteq Request' /\ replies' \subseteq AnAnswer' /\ known' \in [Id -> Version']
    BY <1>1, <1>2, <1>4, <1>6 DEF TypeOK
  <2>2. ticks' \in 0..sent' /\ sent' \in 0..offer'.requests /\ restarts' \in 0..MaxRestarts
    BY <1>1, <1>2, <1>3 DEF TypeOK
  <2>3. stage' # "idle" => serving' \in Request'
    BY <1>1, <1>2, <1>4 DEF TypeOK
  <2>4. \A i \in DOMAIN results' : results'[i] \in [analyzed_at : 1..ticks', stamp : 1..ticks', feedback : Version']
    BY <1>1, <1>2 DEF TypeOK, Version
  <2> QED BY <1>1, <1>2, <2>1, <2>2, <2>3, <2>4 DEF TypeOK
<1>8. Counted'
  <2>1. IsFiniteSet(inbox') /\ Cardinality(inbox') <= Cardinality(inbox) + 1
        /\ Cardinality(inbox) \in Nat /\ Cardinality(inbox') \in Nat
    <3>1. IsFiniteSet(inbox)
      BY <1>2 DEF Counted
    <3>2. IsFiniteSet(inbox') /\ Cardinality(inbox') =
            IF request \in inbox THEN Cardinality(inbox) ELSE Cardinality(inbox) + 1
      BY <1>1, <3>1, FS_AddElement
    <3>3. Cardinality(inbox) \in Nat
      BY <3>1, FS_CardinalityType
    <3> QED BY <3>2, <3>3
  <2> QED BY <1>1, <1>2, <1>3, <2>1 DEF Counted, Busy
<1>9. Keyed' /\ Shaped'
  BY <1>1, <1>2, <1>5 DEF Keyed, Shaped
<1> QED BY <1>7, <1>8, <1>9 DEF Typed

LEMMA SendAnalyzeTyped == ASSUME Typed, SendAnalyze PROVE Typed'
<1>1. PICK key \in IncidentId \cup {NoId}, payload \in offer.payloads :
        Send("analyze", key, payload)
  BY DEF SendAnalyze
<1> QED BY <1>1, SendTyped DEF Id

LEMMA SendQueryTyped == ASSUME Typed, SendQuery PROVE Typed'
<1>1. IncidentId \cup fresh \subseteq Id
  BY DEF Typed, TypeOK, Id
<1>2. CASE Send("list", NoId, NoPayload)
  BY <1>2, SendTyped
<1>3. ASSUME NEW key \in IncidentId \cup fresh, NEW op \in {"get", "feedback"},
             Send(op, key, NoPayload)
      PROVE  Typed'
  BY <1>1, <1>3, SendTyped
<1> QED BY <1>2, <1>3 DEF SendQuery

(* What an answer says of an incident is the number of a write. *)
LEMMA StampsAreVersions ==
  ASSUME NEW reply \in AnAnswer
  PROVE  \A i \in DOMAIN reply.stamps : i \in Id /\ reply.stamps[i] \in Version
<1>1. PICK T \in SUBSET Id : reply.stamps \in [T -> Version]
  BY DEF AnAnswer, StampsOf
<1> QED BY <1>1

LEMMA DeliverTyped == ASSUME Typed, NEW reply \in replies, Deliver(reply) PROVE Typed'
<1>1. /\ replies' \subseteq replies
      /\ UNCHANGED <<results, inbox, stage, serving, id, seen, ticks, offer, sent, restarts, fresh>>
  BY DEF Deliver, analysis, counters
<1>2. TypeOK /\ Counted /\ Keyed /\ Shaped /\ reply \in AnAnswer
  BY DEF Typed, TypeOK
<1>3. /\ Version' = Version /\ Request' = Request /\ AnAnswer' = AnAnswer
      /\ known \in [Id -> Version]
  BY <1>1, <1>2 DEF Version, Request, AnAnswer, StampsOf, TypeOK
<1>4. known' \in [Id -> Version]
  <2>1. CASE reply.life # restarts
    BY <1>3, <2>1 DEF Deliver
  <2>2. CASE reply.life = restarts
    <3>1. known' = [i \in Id |-> IF i \in DOMAIN reply.stamps /\ reply.stamps[i] > known[i]
                                 THEN reply.stamps[i] ELSE known[i]]
      BY <2>2 DEF Deliver
    <3> QED BY <1>2, <1>3, <3>1, StampsAreVersions
  <2> QED BY <2>1, <2>2
<1>5. TypeOK'
  BY <1>1, <1>2, <1>3, <1>4 DEF TypeOK
<1> QED BY <1>1, <1>2, <1>5 DEF Typed, Counted, Busy, Keyed, Shaped

(* Fewer requests to wait for. *)
LEMMA FewerRequests ==
  ASSUME Counted, NEW request \in inbox, inbox' = inbox \ {request}
  PROVE  /\ IsFiniteSet(inbox') /\ Cardinality(inbox) \in Nat /\ Cardinality(inbox') \in Nat
         /\ Cardinality(inbox') = Cardinality(inbox) - 1
<1>1. IsFiniteSet(inbox)
  BY DEF Counted
<1> QED BY <1>1, FS_RemoveElement, FS_CardinalityType

LEMMA LoseTyped == ASSUME Typed, Lose PROVE Typed'
<1>1. /\ inbox' \subseteq inbox /\ replies' \subseteq replies
      /\ UNCHANGED <<results, stage, serving, id, seen, ticks, known, offer, sent, restarts, fresh>>
  BY DEF Lose, analysis, counters
<1>2. TypeOK /\ Counted /\ Keyed /\ Shaped
  BY DEF Typed
<1>3. Version' = Version /\ Request' = Request /\ AnAnswer' = AnAnswer
  BY <1>1 DEF Version, Request, AnAnswer, StampsOf
<1>4. TypeOK'
  BY <1>1, <1>2, <1>3 DEF TypeOK
<1>5. Counted'
  <2>1. CASE inbox' = inbox
    BY <1>1, <1>2, <2>1 DEF Counted, Busy
  <2>2. ASSUME NEW request \in inbox, inbox' = inbox \ {request}
        PROVE  Counted'
    <3>1. /\ IsFiniteSet(inbox') /\ Cardinality(inbox) \in Nat /\ Cardinality(inbox') \in Nat
          /\ Cardinality(inbox') = Cardinality(inbox) - 1
      BY <1>2, <2>2, FewerRequests
    <3>2. ticks \in Nat /\ sent \in Nat
      BY <1>2, Numbers
    <3> QED BY <1>1, <1>2, <3>1, <3>2 DEF Counted, Busy
  <2> QED BY <2>1, <2>2 DEF Lose
<1> QED BY <1>1, <1>2, <1>4, <1>5 DEF Typed, Keyed, Shaped

LEMMA AcceptTyped == ASSUME Typed, NEW request \in inbox, Accept(request) PROVE Typed'
<1>1. /\ stage = "idle" /\ stage' = "ingest" /\ request.op = "analyze"
      /\ inbox' = inbox \ {request} /\ serving' = request
      /\ UNCHANGED <<results, replies, seen, ticks, known, offer, sent, restarts>>
  BY DEF Accept
<1>2. /\ TypeOK /\ Counted /\ Keyed /\ Shaped /\ request \in Request
      /\ request.key \in IncidentId \cup {NoId}
  BY <1>1 DEF Typed, TypeOK, Keyed
<1>3. Version' = Version /\ Request' = Request /\ AnAnswer' = AnAnswer
  BY <1>1 DEF Version, Request, AnAnswer, StampsOf
<1>4. /\ fresh \subseteq fresh' /\ fresh' \subseteq FreshId
      /\ id' \in IncidentId \cup fresh'
  <2>1. CASE request.key # NoId
    BY <1>2, <2>1 DEF Accept, TypeOK
  <2>2. CASE request.key = NoId
    <3>1. PICK i \in FreshId \ fresh : id' = i /\ fresh' = fresh \cup {i}
      BY <2>2 DEF Accept
    <3> QED BY <1>2, <3>1 DEF TypeOK
  <2> QED BY <2>1, <2>2
<1>5. seen = NothingSeen /\ seen.anomalous \subseteq Series
  BY <1>1, <1>2 DEF TypeOK, NothingSeen
<1>6. TypeOK'
  BY <1>1, <1>2, <1>3, <1>4, <1>5 DEF TypeOK
<1>7. Counted'
  <2>1. /\ IsFiniteSet(inbox') /\ Cardinality(inbox) \in Nat /\ Cardinality(inbox') \in Nat
        /\ Cardinality(inbox') = Cardinality(inbox) - 1
    BY <1>1, <1>2, FewerRequests
  <2>2. ticks \in Nat /\ sent \in Nat
    BY <1>2, Numbers
  <2> QED BY <1>1, <1>2, <2>1, <2>2 DEF Counted, Busy
<1>8. Keyed' /\ Shaped'
  BY <1>1, <1>2, <1>4 DEF Keyed, Shaped
<1> QED BY <1>6, <1>7, <1>8 DEF Typed

(* An analysis goes on and has seen more. *)
LEMMA WorkTyped ==
  ASSUME Typed, stage # "idle", stage' \in {"start", "compare", "reason"},
         UNCHANGED <<results, inbox, replies, serving, id, ticks, known, counters>>,
         DOMAIN seen' = DOMAIN seen, seen'.anomalous \subseteq Series
  PROVE  Typed'
<1>1. UNCHANGED <<offer, sent, restarts, fresh>>
  BY DEF counters
<1>2. Version' = Version /\ Request' = Request /\ AnAnswer' = AnAnswer
  BY <1>1 DEF Version, Request, AnAnswer, StampsOf
<1>3. TypeOK'
  BY <1>1, <1>2 DEF Typed, TypeOK
<1>4. Counted' /\ Keyed' /\ Shaped'
  BY <1>1 DEF Typed, Counted, Busy, Keyed, Shaped
<1> QED BY <1>3, <1>4 DEF Typed

(* The request in hand is answered, and the server waits for the next. *)
LEMMA RefuseTyped == ASSUME Typed, stage # "idle", Refuse PROVE Typed'
<1>1. /\ stage' = "idle" /\ serving' = NoRequest /\ id' = NoId /\ seen' = NothingSeen
      /\ replies' = replies \cup {Reply(serving, 500, NoStamps)}
      /\ UNCHANGED <<results, inbox, ticks, known, offer, sent, restarts, fresh>>
  BY DEF Refuse, Idle, counters
<1>2. TypeOK /\ Counted /\ Keyed /\ Shaped
  BY DEF Typed
<1>3. Version' = Version /\ Request' = Request /\ AnAnswer' = AnAnswer
  BY <1>1 DEF Version, Request, AnAnswer, StampsOf
<1>4. Reply(serving, 500, NoStamps) \in AnAnswer
  BY <1>2, ReplyIsAnswer, NoStampsAreStamps DEF TypeOK
<1>5. TypeOK'
  BY <1>1, <1>2, <1>3, <1>4 DEF TypeOK
<1>6. Counted'
  <2>1. Cardinality(inbox) \in Nat
    BY <1>2, FS_CardinalityType DEF Counted
  <2> QED BY <1>1, <1>2, <2>1, Numbers DEF Counted, Busy
<1>7. Keyed' /\ Shaped'
  BY <1>1, <1>2 DEF Keyed, Shaped
<1> QED BY <1>5, <1>6, <1>7 DEF Typed

LEMMA IngestTyped == ASSUME Typed, Ingest PROVE Typed'
<1>1. CASE Refuse
  BY <1>1, RefuseTyped DEF Ingest
<1>2. CASE ~Refuse
  <2>1. /\ stage = "ingest" /\ stage' = "start"
        /\ UNCHANGED <<results, inbox, replies, serving, id, ticks, known, counters>>
    BY <1>2 DEF Ingest
  <2>2. DOMAIN seen' = DOMAIN seen /\ seen'.anomalous = seen.anomalous
    BY <1>2 DEF Ingest, Typed, Shaped, NothingSeen
  <2>3. seen.anomalous \subseteq Series
    BY <2>1 DEF Typed, TypeOK
  <2> QED BY <2>1, <2>2, <2>3, WorkTyped
<1> QED BY <1>1, <1>2

LEMMA StartTyped == ASSUME Typed, DetermineStart PROVE Typed'
<1>1. CASE Refuse
  BY <1>1, RefuseTyped DEF DetermineStart
<1>2. CASE ~Refuse
  <2>1. /\ stage = "start" /\ stage' = "compare"
        /\ UNCHANGED <<results, inbox, replies, serving, id, ticks, known, counters>>
    BY <1>2 DEF DetermineStart
  <2>2. DOMAIN seen' = DOMAIN seen /\ seen'.anomalous = seen.anomalous
    BY <1>2 DEF DetermineStart, Typed, Shaped, NothingSeen
  <2>3. seen.anomalous \subseteq Series
    BY <2>1 DEF Typed, TypeOK
  <2> QED BY <2>1, <2>2, <2>3, WorkTyped
<1> QED BY <1>1, <1>2

LEMMA CompareTyped == ASSUME Typed, CompareWithBaselines PROVE Typed'
<1>1. /\ stage = "compare" /\ stage' = "reason"
      /\ UNCHANGED <<results, inbox, replies, serving, id, ticks, known, counters>>
  BY DEF CompareWithBaselines
<1>2. /\ DOMAIN seen' = DOMAIN seen
      /\ seen'.anomalous = AnomalousSeries(seen.metrics, seen.start)
  BY DEF CompareWithBaselines, Typed, Shaped, NothingSeen
<1>3. AnomalousSeries(seen.metrics, seen.start) \subseteq Series
  BY DEF AnomalousSeries
<1> QED BY <1>1, <1>2, <1>3, WorkTyped

(* The counters when a write is made of a request that waits no more. *)
LEMMA WriteCounts ==
  ASSUME TypeOK, ticks' = ticks + 1, UNCHANGED <<offer, sent, restarts>>, ticks + 1 <= sent
  PROVE  /\ ticks' \in 0..sent' /\ ticks + 1 \in 1..ticks'
         /\ Version \subseteq Version' /\ ticks + 1 \in Version' /\ 1..ticks \subseteq 1..ticks'
         /\ Request \subseteq Request' /\ AnAnswer \subseteq AnAnswer'
         /\ \A i \in Id : [j \in {i} |-> ticks + 1] \in StampsOf(Id)'
<1>1. ticks \in Nat /\ sent \in Nat /\ restarts \in Nat
  BY Numbers
<1>2. Version \subseteq Version' /\ Request \subseteq Request' /\ AnAnswer \subseteq AnAnswer'
  BY <1>1, Growth
<1>3. ticks' \in 0..sent' /\ ticks + 1 \in 1..ticks' /\ 1..ticks \subseteq 1..ticks'
  BY <1>1
<1>4. ticks + 1 \in Version'
  BY <1>1 DEF Version
<1>5. ASSUME NEW i \in Id PROVE [j \in {i} |-> ticks + 1] \in StampsOf(Id)'
  <2>1. [j \in {i} |-> ticks + 1] \in [{i} -> Version'] /\ {i} \in SUBSET Id
    BY <1>4
  <2> QED BY <2>1 DEF StampsOf
<1> QED BY <1>2, <1>3, <1>4, <1>5

(* Its answer. *)
LEMMA WriteAnswers ==
  ASSUME TypeOK, ticks' = ticks + 1, UNCHANGED <<offer, sent, restarts>>, ticks + 1 <= sent,
         NEW request \in Request, NEW i \in Id
  PROVE  Reply(request, 200, [j \in {i} |-> ticks + 1]) \in AnAnswer'
<1>1. request \in Request' /\ [j \in {i} |-> ticks + 1] \in StampsOf(Id)'
  BY WriteCounts
<1>2. [request EXCEPT !.payload = NoPayload] \in Request'
  <2> HIDE DEF NoPayload
  <2> QED BY <1>1 DEF Request
<1>3. restarts \in 0..restarts'
  BY Numbers
<1> HIDE DEF NoPayload
<1> DEFINE to == [request EXCEPT !.payload = NoPayload]
           stamps == [j \in {i} |-> ticks + 1]
<1>4. to \in Request' /\ stamps \in StampsOf(Id)'
  BY <1>1, <1>2
<1>5. Reply(request, 200, stamps) = [to |-> to, status |-> 200, stamps |-> stamps, life |-> restarts]
  BY DEF Reply
<1> HIDE DEF to, stamps
<1>6. [to |-> to, status |-> 200, stamps |-> stamps, life |-> restarts] \in AnAnswer'
  BY <1>3, <1>4 DEF AnAnswer
<1> QED BY <1>5, <1>6 DEF stamps

LEMMA StoreTyped == ASSUME Typed, Store PROVE Typed'
<1>1. /\ stage = "reason" /\ ticks' = ticks + 1
      /\ results' = [i \in DOMAIN results \cup {id} |->
                       IF i = id THEN Record(i, ticks + 1) ELSE results[i]]
      /\ replies' = replies \cup {Reply(serving, 200, [i \in {id} |-> ticks + 1])}
      /\ stage' = "idle" /\ serving' = NoRequest /\ id' = NoId /\ seen' = NothingSeen
      /\ UNCHANGED <<inbox, known, offer, sent, restarts, fresh>>
  BY DEF Store, Idle, counters
<1>2. TypeOK /\ Counted /\ Keyed /\ Shaped
  BY DEF Typed
<1>3. ticks \in Nat /\ sent \in Nat /\ Cardinality(inbox) \in Nat
  BY <1>2, Numbers, FS_CardinalityType DEF Counted
<1>4. ticks + 1 + Cardinality(inbox) <= sent
  BY <1>1, <1>2, <1>3 DEF Counted, Busy
<1>5. ticks + 1 <= sent
  BY <1>3, <1>4
<1>6. /\ serving \in Request /\ id \in IncidentId \cup fresh /\ id \in Id
  BY <1>1, <1>2 DEF TypeOK, Id
<1>7. /\ ticks' \in 0..sent' /\ ticks + 1 \in 1..ticks'
      /\ Version \subseteq Version' /\ ticks + 1 \in Version' /\ 1..ticks \subseteq 1..ticks'
      /\ Request \subseteq Request' /\ AnAnswer \subseteq AnAnswer'
  BY <1>1, <1>2, <1>5, WriteCounts
<1>8. Reply(serving, 200, [i \in {id} |-> ticks + 1]) \in AnAnswer'
  BY <1>1, <1>2, <1>5, <1>6, WriteAnswers
<1>9. /\ DOMAIN results' \subseteq IncidentId \cup fresh'
      /\ \A i \in DOMAIN results' :
           results'[i] \in [analyzed_at : 1..ticks', stamp : 1..ticks', feedback : Version']
  <2>1. 0 \in Version'
    BY <1>1, <1>3 DEF Version
  <2>2. \A i : Record(i, ticks + 1) \in [analyzed_at : 1..ticks', stamp : 1..ticks', feedback : Version']
    BY <1>7, <2>1 DEF Record, NoFeedback
  <2>3. DOMAIN results' = DOMAIN results \cup {id}
    BY <1>1
  <2>4. DOMAIN results' \subseteq IncidentId \cup fresh'
    BY <1>1, <1>2, <1>6, <2>3 DEF TypeOK
  <2>5. ASSUME NEW i \in DOMAIN results'
        PROVE  results'[i] \in [analyzed_at : 1..ticks', stamp : 1..ticks', feedback : Version']
    <3>1. CASE i = id
      BY <1>1, <2>2, <2>3, <3>1
    <3>2. CASE i # id
      <4>1. results'[i] = results[i] /\ i \in DOMAIN results
        BY <1>1, <2>3, <3>2
      <4>2. results[i] \in [analyzed_at : 1..ticks, stamp : 1..ticks, feedback : Version]
        BY <1>2, <4>1 DEF TypeOK
      <4> QED BY <1>7, <4>1, <4>2
    <3> QED BY <3>1, <3>2
  <2> QED BY <2>4, <2>5
<1>10. inbox' \subseteq Request' /\ replies' \subseteq AnAnswer' /\ known' \in [Id -> Version']
  BY <1>1, <1>2, <1>7, <1>8 DEF TypeOK
<1>11. TypeOK'
  BY <1>1, <1>2, <1>7, <1>9, <1>10 DEF TypeOK
<1>12. Counted'
  BY <1>1, <1>2, <1>3, <1>4 DEF Counted, Busy
<1>13. Keyed' /\ Shaped'
  BY <1>1, <1>2 DEF Keyed, Shaped
<1> QED BY <1>11, <1>12, <1>13 DEF Typed

(* A question is answered. *)
LEMMA AnswerTyped == ASSUME Typed, NEW request \in inbox, Answer(request) PROVE Typed'
<1>1. /\ stage = "idle" /\ inbox' = inbox \ {request}
      /\ UNCHANGED <<stage, serving, id, seen, known, offer, sent, restarts, fresh>>
  BY DEF Answer, analysis, counters
<1>2. TypeOK /\ Counted /\ Keyed /\ Shaped /\ request \in Request
  BY DEF Typed, TypeOK
<1>3. /\ ticks \in Nat /\ sent \in Nat /\ Cardinality(inbox) \in Nat
      /\ IsFiniteSet(inbox') /\ Cardinality(inbox') \in Nat
      /\ Cardinality(inbox') = Cardinality(inbox) - 1
  BY <1>1, <1>2, Numbers, FewerRequests
<1>4. ticks + 1 + Cardinality(inbox') <= sent
  BY <1>1, <1>2, <1>3 DEF Counted, Busy
<1>5. Keyed' /\ Shaped'
  BY <1>1, <1>2 DEF Keyed, Shaped
<1>6. ASSUME NEW status \in {200, 404}, NEW stamps \in StampsOf(Id), UNCHANGED <<results, ticks>>,
             replies' = replies \cup {Reply(request, status, stamps)}
      PROVE  Typed'
  <2>1. Reply(request, status, stamps) \in AnAnswer
    BY <1>2, ReplyIsAnswer
  <2>2. Version' = Version /\ Request' = Request /\ AnAnswer' = AnAnswer
    BY <1>1, <1>6 DEF Version, Request, AnAnswer, StampsOf
  <2>3. TypeOK'
    BY <1>1, <1>2, <1>6, <2>1, <2>2 DEF TypeOK
  <2>4. Counted'
    BY <1>1, <1>3, <1>4, <1>6 DEF Counted, Busy
  <2> QED BY <1>5, <2>3, <2>4 DEF Typed
<1>7. \A i \in DOMAIN results : i \in Id /\ results[i].stamp \in Version /\ results[i].analyzed_at \in Version
  <2> SUFFICES ASSUME NEW i \in DOMAIN results
               PROVE  i \in Id /\ results[i].stamp \in Version /\ results[i].analyzed_at \in Version
    OBVIOUS
  <2>1. results[i] \in [analyzed_at : 1..ticks, stamp : 1..ticks, feedback : Version]
    BY <1>2 DEF TypeOK
  <2>2. 1..ticks \subseteq Version
    BY <1>3 DEF Version
  <2>3. i \in Id
    BY <1>2 DEF TypeOK, Id
  <2> QED BY <2>1, <2>2, <2>3
<1>8. CASE Get(request)
  <2>1. CASE request.key \in DOMAIN results
    <3>1. [i \in {request.key} |-> results[i].stamp] \in [{request.key} -> Version]
      BY <1>7, <2>1
    <3>2. [i \in {request.key} |-> results[i].stamp] \in StampsOf(Id)
      BY <1>7, <2>1, <3>1 DEF StampsOf
    <3> QED BY <1>6, <1>8, <2>1, <3>2 DEF Get
  <2>2. CASE request.key \notin DOMAIN results
    BY <1>6, <1>8, <2>2, NoStampsAreStamps DEF Get
  <2> QED BY <2>1, <2>2
<1>9. CASE List(request)
  <2>1. [i \in DOMAIN results |-> results[i].analyzed_at] \in [DOMAIN results -> Version]
    BY <1>7
  <2>2. [i \in DOMAIN results |-> results[i].analyzed_at] \in StampsOf(Id)
    BY <1>7, <2>1 DEF StampsOf
  <2> QED BY <1>6, <1>9, <2>2 DEF List
<1>10. CASE Feedback(request) /\ request.key \notin DOMAIN results
  BY <1>6, <1>10, NoStampsAreStamps DEF Feedback
<1>11. CASE Feedback(request) /\ request.key \in DOMAIN results
  <2>1. /\ ticks' = ticks + 1
        /\ results' = [results EXCEPT ![request.key] = Annotated(results[request.key], ticks + 1)]
        /\ replies' = replies \cup {Reply(request, 200, [i \in {request.key} |-> ticks + 1])}
    BY <1>11 DEF Feedback
  <2>2. ticks + 1 <= sent /\ request.key \in Id
    BY <1>3, <1>4, <1>7, <1>11
  <2>3. /\ ticks' \in 0..sent' /\ ticks + 1 \in 1..ticks'
        /\ Version \subseteq Version' /\ ticks + 1 \in Version' /\ 1..ticks \subseteq 1..ticks'
        /\ Request \subseteq Request' /\ AnAnswer \subseteq AnAnswer'
    BY <1>1, <1>2, <2>1, <2>2, WriteCounts
  <2>4. Reply(request, 200, [i \in {request.key} |-> ticks + 1]) \in AnAnswer'
    BY <1>1, <1>2, <2>1, <2>2, WriteAnswers
  <2>5. ASSUME NEW i \in DOMAIN results'
        PROVE  results'[i] \in [analyzed_at : 1..ticks', stamp : 1..ticks', feedback : Version']
    <3>1. i \in DOMAIN results
      BY <2>1
    <3>2. results[i] \in [analyzed_at : 1..ticks, stamp : 1..ticks, feedback : Version]
      BY <1>2, <3>1 DEF TypeOK
    <3>3. CASE i = request.key
      <4>1. results'[i] = [results[i] EXCEPT !.feedback = ticks + 1, !.stamp = ticks + 1]
        BY <2>1, <3>1, <3>3 DEF Annotated
      <4> QED BY <2>3, <3>2, <4>1
    <3>4. CASE i # request.key
      <4>1. results'[i] = results[i]
        BY <2>1, <3>1, <3>4
      <4> QED BY <2>3, <3>2, <4>1
    <3> QED BY <3>3, <3>4
  <2>6. DOMAIN results' = DOMAIN results
    BY <2>1
  <2>7. inbox' \subseteq Request' /\ replies' \subseteq AnAnswer' /\ known' \in [Id -> Version']
    BY <1>1, <1>2, <2>1, <2>3, <2>4 DEF TypeOK
  <2>8. TypeOK'
    BY <1>1, <1>2, <2>3, <2>5, <2>6, <2>7 DEF TypeOK
  <2>9. Counted'
    BY <1>1, <1>3, <1>4, <2>1 DEF Counted, Busy
  <2> QED BY <1>5, <2>8, <2>9 DEF Typed
<1> QED BY <1>8, <1>9, <1>10, <1>11 DEF Answer

LEMMA RestartTyped == ASSUME Typed, Restart PROVE Typed'
<1>1. /\ restarts < MaxRestarts /\ restarts' = restarts + 1
      /\ results' = [i \in {} |-> 0] /\ known' = Unknown
      /\ stage' = "idle" /\ serving' = NoRequest /\ id' = NoId /\ seen' = NothingSeen
      /\ UNCHANGED <<inbox, replies, ticks, offer, sent, fresh>>
  BY DEF Restart, Idle
<1>2. TypeOK /\ Counted /\ Keyed /\ Shaped
  BY DEF Typed
<1>3. ticks \in Nat /\ sent \in Nat /\ restarts \in Nat /\ Cardinality(inbox) \in Nat
  BY <1>2, Numbers, FS_CardinalityType DEF Counted
<1>4. Request \subseteq Request' /\ AnAnswer \subseteq AnAnswer'
  BY <1>1, <1>2, <1>3, Growth
<1>5. known' \in [Id -> Version'] /\ DOMAIN results' = {} /\ restarts' \in 0..MaxRestarts
  <2>1. 0 \in Version'
    BY <1>1, <1>3 DEF Version
  <2>2. known' \in [Id -> Version']
    BY <1>1, <2>1 DEF Unknown
  <2>3. restarts' \in 0..MaxRestarts
    BY <1>1, <1>3
  <2> QED BY <1>1, <2>2, <2>3
<1>6. TypeOK'
  BY <1>1, <1>2, <1>4, <1>5 DEF TypeOK
<1>7. Counted'
  BY <1>1, <1>2, <1>3 DEF Counted, Busy
<1>8. Keyed' /\ Shaped'
  BY <1>1, <1>2 DEF Keyed, Shaped
<1> QED BY <1>6, <1>7, <1>8 DEF Typed

LEMMA StutterTyped == ASSUME Typed, UNCHANGED vars PROVE Typed'
<1>1. UNCHANGED <<results, inbox, replies, stage, serving, id, seen, ticks, known, offer, sent,
                  restarts, fresh>>
  BY DEF vars, analysis, counters
<1>2. Version' = Version /\ Request' = Request /\ AnAnswer' = AnAnswer
  BY <1>1 DEF Version, Request, AnAnswer, StampsOf
<1>3. TypeOK'
  BY <1>1, <1>2 DEF Typed, TypeOK
<1> QED BY <1>1, <1>3 DEF Typed, Counted, Busy, Keyed, Shaped

LEMMA FailTyped == ASSUME Typed, Fail PROVE Typed'
BY RefuseTyped DEF Fail

LEMMA NextTyped == ASSUME Typed, [Next]_vars PROVE Typed'
BY SendAnalyzeTyped, SendQueryTyped, DeliverTyped, LoseTyped, AcceptTyped, AnswerTyped,
   IngestTyped, StartTyped, CompareTyped, StoreTyped, FailTyped, RestartTyped, StutterTyped
   DEF Next

----------------------------------------------------------------------------
(* Answers stay recent *)

LEMMA ReplyFields ==
  ASSUME NEW request \in Request, NEW status, NEW stamps
  PROVE  LET reply == Reply(request, status, stamps)
         IN  /\ reply.to.op = request.op /\ reply.to.key = request.key
             /\ reply.to.floor = request.floor /\ reply.to.life = request.life
             /\ reply.status = status /\ reply.stamps = stamps /\ reply.life = restarts
<1> DEFINE to == [request EXCEPT !.payload = NoPayload]
<1>1. /\ to.op = request.op /\ to.key = request.key
      /\ to.floor = request.floor /\ to.life = request.life
  <2> HIDE DEF NoPayload
  <2> QED BY DEF Request
<1>2. Reply(request, status, stamps) = [to |-> to, status |-> status, stamps |-> stamps, life |-> restarts]
  BY DEF Reply
<1> HIDE DEF to
<1> QED BY <1>1, <1>2

(* Nothing is written or told. *)
LEMMA QuietKeepsRecent ==
  ASSUME Recent, inbox' \subseteq inbox, replies' \subseteq replies,
         UNCHANGED <<results, known, restarts>>
  PROVE  Recent'
<1>1. NothingInherited' /\ AcceptedStays' /\ KnownIsStored'
  BY DEF Recent, NothingInherited, AcceptedStays, Accepted, KnownIsStored
<1>2. ToldIsStored' /\ AskedOfKnown'
  BY DEF Recent, ToldIsStored, AskedOfKnown
<1>3. ReadsAreRecent'
  BY DEF Recent, ReadsAreRecent, IsRecent
<1> QED BY <1>1, <1>2, <1>3 DEF Recent

LEMMA SendRecent ==
  ASSUME IInv, NEW op, NEW key, NEW payload, Send(op, key, payload)
  PROVE  Recent'
<1> DEFINE request == [n |-> sent + 1, op |-> op, key |-> key, payload |-> payload,
                       floor |-> known, life |-> restarts]
<1>1. /\ inbox' = inbox \cup {request} /\ request.floor = known
      /\ UNCHANGED <<results, replies, known, restarts>>
  BY DEF Send
<1> HIDE DEF request
<1>2. NothingInherited' /\ AcceptedStays' /\ KnownIsStored' /\ ToldIsStored'
  BY <1>1 DEF IInv, Recent, NothingInherited, AcceptedStays, Accepted, KnownIsStored, ToldIsStored
<1>3. AskedOfKnown'
  <2>1. \A i \in Id : known[i] \in Nat
    BY Numbers DEF IInv, Typed
  <2> QED BY <1>1, <2>1 DEF IInv, Recent, AskedOfKnown
<1>4. ReadsAreRecent'
  BY <1>1 DEF IInv, Recent, ReadsAreRecent
<1> QED BY <1>2, <1>3, <1>4 DEF Recent

LEMMA DeliverRecent == ASSUME IInv, NEW reply \in replies, Deliver(reply) PROVE Recent'
<1>1. /\ replies' \subseteq replies /\ UNCHANGED <<results, inbox, restarts>>
  BY DEF Deliver, counters
<1>2. TypeOK /\ Recent /\ known \in [Id -> Nat] /\ reply \in AnAnswer
  BY Numbers DEF IInv, Typed, TypeOK
<1>3. CASE reply.life # restarts
  BY <1>1, <1>2, <1>3, QuietKeepsRecent DEF Deliver
<1>4. CASE reply.life = restarts
  <2>1. known' = [i \in Id |-> IF i \in DOMAIN reply.stamps /\ reply.stamps[i] > known[i]
                               THEN reply.stamps[i] ELSE known[i]]
    BY <1>4 DEF Deliver
  <2>2. \A i \in DOMAIN reply.stamps : reply.stamps[i] \in Nat
    BY <1>2, StampsAreVersions, Numbers
  <2>3. \A i \in Id : known'[i] \in Nat /\ known[i] <= known'[i]
    BY <1>2, <2>1, <2>2
  <2>4. KnownIsStored'
    <3> SUFFICES ASSUME NEW i \in Id, known'[i] > 0
                 PROVE  i \in DOMAIN results /\ known'[i] <= results[i].stamp
      BY <1>1 DEF KnownIsStored
    <3>1. CASE i \in DOMAIN reply.stamps /\ reply.stamps[i] > known[i]
      BY <1>2, <1>4, <2>1, <3>1 DEF Recent, ToldIsStored
    <3>2. CASE ~(i \in DOMAIN reply.stamps /\ reply.stamps[i] > known[i])
      BY <1>2, <2>1, <3>2 DEF Recent, KnownIsStored
    <3> QED BY <3>1, <3>2
  <2>5. AskedOfKnown'
    <3> SUFFICES ASSUME NEW request \in inbox, request.life = restarts, NEW i \in Id
                 PROVE  request.floor[i] <= known'[i]
      BY <1>1 DEF AskedOfKnown
    <3>1. request.floor \in [Id -> Version]
      BY <1>2 DEF TypeOK, Request
    <3>2. request.floor[i] \in Nat /\ request.floor[i] <= known[i] /\ known[i] \in Nat
      BY <1>2, <3>1, Numbers DEF Recent, AskedOfKnown
    <3> QED BY <2>3, <3>2
  <2>6. NothingInherited' /\ AcceptedStays' /\ ToldIsStored' /\ ReadsAreRecent'
    BY <1>1, <1>2 DEF Recent, NothingInherited, AcceptedStays, Accepted, ToldIsStored,
                      ReadsAreRecent, IsRecent
  <2> QED BY <2>4, <2>5, <2>6 DEF Recent
<1> QED BY <1>3, <1>4

(* A reply that accepts nothing, promises nothing but what the store has, and is recent. *)
LEMMA ReplyRecent ==
  ASSUME Recent, NEW reply, replies' = replies \cup {reply}, inbox' \subseteq inbox,
         UNCHANGED <<results, known, restarts>>,
         \A i \in DOMAIN reply.stamps : i \in DOMAIN results /\ reply.stamps[i] <= results[i].stamp,
         IsRecent(reply), ~(reply.to.op = "feedback" /\ reply.status = 200)
  PROVE  Recent'
<1>1. NothingInherited' /\ AcceptedStays' /\ KnownIsStored' /\ AskedOfKnown'
  BY DEF Recent, NothingInherited, AcceptedStays, Accepted, KnownIsStored, AskedOfKnown
<1>2. ToldIsStored'
  BY DEF Recent, ToldIsStored
<1>3. ReadsAreRecent'
  BY DEF Recent, ReadsAreRecent, IsRecent
<1> QED BY <1>1, <1>2, <1>3 DEF Recent

LEMMA RefuseRecent == ASSUME IInv, stage # "idle", Refuse PROVE Recent'
<1> DEFINE reply == Reply(serving, 500, NoStamps)
<1>1. /\ replies' = replies \cup {reply}
      /\ UNCHANGED <<results, inbox, known, restarts>>
  BY DEF Refuse, counters
<1>2. serving \in Request /\ serving.op = "analyze"
  BY DEF IInv, Typed, TypeOK
<1>3. reply.to.op = "analyze" /\ reply.status = 500 /\ reply.stamps = NoStamps
  BY <1>2, ReplyFields
<1> HIDE DEF reply
<1>4. IsRecent(reply)
  BY <1>3 DEF IsRecent
<1> QED BY <1>1, <1>3, <1>4, ReplyRecent, NoStampsAreStamps DEF IInv

(* A write to record i, of which the client that asked for it is told. *)
LEMMA WriteRecent ==
  ASSUME IInv, NEW i \in Id, NEW reply, replies' = replies \cup {reply}, inbox' \subseteq inbox,
         UNCHANGED <<known, restarts>>, IsRecent(reply),
         reply.life = restarts => DOMAIN reply.stamps = {i} /\ reply.stamps[i] = ticks + 1,
         DOMAIN results' = DOMAIN results \cup {i}, results'[i].stamp = ticks + 1,
         \A j \in DOMAIN results : j # i => results'[j] = results[j],
         reply.to.op = "feedback" => reply.to.key = i,
         \/ results'[i].feedback = ticks + 1
         \/ results'[i].analyzed_at = ticks + 1 /\ reply.to.op # "feedback",
         NothingInherited'
  PROVE  Recent'
<1>1. /\ TypeOK /\ Recent /\ ticks \in Nat /\ known \in [Id -> Version]
      /\ \A j \in DOMAIN results : results[j].stamp \in Nat /\ results[j].stamp <= ticks
  BY Numbers DEF IInv, Typed, TypeOK
<1>2. \A v \in Version : v \in Nat /\ v <= ticks + 1
  BY <1>1 DEF Version
<1>3. KnownIsStored'
  BY <1>1, <1>2 DEF Recent, KnownIsStored
<1>4. ToldIsStored'
  <2> SUFFICES ASSUME NEW r \in replies', r.life = restarts, NEW j \in DOMAIN r.stamps
               PROVE  j \in DOMAIN results' /\ r.stamps[j] <= results'[j].stamp
    BY DEF ToldIsStored
  <2>1. CASE r = reply
    BY <1>1, <2>1
  <2>2. CASE r \in replies
    <3>1. j \in DOMAIN results /\ r.stamps[j] <= results[j].stamp
      BY <1>1, <2>2 DEF Recent, ToldIsStored
    <3>2. r.stamps[j] \in Version
      BY <1>1, <2>2, StampsAreVersions DEF TypeOK
    <3> QED BY <1>2, <3>1, <3>2
  <2> QED BY <2>1, <2>2
<1>5. AskedOfKnown'
  BY <1>1 DEF Recent, AskedOfKnown
<1>6. ReadsAreRecent'
  BY <1>1 DEF Recent, ReadsAreRecent, IsRecent
<1>7. AcceptedStays'
  <2> SUFFICES ASSUME NEW r \in replies', r.to.op = "feedback", r.status = 200, r.life = restarts
               PROVE  /\ r.to.key \in DOMAIN results' \cap DOMAIN r.stamps
                      /\ \/ results'[r.to.key].feedback >= r.stamps[r.to.key]
                         \/ results'[r.to.key].analyzed_at > r.stamps[r.to.key]
    BY DEF AcceptedStays, Accepted
  <2>1. CASE r = reply
    BY <1>1, <2>1
  <2>2. CASE r \in replies
    <3>1. /\ r.to.key \in DOMAIN results \cap DOMAIN r.stamps
          /\ \/ results[r.to.key].feedback >= r.stamps[r.to.key]
             \/ results[r.to.key].analyzed_at > r.stamps[r.to.key]
      BY <1>1, <2>2 DEF Recent, AcceptedStays, Accepted
    <3>2. CASE r.to.key = i
      <4>1. r.stamps[i] \in Nat /\ r.stamps[i] <= ticks
        <5>1. r.stamps[i] \in Version
          BY <1>1, <2>2, <3>1, <3>2, StampsAreVersions DEF TypeOK
        <5> QED BY <1>1, <5>1 DEF Version
      <4> QED BY <1>1, <3>1, <3>2, <4>1
    <3>3. CASE r.to.key # i
      BY <3>1, <3>3
    <3> QED BY <3>2, <3>3
  <2> QED BY <2>1, <2>2
<1> QED BY <1>3, <1>4, <1>5, <1>6, <1>7 DEF Recent

LEMMA StoreRecent == ASSUME IInv, Store PROVE Recent'
<1> DEFINE stamps == [i \in {id} |-> ticks + 1]
           reply == Reply(serving, 200, stamps)
<1>1. /\ stage = "reason"
      /\ results' = [i \in DOMAIN results \cup {id} |->
                       IF i = id THEN Record(i, ticks + 1) ELSE results[i]]
      /\ replies' = replies \cup {reply}
      /\ UNCHANGED <<inbox, known, restarts>>
  BY DEF Store, counters
<1>2. serving \in Request /\ serving.op = "analyze" /\ id \in Id /\ Recent
  BY <1>1 DEF IInv, Typed, TypeOK, Id
<1>3. reply.to.op = "analyze" /\ reply.status = 200 /\ reply.stamps = stamps
  BY <1>2, ReplyFields
<1>4. DOMAIN stamps = {id} /\ stamps[id] = ticks + 1
  OBVIOUS
<1> HIDE DEF reply, stamps
<1>5. IsRecent(reply)
  BY <1>3 DEF IsRecent
<1>6. /\ DOMAIN results' = DOMAIN results \cup {id}
      /\ results'[id] = [analyzed_at |-> ticks + 1, stamp |-> ticks + 1, feedback |-> NoFeedback]
      /\ \A j \in DOMAIN results : j # id => results'[j] = results[j]
  BY <1>1 DEF Record
<1>7. NothingInherited'
  BY <1>2, <1>6 DEF Recent, NothingInherited
<1>8. results'[id].stamp = ticks + 1 /\ results'[id].analyzed_at = ticks + 1
  BY <1>6
<1>9. DOMAIN reply.stamps = {id} /\ reply.stamps[id] = ticks + 1
  BY <1>3, <1>4
<1> QED BY <1>1, <1>2, <1>3, <1>5, <1>6, <1>7, <1>8, <1>9, WriteRecent

(* A request waits with what was known when it was sent; so what it is answered from the
   store is recent. *)
LEMMA FloorIsStored ==
  ASSUME IInv, NEW request \in inbox, request.life = restarts, NEW i \in Id
  PROVE  /\ request.floor[i] \in Nat
         /\ request.floor[i] > 0 =>
              i \in DOMAIN results /\ request.floor[i] <= results[i].stamp
         /\ request.floor[i] <= ticks
<1>1. request.floor \in [Id -> Version] /\ known \in [Id -> Version]
  BY DEF IInv, Typed, TypeOK, Request
<1>2. ticks \in Nat /\ request.floor[i] \in Nat /\ known[i] \in Nat /\ known[i] <= ticks
  BY <1>1, Numbers DEF IInv, Typed, Version
<1>3. request.floor[i] <= known[i]
  BY DEF IInv, Recent, AskedOfKnown
<1>4. known[i] > 0 => /\ i \in DOMAIN results /\ known[i] <= results[i].stamp
                      /\ results[i].stamp \in Nat
  BY Numbers DEF IInv, Typed, Recent, KnownIsStored
<1> QED BY <1>2, <1>3, <1>4

LEMMA GetRecent ==
  ASSUME IInv, NEW request \in inbox, Get(request), inbox' \subseteq inbox,
         UNCHANGED <<known, restarts>>
  PROVE  Recent'
<1>1. /\ request \in Request /\ request.op = "get" /\ request.key \in Id
      /\ UNCHANGED results
  BY DEF Get, IInv, Typed, TypeOK, Keyed, Id
<1>2. \A i \in DOMAIN results : results[i].stamp \in Nat
  BY Numbers DEF IInv, Typed
<1>3. CASE request.key \in DOMAIN results
  <2> DEFINE stamps == [i \in {request.key} |-> results[i].stamp]
             reply == Reply(request, 200, stamps)
  <2>1. replies' = replies \cup {reply}
    BY <1>3 DEF Get
  <2>2. /\ reply.to.op = "get" /\ reply.to.key = request.key /\ reply.to.floor = request.floor
        /\ reply.to.life = request.life /\ reply.status = 200 /\ reply.stamps = stamps
        /\ reply.life = restarts
    BY <1>1, ReplyFields
  <2>3. DOMAIN stamps = {request.key} /\ stamps[request.key] = results[request.key].stamp
    OBVIOUS
  <2> HIDE DEF reply, stamps
  <2>4. ASSUME request.life = restarts
        PROVE  request.floor[request.key] <= stamps[request.key]
    BY <1>1, <1>2, <1>3, <2>3, <2>4, FloorIsStored
  <2>5. IsRecent(reply)
    <3>1. request.life = restarts => request.floor[request.key] \in Nat
      BY <1>1, FloorIsStored
    <3> QED BY <1>2, <1>3, <2>2, <2>3, <2>4, <3>1 DEF IsRecent
  <2>6. \A i \in DOMAIN reply.stamps : i \in DOMAIN results /\ reply.stamps[i] <= results[i].stamp
    BY <1>2, <1>3, <2>2, <2>3
  <2> QED BY <1>1, <2>1, <2>2, <2>5, <2>6, ReplyRecent DEF IInv
<1>4. CASE request.key \notin DOMAIN results
  <2> DEFINE reply == Reply(request, 404, NoStamps)
  <2>1. replies' = replies \cup {reply}
    BY <1>4 DEF Get
  <2>2. /\ reply.to.op = "get" /\ reply.to.key = request.key /\ reply.to.floor = request.floor
        /\ reply.to.life = request.life /\ reply.status = 404 /\ reply.stamps = NoStamps
        /\ reply.life = restarts
    BY <1>1, ReplyFields
  <2> HIDE DEF reply
  <2>3. request.life = restarts => request.floor[request.key] = 0
    BY <1>1, <1>4, FloorIsStored
  <2>4. IsRecent(reply)
    BY <2>2, <2>3 DEF IsRecent
  <2> QED BY <1>1, <2>1, <2>2, <2>4, ReplyRecent, NoStampsAreStamps DEF IInv
<1> QED BY <1>3, <1>4

LEMMA ListRecent ==
  ASSUME IInv, NEW request \in inbox, List(request), inbox' \subseteq inbox,
         UNCHANGED <<known, restarts>>
  PROVE  Recent'
<1> DEFINE stamps == [i \in DOMAIN results |-> results[i].analyzed_at]
           reply == Reply(request, 200, stamps)
<1>1. /\ request \in Request /\ request.op = "list" /\ UNCHANGED results
      /\ replies' = replies \cup {reply}
  BY DEF List, IInv, Typed, TypeOK
<1>2. /\ reply.to.op = "list" /\ reply.to.floor = request.floor
      /\ reply.to.life = request.life /\ reply.status = 200 /\ reply.stamps = stamps
      /\ reply.life = restarts
  BY <1>1, ReplyFields
<1>3. DOMAIN stamps = DOMAIN results /\ \A i \in DOMAIN results : stamps[i] = results[i].analyzed_at
  OBVIOUS
<1> HIDE DEF reply, stamps
<1>4. \A i \in DOMAIN results : results[i].analyzed_at <= results[i].stamp
  <2> SUFFICES ASSUME NEW i \in DOMAIN results
               PROVE  results[i].analyzed_at <= results[i].stamp
    OBVIOUS
  <2>1. results[i].analyzed_at \in 1..ticks /\ results[i].stamp \in 1..ticks
    BY DEF IInv, Typed, TypeOK
  <2>2. ticks \in Nat
    BY Numbers DEF IInv, Typed
  <2> QED BY <2>1, <2>2 DEF IInv, Recent, NothingInherited
<1>5. IsRecent(reply)
  <2>1. request.life = restarts =>
          \A i \in Id : request.floor[i] > 0 => i \in DOMAIN results
    BY FloorIsStored
  <2> QED BY <1>2, <1>3, <2>1 DEF IsRecent
<1>6. \A i \in DOMAIN reply.stamps : i \in DOMAIN results /\ reply.stamps[i] <= results[i].stamp
  BY <1>2, <1>3, <1>4
<1> QED BY <1>1, <1>2, <1>5, <1>6, ReplyRecent DEF IInv

LEMMA FeedbackRecent ==
  ASSUME IInv, NEW request \in inbox, Feedback(request), inbox' \subseteq inbox,
         UNCHANGED <<known, restarts>>
  PROVE  Recent'
<1>1. request \in Request /\ request.op = "feedback" /\ request.key \in Id
  BY DEF Feedback, IInv, Typed, TypeOK, Keyed, Id
<1>2. ticks \in Nat
  BY Numbers DEF IInv, Typed
<1>3. CASE request.key \in DOMAIN results
  <2> DEFINE stamps == [i \in {request.key} |-> ticks + 1]
             reply == Reply(request, 200, stamps)
  <2>1. /\ replies' = replies \cup {reply}
        /\ results' = [results EXCEPT ![request.key] = Annotated(results[request.key], ticks + 1)]
    BY <1>3 DEF Feedback
  <2>2. /\ reply.to.op = "feedback" /\ reply.to.key = request.key
        /\ reply.to.floor = request.floor
        /\ reply.to.life = request.life /\ reply.status = 200 /\ reply.stamps = stamps
        /\ reply.life = restarts
    BY <1>1, ReplyFields
  <2>3. DOMAIN stamps = {request.key} /\ stamps[request.key] = ticks + 1
    OBVIOUS
  <2> HIDE DEF reply, stamps
  <2>4. IsRecent(reply)
    <3>1. request.life = restarts =>
            request.floor[request.key] \in Nat /\ request.floor[request.key] <= ticks
      BY <1>1, FloorIsStored
    <3> QED BY <1>2, <2>2, <2>3, <3>1 DEF IsRecent
  <2>5. results[request.key] \in [analyzed_at : 1..ticks, stamp : 1..ticks, feedback : Version]
    BY <1>3 DEF IInv, Typed, TypeOK
  <2>6. /\ results'[request.key].stamp = ticks + 1 /\ results'[request.key].feedback = ticks + 1
        /\ results'[request.key].analyzed_at = results[request.key].analyzed_at
    <3>1. results'[request.key] = Annotated(results[request.key], ticks + 1)
      BY <1>3, <2>1
    <3> QED BY <2>5, <3>1 DEF Annotated
  <2>7. /\ DOMAIN results' = DOMAIN results \cup {request.key}
        /\ \A j \in DOMAIN results : j # request.key => results'[j] = results[j]
    BY <1>3, <2>1
  <2>8. results[request.key].analyzed_at < ticks + 1
    BY <1>2, <2>5
  <2>9. NothingInherited'
    BY <1>3, <2>6, <2>7, <2>8 DEF IInv, Recent, NothingInherited
  <2>10. DOMAIN reply.stamps = {request.key} /\ reply.stamps[request.key] = ticks + 1
    BY <2>2, <2>3
  <2> QED BY <1>1, <2>1, <2>2, <2>4, <2>6, <2>7, <2>9, <2>10, WriteRecent
<1>4. CASE request.key \notin DOMAIN results
  <2> DEFINE reply == Reply(request, 404, NoStamps)
  <2>1. replies' = replies \cup {reply} /\ UNCHANGED results
    BY <1>4 DEF Feedback
  <2>2. /\ reply.to.op = "feedback" /\ reply.to.key = request.key
        /\ reply.to.floor = request.floor
        /\ reply.to.life = request.life /\ reply.status = 404 /\ reply.stamps = NoStamps
        /\ reply.life = restarts
    BY <1>1, ReplyFields
  <2> HIDE DEF reply
  <2>3. request.life = restarts => request.floor[request.key] = 0
    BY <1>1, <1>4, FloorIsStored
  <2>4. IsRecent(reply)
    BY <2>2, <2>3 DEF IsRecent
  <2> QED BY <2>1, <2>2, <2>4, ReplyRecent, NoStampsAreStamps DEF IInv
<1> QED BY <1>3, <1>4

(* A restart forgets what was known with the store; what is on its way is of an earlier
   life. *)
LEMMA RestartRecent == ASSUME IInv, Restart PROVE Recent'
<1>1. /\ restarts' = restarts + 1 /\ results' = [i \in {} |-> 0] /\ known' = Unknown
      /\ UNCHANGED <<inbox, replies>>
  BY DEF Restart
<1>2. DOMAIN results' = {} /\ \A i \in Id : known'[i] = 0
  BY <1>1 DEF Unknown
<1>3. restarts \in Nat
  BY Numbers DEF IInv, Typed
<1>4. \A request \in inbox : request.life # restarts'
  <2> SUFFICES ASSUME NEW request \in inbox PROVE request.life # restarts'
    OBVIOUS
  <2>1. request.life \in 0..restarts
    BY DEF IInv, Typed, TypeOK, Request
  <2> QED BY <1>1, <1>3, <2>1
<1>5. \A reply \in replies : reply.life # restarts'
  <2> SUFFICES ASSUME NEW reply \in replies PROVE reply.life # restarts'
    OBVIOUS
  <2>1. reply.life \in 0..restarts
    BY DEF IInv, Typed, TypeOK, AnAnswer
  <2> QED BY <1>1, <1>3, <2>1
<1>6. NothingInherited' /\ AcceptedStays' /\ KnownIsStored'
  BY <1>1, <1>2, <1>5 DEF NothingInherited, AcceptedStays, Accepted, KnownIsStored
<1>7. ToldIsStored' /\ AskedOfKnown'
  BY <1>1, <1>4, <1>5 DEF ToldIsStored, AskedOfKnown
<1>8. ReadsAreRecent'
  BY <1>1 DEF IInv, Recent, ReadsAreRecent, IsRecent
<1> QED BY <1>6, <1>7, <1>8 DEF Recent

LEMMA AnswerRecent == ASSUME IInv, NEW request \in inbox, Answer(request) PROVE Recent'
<1>1. inbox' \subseteq inbox /\ UNCHANGED <<known, restarts>>
  BY DEF Answer, counters
<1> QED BY <1>1, GetRecent, FeedbackRecent, ListRecent DEF Answer

LEMMA NextRecent == ASSUME IInv, [Next]_vars PROVE Recent'
<1>1. ASSUME inbox' \subseteq inbox, replies' \subseteq replies, UNCHANGED <<results, known, restarts>>
      PROVE  Recent'
  BY <1>1, QuietKeepsRecent DEF IInv
<1>2. CASE SendAnalyze
  BY <1>2, SendRecent DEF SendAnalyze
<1>3. CASE SendQuery
  BY <1>3, SendRecent DEF SendQuery
<1>4. CASE Lose
  BY <1>1, <1>4 DEF Lose, counters
<1>5. ASSUME NEW request \in inbox, Accept(request) PROVE Recent'
  BY <1>1, <1>5 DEF Accept
<1>6. CASE Ingest
  BY <1>1, <1>6, RefuseRecent DEF Ingest, counters
<1>7. CASE DetermineStart
  BY <1>1, <1>7, RefuseRecent DEF DetermineStart, counters
<1>8. CASE CompareWithBaselines
  BY <1>1, <1>8 DEF CompareWithBaselines, counters
<1>9. CASE Fail
  BY <1>9, RefuseRecent DEF Fail
<1>10. CASE UNCHANGED vars
  BY <1>1, <1>10 DEF vars, counters
<1> QED BY <1>2, <1>3, <1>4, <1>5, <1>6, <1>7, <1>8, <1>9, <1>10, DeliverRecent, StoreRecent,
           AnswerRecent, RestartRecent DEF Next

LEMMA Invariance == Spec => []IInv
<1>1. Init => IInv
  BY InitInv
<1>2. IInv /\ [Next]_vars => IInv'
  BY NextTyped, NextRecent DEF IInv
<1> QED BY <1>1, <1>2, PTL DEF Spec

(* For any clients and any number of restarts: no more is written than was asked for,
   nothing is told that was not written, and a record is named by its client or by what
   was made up (app.py, all of its endpoints on _results). *)
THEOREM TypeCorrect == Spec => []TypeOK
BY Invariance, PTL DEF IInv, Typed

(* However requests are repeated, reordered and lost, feedback that was accepted stays until
   later feedback or a later analysis takes its place, or the process is restarted; and no
   analysis inherits any (analyze_incident and submit_feedback). *)
THEOREM FeedbackIsKept == Spec => []FeedbackLasts
<1>1. IInv => FeedbackLasts
  BY DEF IInv, Recent, FeedbackLasts
<1> QED BY <1>1, Invariance, PTL

(* However requests are repeated, reordered and lost, an answer is never older than what
   any client had been told when the question was asked, short of a restart between
   them. *)
THEOREM ReadsStayRecent == Spec => []ReadsAreRecent
BY Invariance, PTL DEF IInv, Recent
----------------------------------------------------------------------------
(* What is kept of a payload *)

(* An item passes all checks just when nothing is wrong with it. *)
LEMMA KeptIsSound ==
  ASSUME NEW item, NEW checks, NEW raises, item.defects \subseteq {checks[i] : i \in DOMAIN checks}
  PROVE  Fate(item, checks, raises) = "kept" <=> Sound(item)
<1>1. (\A i \in DOMAIN checks : checks[i] \notin item.defects) <=> item.defects = {}
  OBVIOUS
<1>2. (\A i \in DOMAIN checks : checks[i] \notin item.defects) <=> Fate(item, checks, raises) = "kept"
  BY DEF Fate
<1> QED BY <1>1, <1>2 DEF Sound

LEMMA MetricsAreSound ==
  ASSUME NEW payload \in Payload
  PROVE  Metrics(payload) = Keep(payload.metrics, Sound)
<1> DEFINE items == payload.metrics
<1>1. items \in Seq(RawMetric)
  BY DEF Payload
<1> HIDE DEF items
<1>2. ASSUME NEW i \in DOMAIN items
      PROVE  MetricFate(items[i]) = "kept" <=> Sound(items[i])
  <2>1. items[i] \in RawMetric
    BY <1>1
  <2>2. items[i].defects \subseteq {MetricChecks[j] : j \in DOMAIN MetricChecks}
    BY <2>1 DEF RawMetric
  <2> QED BY <2>2, KeptIsSound DEF MetricFate
<1>3. [i \in DOMAIN items |-> IF MetricFate(items[i]) = "kept" THEN <<items[i]>> ELSE <<>>] =
      [i \in DOMAIN items |-> IF Sound(items[i]) THEN <<items[i]>> ELSE <<>>]
  BY <1>2
<1> QED BY <1>3 DEF Metrics, Keep, items

LEMMA ChangesAreSound ==
  ASSUME NEW payload \in Payload
  PROVE  Changes(payload) = Keep(payload.changes, Sound)
<1> DEFINE items == payload.changes
<1>1. items \in Seq(RawChange)
  BY DEF Payload
<1> HIDE DEF items
<1>2. ASSUME NEW i \in DOMAIN items
      PROVE  ChangeFate(items[i]) = "kept" <=> Sound(items[i])
  <2>1. items[i] \in RawChange
    BY <1>1
  <2>2. items[i].defects \subseteq {ChangeChecks(items[i].kind)[j] : j \in DOMAIN ChangeChecks(items[i].kind)}
    <3>1. PICK kind \in {"deploy", "config_change", "feature_flag"} :
            items[i] \in [id : EventId, kind : {kind},
                          defects : SUBSET {ChangeChecks(kind)[j] : j \in DOMAIN ChangeChecks(kind)}]
      BY <2>1 DEF RawChange
    <3> QED BY <3>1
  <2> QED BY <2>2, KeptIsSound DEF ChangeFate
<1>3. [i \in DOMAIN items |-> IF ChangeFate(items[i]) = "kept" THEN <<items[i]>> ELSE <<>>] =
      [i \in DOMAIN items |-> IF Sound(items[i]) THEN <<items[i]>> ELSE <<>>]
  BY <1>2
<1> QED BY <1>3 DEF Changes, Keep, items

SoundSpans == {s \in RawSpan : Sound(s)}

LEMMA KeptSpans ==
  ASSUME NEW s \in Seq(RawSpan)
  PROVE  /\ Keep(s, Sound) \in Seq(RawSpan)
         /\ Keep(Keep(s, Sound), Sound) = Keep(s, Sound)
<1>1. ASSUME NEW t \in Seq(RawSpan)
      PROVE  Keep(t, Sound) = Left(t, SoundSpans)
  <2>1. \A i \in DOMAIN t : Sound(t[i]) <=> t[i] \in SoundSpans
    BY DEF SoundSpans
  <2>2. [i \in DOMAIN t |-> IF Sound(t[i]) THEN <<t[i]>> ELSE <<>>] =
        [i \in DOMAIN t |-> IF t[i] \in SoundSpans THEN <<t[i]>> ELSE <<>>]
    BY <2>1
  <2> QED BY <2>2 DEF Keep, Left
<1>2. Left(s, SoundSpans) \in Seq(RawSpan \cap SoundSpans)
  BY LeftType
<1>3. Left(s, SoundSpans) \in Seq(RawSpan)
  <2>1. RawSpan \cap SoundSpans \subseteq RawSpan
    OBVIOUS
  <2> QED BY <1>2, <2>1
<1>4. Left(Left(s, SoundSpans), SoundSpans) = Left(s, SoundSpans)
  BY <1>2, LeftIsAll
<1> QED BY <1>1, <1>3, <1>4

Cleaned(trace) == [i \in DOMAIN trace |-> [trace[i] EXCEPT !.spans = Keep(@, Sound)]]

(* A trace without its malformed spans gives the spans it gives with them. *)
LEMMA CleanedTrace ==
  ASSUME NEW trace \in RawTrace
  PROVE  TraceSpans(trace) \in Seq(RawSpan) /\ TraceSpans(Cleaned(trace)) = TraceSpans(trace)
<1>1. /\ Len(trace) \in Nat /\ DOMAIN trace = 1..Len(trace)
      /\ \A i \in DOMAIN trace : trace[i] \in [broken : BOOLEAN, spans : Seq(RawSpan)]
  <2> DEFINE Resource == [broken : BOOLEAN, spans : Seq(RawSpan)]
  <2>1. trace \in Seq(Resource)
    BY DEF RawTrace
  <2> HIDE DEF Resource
  <2>2. Len(trace) \in Nat /\ DOMAIN trace = 1..Len(trace) /\ \A i \in DOMAIN trace : trace[i] \in Resource
    BY <2>1
  <2> QED BY <2>2 DEF Resource
<1>2. ASSUME NEW i \in DOMAIN trace
      PROVE  /\ Keep(trace[i].spans, Sound) \in Seq(RawSpan)
             /\ Keep(Keep(trace[i].spans, Sound), Sound) = Keep(trace[i].spans, Sound)
  <2>1. trace[i].spans \in Seq(RawSpan)
    BY <1>1
  <2> QED BY <2>1, KeptSpans
<1>3. /\ DOMAIN Cleaned(trace) = DOMAIN trace
      /\ \A i \in DOMAIN trace : /\ Cleaned(trace)[i].broken = trace[i].broken
                                 /\ Cleaned(trace)[i].spans = Keep(trace[i].spans, Sound)
  BY <1>1 DEF Cleaned
<1>4. Broken(Cleaned(trace)) <=> Broken(trace)
  BY <1>3 DEF Broken
<1> DEFINE kept == [i \in DOMAIN trace |-> Keep(trace[i].spans, Sound)]
<1>5. kept \in Seq(Seq(RawSpan))
  BY <1>1, <1>2
<1>6. [i \in DOMAIN Cleaned(trace) |-> Keep(Cleaned(trace)[i].spans, Sound)] = kept
  BY <1>2, <1>3
<1> HIDE DEF kept
<1>7. FlattenSeq(kept) \in Seq(RawSpan)
  BY <1>5, FlattenType
<1>8. TraceSpans(trace) = IF Broken(trace) THEN <<>> ELSE FlattenSeq(kept)
  BY DEF TraceSpans, kept
<1>9. TraceSpans(Cleaned(trace)) = IF Broken(trace) THEN <<>> ELSE FlattenSeq(kept)
  BY <1>4, <1>6 DEF TraceSpans
<1>10. <<>> \in Seq(RawSpan)
  OBVIOUS
<1> QED BY <1>7, <1>8, <1>9, <1>10

(* A payload without what is malformed gives the spans it gives with it. *)
LEMMA CleanedSpans ==
  ASSUME NEW payload \in Payload
  PROVE  Spans(Clean(payload)) = Spans(payload)
<1> DEFINE traces == payload.traces
           WholeTraces == {t \in RawTrace : ~Broken(t)}
           whole == Left(traces, WholeTraces)
           T == [t \in RawTrace |-> TraceSpans(t)]
<1>1. traces \in Seq(RawTrace) /\ \A i \in DOMAIN traces : traces[i] \in RawTrace
  BY DEF Payload
<1> HIDE DEF traces
<1>2. Keep(traces, LAMBDA t : ~Broken(t)) = whole
  <2>1. \A i \in DOMAIN traces : ~Broken(traces[i]) <=> traces[i] \in WholeTraces
    BY <1>1
  <2>2. [i \in DOMAIN traces |-> IF ~Broken(traces[i]) THEN <<traces[i]>> ELSE <<>>] =
        [i \in DOMAIN traces |-> IF traces[i] \in WholeTraces THEN <<traces[i]>> ELSE <<>>]
    BY <2>1
  <2> HIDE DEF WholeTraces
  <2> QED BY <2>2 DEF Keep, Left
<1>3. Clean(payload).traces = [i \in DOMAIN whole |-> Cleaned(whole[i])]
  <2> HIDE DEF whole
  <2>1. Clean(payload).traces = [i \in DOMAIN Keep(traces, LAMBDA t : ~Broken(t)) |->
                                   Cleaned(Keep(traces, LAMBDA t : ~Broken(t))[i])]
    BY DEF Clean, Cleaned, Payload, traces
  <2> QED BY <1>2, <2>1
<1>4. whole \in Seq(RawTrace) /\ \A i \in DOMAIN whole : whole[i] \in RawTrace
  <2>1. whole \in Seq(RawTrace \cap WholeTraces)
    <3> HIDE DEF WholeTraces
    <3> QED BY <1>1, LeftType
  <2> HIDE DEF whole
  <2> QED BY <2>1
<1>5. T \in [RawTrace -> Seq(RawSpan)] /\ \A t \in RawTrace : T[t] = TraceSpans(t)
  BY CleanedTrace
<1>6. \A t \in RawTrace : t \notin WholeTraces => T[t] = <<>>
  BY DEF TraceSpans
<1> HIDE DEF T
<1>7. Laid(T, traces) = Laid(T, whole)
  <2> HIDE DEF WholeTraces
  <2> QED BY <1>1, <1>5, <1>6, LeftOutAddsNothing
<1> HIDE DEF whole
<1>8. [i \in DOMAIN traces |-> TraceSpans(traces[i])] = [i \in DOMAIN traces |-> T[traces[i]]]
  BY <1>1, <1>5
<1>9. [i \in DOMAIN Clean(payload).traces |-> TraceSpans(Clean(payload).traces[i])] =
      [i \in DOMAIN whole |-> T[whole[i]]]
  <2>1. \A i \in DOMAIN whole : TraceSpans(Cleaned(whole[i])) = T[whole[i]]
    BY <1>4, <1>5, CleanedTrace
  <2> QED BY <1>3, <2>1
<1> QED BY <1>7, <1>8, <1>9 DEF Spans, Laid, traces

LEMMA CleanFields ==
  ASSUME NEW payload \in Payload
  PROVE  /\ Clean(payload).metrics = Keep(payload.metrics, Sound)
         /\ Clean(payload).changes = Keep(payload.changes, Sound)
         /\ Clean(payload).start = payload.start
BY DEF Clean, Payload

----------------------------------------------------------------------------
(* What an analysis has seen *)

(* What is seen when the spans, metrics and changes of a payload have been read. *)
Ingested(payload) ==
  [spans |-> Spans(payload), metrics |-> Metrics(payload), changes |-> Changes(payload),
   start |-> 0, anomalous |-> {}]

Started(payload) ==
  [Ingested(payload) EXCEPT !.start = IncidentStart(payload, Metrics(payload))]

Compared(payload) ==
  [Started(payload) EXCEPT
     !.anomalous = AnomalousSeries(Metrics(payload), IncidentStart(payload, Metrics(payload)))]

(* At each stage what has been seen is of the request in hand. *)
SeenInv ==
  /\ stage \in {"idle", "ingest"} => seen = NothingSeen
  /\ stage = "start" => seen = Ingested(serving.payload)
  /\ stage = "compare" => seen = Started(serving.payload)
  /\ stage = "reason" => seen = Compared(serving.payload)

LEMMA SeenStays == Spec => []SeenInv
<1>1. Init => SeenInv
  BY DEF Init, SeenInv
<1>2. ASSUME SeenInv, [Next]_vars
      PROVE  SeenInv'
  <2>1. CASE UNCHANGED analysis
    BY <1>2, <2>1 DEF SeenInv, analysis
  <2>2. CASE Idle
    BY <2>2 DEF Idle, SeenInv
  <2>3. ASSUME NEW request \in inbox, Accept(request) PROVE SeenInv'
    BY <1>2, <2>3 DEF Accept, SeenInv
  <2>4. CASE Ingest
    <3>1. CASE Refuse
      BY <2>2, <3>1 DEF Refuse
    <3>2. CASE ~Refuse
      <4>1. /\ stage = "ingest" /\ stage' = "start" /\ serving' = serving
            /\ seen' = [seen EXCEPT !.spans = Spans(serving.payload),
                                    !.metrics = Metrics(serving.payload),
                                    !.changes = Changes(serving.payload)]
        BY <2>4, <3>2 DEF Ingest
      <4>2. seen = NothingSeen
        BY <1>2, <4>1 DEF SeenInv
      <4> DEFINE a == Spans(serving.payload)
                 b == Metrics(serving.payload)
                 c == Changes(serving.payload)
      <4>3. seen' = [spans |-> a, metrics |-> b, changes |-> c, start |-> 0, anomalous |-> {}]
        <5>1. seen' = [seen EXCEPT !.spans = a, !.metrics = b, !.changes = c]
          BY <4>1
        <5> HIDE DEF a, b, c
        <5> QED BY <4>2, <5>1 DEF NothingSeen
      <4>4. seen' = Ingested(serving.payload)
        BY <4>3 DEF Ingested
      <4> QED BY <4>1, <4>4 DEF SeenInv
    <3> QED BY <3>1, <3>2
  <2>5. CASE DetermineStart
    <3>1. CASE Refuse
      BY <2>2, <3>1 DEF Refuse
    <3>2. CASE ~Refuse
      <4>1. /\ stage = "start" /\ stage' = "compare" /\ serving' = serving
            /\ seen' = [seen EXCEPT !.start = IncidentStart(serving.payload, seen.metrics)]
        BY <2>5, <3>2 DEF DetermineStart
      <4>2. seen' = Started(serving.payload)
        BY <1>2, <4>1 DEF SeenInv, Ingested, Started
      <4> QED BY <4>1, <4>2 DEF SeenInv
    <3> QED BY <3>1, <3>2
  <2>6. CASE CompareWithBaselines
    <3>1. /\ stage = "compare" /\ stage' = "reason" /\ serving' = serving
          /\ seen' = [seen EXCEPT !.anomalous = AnomalousSeries(seen.metrics, seen.start)]
      BY <2>6 DEF CompareWithBaselines
    <3>2. seen' = Compared(serving.payload)
      BY <1>2, <3>1 DEF SeenInv, Ingested, Started, Compared
    <3> QED BY <3>1, <3>2 DEF SeenInv
  <2>7. CASE SendAnalyze \/ SendQuery \/ Lose
    BY <2>1, <2>7 DEF SendAnalyze, SendQuery, Send, Lose
  <2>8. ASSUME NEW reply \in replies, Deliver(reply) PROVE SeenInv'
    BY <2>1, <2>8 DEF Deliver
  <2>9. ASSUME NEW request \in inbox, Answer(request) PROVE SeenInv'
    BY <2>1, <2>9 DEF Answer
  <2>10. CASE Store \/ Fail \/ Restart
    BY <2>2, <2>10 DEF Store, Fail, Refuse, Restart
  <2> QED BY <1>2, <2>1, <2>3, <2>4, <2>5, <2>6, <2>7, <2>8, <2>9, <2>10 DEF Next, vars
<1> QED BY <1>1, <1>2, PTL DEF Spec

(* The payload in hand is one that clients send. *)
LEMMA PayloadInHand ==
  ASSUME TypeOK, stage # "idle"
  PROVE  serving.payload \in Payload
<1>1. serving \in Request /\ offer \in Offers
  BY DEF TypeOK
<1>2. serving.payload \in offer.payloads \/ serving.payload = NoPayload
  BY <1>1 DEF Request
<1>3. NoPayload \in Payload
  BY DEF NoPayload, Payload
<1> QED BY <1>1, <1>2, <1>3

(* Whatever is wrong with whatever items of whatever payload: an analysis that goes on
   sees what it would see had they not been sent, the start of the incident and the
   anomalies included (the three ingesters, analyze_incident). *)
THEOREM GarbageIsIgnored == Spec => []GarbageChangesNothing
<1>1. ASSUME TypeOK, SeenInv
      PROVE  GarbageChangesNothing
  <2> SUFFICES ASSUME stage = "reason" PROVE GarbageChangesNothing
    BY DEF GarbageChangesNothing
  <2> DEFINE p == serving.payload
             clean == Clean(p)
  <2>1. p \in Payload
    BY <1>1, PayloadInHand
  <2>2. seen = Compared(p)
    BY <1>1 DEF SeenInv
  <2> HIDE DEF p
  <2>3. /\ Metrics(p) = clean.metrics /\ Changes(p) = clean.changes /\ clean.start = p.start
        /\ Spans(clean) = Spans(p)
    BY <2>1, CleanFields, MetricsAreSound, ChangesAreSound, CleanedSpans
  <2> HIDE DEF clean
  <2>4. IncidentStart(clean, clean.metrics) = IncidentStart(p, Metrics(p))
    BY <2>3 DEF IncidentStart
  <2>5. Compared(p) = [spans |-> Spans(clean), metrics |-> clean.metrics,
                       changes |-> clean.changes,
                       start |-> IncidentStart(clean, clean.metrics),
                       anomalous |-> AnomalousSeries(clean.metrics,
                                                     IncidentStart(clean, clean.metrics))]
    <3> DEFINE start == IncidentStart(p, Metrics(p))
               anomalous == AnomalousSeries(Metrics(p), start)
    <3>1. Compared(p) = [spans |-> Spans(p), metrics |-> Metrics(p), changes |-> Changes(p),
                         start |-> start, anomalous |-> anomalous]
      <4>1. Compared(p) = [[Ingested(p) EXCEPT !.start = start] EXCEPT !.anomalous = anomalous]
        BY DEF Compared, Started
      <4> HIDE DEF start, anomalous
      <4> QED BY <4>1 DEF Ingested
    <3>2. anomalous = AnomalousSeries(clean.metrics, IncidentStart(clean, clean.metrics))
      BY <2>3, <2>4
    <3> HIDE DEF anomalous
    <3> QED BY <2>3, <2>4, <3>1, <3>2
  <2> QED BY <2>2, <2>5 DEF GarbageChangesNothing, p, clean
<1> QED BY <1>1, TypeCorrect, SeenStays, PTL
=============================================================================
