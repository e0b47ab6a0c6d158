------------------------------ MODULE Iteration ------------------------------
(****************************************************************************)
(* Induction over the natural numbers in terms of sets, and what follows    *)
(* from it for functions that are defined by recursion.                     *)
(****************************************************************************)
EXTENDS Integers, SequencesExt, FiniteSetTheorems, WellFoundedInduction, TLAPS

LEMMA LeastNatural ==
  ASSUME NEW T \in SUBSET Nat, T # {}
  PROVE  \E n \in T : \A m \in T : n <= m
  <1>1. IsWellFoundedOn({ss \in Nat \X Nat : ss[1] < ss[2]}, Nat)
    BY NatLessThanWellFounded DEF OpToRel
  <1>2. PICK n \in T : \A m \in T : ~ (<<m, n>> \in {ss \in Nat \X Nat : ss[1] < ss[2]})
    BY <1>1, WFMin
  <1>3. \A m \in T : ~ (m < n)
    BY <1>2
  <1> QED
    BY <1>3

LEMMA SetInduction ==
  ASSUME NEW S, 0 \in S, \A n \in Nat : n \in S => n + 1 \in S
  PROVE  Nat \subseteq S
  <1> SUFFICES ASSUME Nat \ S # {} PROVE FALSE
    OBVIOUS
  <1>1. PICK n \in Nat \ S : \A m \in Nat \ S : n <= m
    BY LeastNatural
  <1>2. n # 0 /\ n - 1 \in Nat
    BY <1>1
  <1>3. n - 1 \in S
    BY <1>1, <1>2
  <1> QED
    BY <1>1, <1>2, <1>3

(* g begins with x and goes on by F up to n. *)
Iterates(g, F, x, n) == g[0] = x /\ \A k \in 0 .. n - 1 : g[k + 1] = F[g[k]]

LEMMA IteratesAgree ==
  ASSUME NEW F, NEW x, NEW n \in Nat, NEW g, NEW h, Iterates(g, F, x, n), Iterates(h, F, x, n)
  PROVE  \A k \in 0 .. n : g[k] = h[k]
  <1> DEFINE S == {k \in Nat : k <= n => g[k] = h[k]}
  <1>1. 0 \in S
    BY DEF Iterates
  <1>2. \A k \in Nat : k \in S => k + 1 \in S
    BY DEF Iterates
  <1>3. Nat \subseteq S
    <2> HIDE DEF S
    <2> QED
      BY <1>1, <1>2, SetInduction
  <1> QED
    BY <1>3

(* A function can be iterated for ever. *)
LEMMA Iteration ==
  ASSUME NEW X, NEW x \in X, NEW F \in [X -> X]
  PROVE  \E f \in [Nat -> X] : f[0] = x /\ \A k \in Nat : f[k + 1] = F[f[k]]
  <1> DEFINE Upto(n) == {g \in [0 .. n -> X] : Iterates(g, F, x, n)}
             S == {n \in Nat : Upto(n) # {}}
  <1>1. 0 \in S
    <2>1. [k \in 0 .. 0 |-> x] \in Upto(0)
      BY DEF Iterates
    <2> QED
      BY <2>1
  <1>2. ASSUME NEW n \in Nat, n \in S
        PROVE  n + 1 \in S
    <2>1. PICK g \in [0 .. n -> X] : Iterates(g, F, x, n)
      BY <1>2
    <2> DEFINE h == [k \in 0 .. n + 1 |-> IF k <= n THEN g[k] ELSE F[g[n]]]
    <2>2. h \in [0 .. n + 1 -> X]
      BY <2>1
    <2>3. Iterates(h, F, x, n + 1)
      BY <2>1 DEF Iterates
    <2> QED
      BY <2>2, <2>3
  <1>3. Nat \subseteq S
    <2> HIDE DEF S
    <2> QED
      BY <1>1, <1>2, SetInduction
  <1> DEFINE g(n) == CHOOSE u \in [0 .. n -> X] : Iterates(u, F, x, n)
             f == [n \in Nat |-> g(n)[n]]
  <1>4. ASSUME NEW n \in Nat
        PROVE  g(n) \in [0 .. n -> X] /\ Iterates(g(n), F, x, n)
    <2>1. \E u \in [0 .. n -> X] : Iterates(u, F, x, n)
      BY <1>3
    <2> QED
      BY <2>1
  <1>5. f \in [Nat -> X]
    <2> HIDE DEF g
    <2> QED
      BY <1>4
  <1>6. f[0] = x
    <2> HIDE DEF g
    <2> QED
      BY <1>4 DEF Iterates
  <1>7. ASSUME NEW n \in Nat
        PROVE  f[n + 1] = F[f[n]]
    <2> HIDE DEF g
    <2>1. Iterates(g(n), F, x, n) /\ Iterates(g(n + 1), F, x, n)
      BY <1>4 DEF Iterates
    <2>2. g(n)[n] = g(n + 1)[n]
      BY <2>1, IteratesAgree
    <2>3. g(n + 1)[n + 1] = F[g(n + 1)[n]]
      BY <1>4 DEF Iterates
    <2> QED
      BY <2>2, <2>3
  <1> HIDE DEF f
  <1> QED
    BY <1>5, <1>6, <1>7

Orbit(f, F, X) == f \in [Nat -> X] /\ \A k \in Nat : f[k + 1] = F[f[k]]

Grows(F, X) == F \in [SUBSET X -> SUBSET X] /\ \A A \in SUBSET X : A \subseteq F[A]

(* Sets that grow as a function of themselves have stopped to do so after as many steps *)
(* as there are elements.                                                               *)
LEMMA GrowthStops ==
  ASSUME NEW X, IsFiniteSet(X), NEW F, Grows(F, X), NEW f, Orbit(f, F, SUBSET X)
  PROVE  F[f[Cardinality(X)]] = f[Cardinality(X)]
  <1> USE DEF Grows, Orbit
  <1> PICK n \in Nat : n = Cardinality(X)
    BY FS_CardinalityType
  <1>1. ASSUME NEW k \in Nat
        PROVE  IsFiniteSet(f[k]) /\ Cardinality(f[k]) \in Nat /\ Cardinality(f[k]) <= n
    <2>1. f[k] \in SUBSET X
      OBVIOUS
    <2>2. IsFiniteSet(f[k]) /\ Cardinality(f[k]) <= Cardinality(X)
      BY <2>1, FS_Subset
    <2>3. Cardinality(f[k]) \in Nat /\ Cardinality(X) \in Nat
      BY <2>2, FS_CardinalityType
    <2> QED
      BY <2>2, <2>3
  <1>2. SUFFICES ASSUME F[f[n]] # f[n] PROVE FALSE
    OBVIOUS
  <1>3. ASSUME NEW k \in Nat, k <= n
        PROVE  f[k + 1] # f[k]
    <2> SUFFICES ASSUME f[k + 1] = f[k] PROVE FALSE
      OBVIOUS
    <2> DEFINE S == {j \in Nat : f[k + j] = f[k]}
    <2>1. 0 \in S
      OBVIOUS
    <2>2. ASSUME NEW j \in Nat, j \in S
          PROVE  j + 1 \in S
      <3>1. f[(k + j) + 1] = F[f[k + j]] /\ F[f[k]] = f[k + 1]
        OBVIOUS
      <3>2. f[k + (j + 1)] = f[k]
        BY <2>2, <3>1
      <3> QED
        BY <3>2
    <2>3. Nat \subseteq S
      <3> HIDE DEF S
      <3> QED
        BY <2>1, <2>2, SetInduction
    <2>4. n - k \in Nat /\ n + 1 - k \in Nat
      BY <1>3
    <2>5. f[k + (n - k)] = f[k] /\ f[k + (n + 1 - k)] = f[k]
      BY <2>3, <2>4
    <2> QED
      BY <1>2, <2>5
  <1> DEFINE S == {k \in Nat : k <= n + 1 => Cardinality(f[k]) >= k}
  <1>4. 0 \in S
    BY <1>1
  <1>5. ASSUME NEW k \in Nat, k \in S
        PROVE  k + 1 \in S
    <2> SUFFICES ASSUME k <= n PROVE Cardinality(f[k + 1]) >= k + 1
      OBVIOUS
    <2>1. f[k] \subseteq f[k + 1] /\ f[k] # f[k + 1]
      BY <1>3
    <2>2. /\ Cardinality(f[k]) <= Cardinality(f[k + 1])
          /\ Cardinality(f[k]) # Cardinality(f[k + 1])
      BY <1>1, <2>1, FS_Subset
    <2>3. Cardinality(f[k]) \in Nat /\ Cardinality(f[k + 1]) \in Nat /\ Cardinality(f[k]) >= k
      BY <1>1, <1>5
    <2>4. \A a, b \in Nat : a <= b /\ a # b /\ a >= k => b >= k + 1
      OBVIOUS
    <2> QED
      BY <2>2, <2>3, <2>4, Zenon
  <1>6. Nat \subseteq S
    <2> HIDE DEF S
    <2> QED
      BY <1>4, <1>5, SetInduction
  <1> QED
    BY <1>1, <1>6

LEMMA GrowthBegins ==
  ASSUME NEW D, NEW G, Grows(G, D)
  PROVE  \E h : h[0] = {} /\ Orbit(h, G, SUBSET D)
  <1> DEFINE Y == SUBSET D
  <1>1. G \in [Y -> Y]
    BY DEF Grows
  <1>2. {} \in Y
    OBVIOUS
  <1> HIDE DEF Y
  <1>3. \A e \in Y : \E h \in [Nat -> Y] : h[0] = e /\ \A k \in Nat : h[k + 1] = G[h[k]]
    BY <1>1, Iteration
  <1>4. PICK h \in [Nat -> Y] : h[0] = {} /\ \A k \in Nat : h[k + 1] = G[h[k]]
    BY <1>2, <1>3, Zenon
  <1>5. Orbit(h, G, Y)
    BY <1>4 DEF Orbit
  <1> QED
    BY <1>4, <1>5 DEF Y

(* What comes to rest at all does so after as many steps as there are places to pass. *)
LEMMA RestsInTime ==
  ASSUME NEW X, NEW R \in SUBSET X, NEW D, IsFiniteSet(D), X \ R \subseteq D,
         NEW F \in [X -> X], \A x \in R : F[x] = x,
         NEW f, Orbit(f, F, X), f[Cardinality(D) + 1] \in R
  PROVE  f[Cardinality(D)] \in R
  <1> PICK n \in Nat : n = Cardinality(D)
    BY FS_CardinalityType
  <1> DEFINE G == [A \in SUBSET D |-> A \cup {x \in X \ R : F[x] \in R \cup A}]
  <1>1. /\ G \in [SUBSET D -> SUBSET D]
        /\ \A A \in SUBSET D : G[A] = A \cup {x \in X \ R : F[x] \in R \cup A}
    OBVIOUS
  <1> HIDE DEF G
  <1>2. Grows(G, D)
    BY <1>1 DEF Grows
  <1> PICK h : h[0] = {} /\ Orbit(h, G, SUBSET D)
    BY <1>2, GrowthBegins
  <1>3. \A k \in Nat : h[k + 1] = h[k] \cup {x \in X \ R : F[x] \in R \cup h[k]}
    BY <1>1 DEF Orbit
  <1>4. h[n + 1] = h[n]
    <2>1. G[h[n]] = h[n]
      BY <1>2, GrowthStops
    <2> QED
      BY <2>1 DEF Orbit
  <1>5. \A k \in Nat : f[k] \in X /\ f[k + 1] = F[f[k]]
    BY DEF Orbit
  <1> SUFFICES ASSUME f[n] \notin R PROVE FALSE
    OBVIOUS
  <1>6. f[0] \in h[n + 1]
    <2> DEFINE S == {j \in Nat : j <= n => f[n - j] \in h[j + 1]}
    <2>1. 0 \in S
      <3>1. f[n] \in X \ R /\ F[f[n]] \in R
        BY <1>5
      <3>2. f[n] \in h[0 + 1]
        BY <1>3, <3>1, Zenon
      <3> QED
        BY <3>2
    <2>2. ASSUME NEW j \in Nat, j \in S
          PROVE  j + 1 \in S
      <3> SUFFICES ASSUME j + 1 <= n PROVE f[n - (j + 1)] \in h[(j + 1) + 1]
        OBVIOUS
      <3>1. n - (j + 1) \in Nat /\ (n - (j + 1)) + 1 = n - j
        OBVIOUS
      <3>2. F[f[n - (j + 1)]] = f[n - j] /\ f[n - (j + 1)] \in X
        BY <1>5, <3>1
      <3>3. f[n - j] \in h[j + 1]
        BY <2>2
      <3>4. f[n - (j + 1)] \notin R
        <4> SUFFICES ASSUME f[n - (j + 1)] \in R PROVE FALSE
          OBVIOUS
        <4> PICK i \in Nat : i = n - (j + 1)
          BY <3>1
        <4> DEFINE U == {k \in Nat : f[i + k] = f[i]}
        <4>1. 0 \in U
          OBVIOUS
        <4>2. ASSUME NEW k \in Nat, k \in U
              PROVE  k + 1 \in U
          <5>1. f[(i + k) + 1] = F[f[i + k]]
            BY <1>5
          <5>2. f[i + (k + 1)] = f[i]
            BY <4>2, <5>1
          <5> QED
            BY <5>2
        <4>3. Nat \subseteq U
          <5> HIDE DEF U
          <5> QED
            BY <4>1, <4>2, SetInduction
        <4>4. j + 1 \in U /\ i + (j + 1) = n
          BY <4>3
        <4> QED
          BY <4>4
      <3> QED
        BY <1>3, <3>2, <3>3, <3>4
    <2>3. Nat \subseteq S
      <3> HIDE DEF S
      <3> QED
        BY <2>1, <2>2, SetInduction
    <2>4. n \in S /\ n - n = 0
      BY <2>3
    <2> QED
      BY <2>4
  <1>7. f[n] \in R
    <2> DEFINE S == {k \in Nat : \A i \in Nat : f[i] \in h[k] => f[i + k] \in R}
    <2>1. 0 \in S
      OBVIOUS
    <2>2. ASSUME NEW k \in Nat, k \in S
          PROVE  k + 1 \in S
      <3> SUFFICES ASSUME NEW i \in Nat, f[i] \in h[k + 1] PROVE f[i + (k + 1)] \in R
        OBVIOUS
      <3>1. /\ f[(i + k) + 1] = F[f[i + k]] /\ (i + k) + 1 = i + (k + 1)
            /\ f[i + 1] = F[f[i]]
        BY <1>5
      <3>2. CASE f[i] \in h[k]
        BY <2>2, <3>1, <3>2
      <3>3. CASE F[f[i]] \in h[k]
        <4>1. f[(i + 1) + k] \in R /\ (i + 1) + k = i + (k + 1)
          BY <2>2, <3>1, <3>3
        <4> QED
          BY <4>1
      <3>4. CASE F[f[i]] \in R
        <4> DEFINE U == {m \in Nat : f[(i + 1) + m] \in R}
        <4>1. 0 \in U
          BY <3>1, <3>4
        <4>2. ASSUME NEW m \in Nat, m \in U
              PROVE  m + 1 \in U
          <5>1. f[((i + 1) + m) + 1] = F[f[(i + 1) + m]]
            BY <1>5
          <5>2. f[(i + 1) + (m + 1)] \in R
            BY <4>2, <5>1
          <5> QED
            BY <5>2
        <4>3. Nat \subseteq U
          <5> HIDE DEF U
          <5> QED
            BY <4>1, <4>2, SetInduction
        <4>4. k \in U /\ (i + 1) + k = i + (k + 1)
          BY <4>3
        <4> QED
          BY <4>4
      <3> QED
        BY <1>3, <3>2, <3>3, <3>4
    <2>3. Nat \subseteq S
      <3> HIDE DEF S
      <3> QED
        BY <2>1, <2>2, SetInduction
    <2>4. f[0 + n] \in R /\ 0 + n = n
      BY <1>4, <1>6, <2>3
    <2> QED
      BY <2>4
  <1> QED
    BY <1>7

(****************************************************************************)
(* FlattenSeq of the community modules puts sequences in a row.             *)
(****************************************************************************)
Longer(w, s, p) == w \o s[p]

(* h has what the first m sequences of s are joined to. *)
Chains(s, h, m) ==
  /\ h[1] = s[1]
  /\ \A p \in 1 .. m : p # 1 => h[p] = Longer(h[p - 1], s, p)

LEMMA Flattens ==
  ASSUME NEW X, NEW s \in Seq(Seq(X)), Len(s) # 0
  PROVE  \E g : FlattenSeq(s) = g[Len(s)] /\ Chains(s, g, Len(s))
  <1> PICK n \in Nat : n = Len(s) /\ DOMAIN s = 1 .. n /\ \A p \in 1 .. n : s[p] \in Seq(X)
    OBVIOUS
  <1> DEFINE S == {m \in Nat : m \in 1 .. n => \E h : Chains(s, h, m)}
  <1>1. 0 \in S
    OBVIOUS
  <1>2. ASSUME NEW m \in Nat, m \in S
        PROVE  m + 1 \in S
    <2> SUFFICES ASSUME m + 1 \in 1 .. n PROVE \E h : Chains(s, h, m + 1)
      OBVIOUS
    <2>1. CASE m = 0
      <3>1. Chains(s, s, m + 1)
        BY <2>1 DEF Chains
      <3> QED
        BY <3>1
    <2>2. CASE m # 0
      <3> PICK h : Chains(s, h, m)
        BY <1>2, <2>2
      <3> DEFINE k == [p \in 1 .. m + 1 |-> IF p = m + 1 THEN Longer(h[m], s, m + 1) ELSE h[p]]
      <3>1. k[m + 1] = Longer(h[m], s, m + 1) /\ \A p \in 1 .. m : k[p] = h[p]
        OBVIOUS
      <3>2. ASSUME NEW p \in 1 .. m + 1, p # 1
            PROVE  k[p] = Longer(k[p - 1], s, p)
        <4> HIDE DEF k
        <4>1. p - 1 \in 1 .. m /\ k[p - 1] = h[p - 1]
          BY <3>1, <3>2
        <4>2. CASE p = m + 1
          <5>1. p - 1 = m
            BY <4>2
          <5> QED
            BY <3>1, <4>1, <4>2, <5>1
        <4>3. CASE p # m + 1
          <5>1. p \in 1 .. m
            BY <4>3
          <5>2. h[p] = Longer(h[p - 1], s, p)
            BY <3>2, <5>1 DEF Chains
          <5> QED
            BY <3>1, <4>1, <5>1, <5>2
        <4> QED
          BY <4>2, <4>3
      <3>3. k[1] = s[1]
        <4> HIDE DEF k
        <4>1. 1 \in 1 .. m
          BY <2>2
        <4> QED
          BY <3>1, <4>1 DEF Chains
      <3>4. Chains(s, k, m + 1)
        <4> HIDE DEF k
        <4> QED
          BY <3>2, <3>3 DEF Chains
      <3> QED
        BY <3>4
    <2> QED
      BY <2>1, <2>2
  <1>3. Nat \subseteq S
    <2> HIDE DEF S
    <2> QED
      BY <1>1, <1>2, SetInduction
  <1> PICK h : Chains(s, h, n)
    BY <1>3
  <1> DEFINE Body(g) == [i \in 1 .. Len(s) |-> IF i = 1 THEN s[i] ELSE Longer(g[i - 1], s, i)]
             f == [p \in 1 .. n |-> h[p]]
             g0 == CHOOSE g : g = Body(g)
  <1>4. f = Body(f)
    <2>1. ASSUME NEW i \in 1 .. n
          PROVE  f[i] = IF i = 1 THEN s[i] ELSE Longer(f[i - 1], s, i)
      <3>1. i # 1 => i - 1 \in 1 .. n
        OBVIOUS
      <3> QED
        BY <3>1 DEF Chains
    <2> QED
      BY <2>1
  <1>5. g0 = Body(g0)
    <2> HIDE DEF Body, f
    <2> QED
      BY <1>4
  <1>6. FlattenSeq(s) = g0[Len(s)]
    BY DEF FlattenSeq, Longer
  <1> HIDE DEF g0
  <1>7. /\ Body(g0)[1] = s[1]
        /\ \A p \in 1 .. n : p # 1 => Body(g0)[p] = Longer(g0[p - 1], s, p)
    OBVIOUS
  <1> HIDE DEF Body
  <1>8. g0[1] = s[1] /\ \A p \in 1 .. n : p # 1 => g0[p] = Longer(g0[p - 1], s, p)
    BY <1>5, <1>7
  <1>9. Chains(s, g0, Len(s))
    BY <1>8 DEF Chains
  <1> QED
    BY <1>6, <1>9
==============================================================================
