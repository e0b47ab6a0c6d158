------------------------ MODULE NestedFunctionsProofs ------------------------
(***************************************************************************)
(* The variables that inner functions use, and the frames they find them   *)
(* in.                                                                     *)
(*                                                                         *)
(* The analysis and the translator see the same variables (Escape), names  *)
(* that a loop shares with another declaration excepted.  The maps of the  *)
(* two have different layers: the analysis has none for a loop, and leaves *)
(* its variable where it is when the loop ends.                            *)
(*                                                                         *)
(* A static link leads to the right frame, for every nesting of functions  *)
(* and every depth of calls (StaticLinks).                                 *)
(***************************************************************************)
EXTENDS Escape, StaticLinks, Iteration, SequenceTheorems

Bindings == [variable : Nat \ {0}, owner : Nat]
Layers == UNION {[D -> Bindings] : D \in SUBSET Names}
Maps == {m \in Seq(Layers) : Len(m) > 0}

LEMMA LayerType ==
    ASSUME NEW layer \in Layers
    PROVE  /\ DOMAIN layer \subseteq Names
           /\ \A x \in DOMAIN layer : layer[x] \in Bindings
    BY DEF Layers

LEMMA BindType ==
    ASSUME NEW layer \in Layers, NEW x \in Names, NEW v \in Bindings
    PROVE  Bind(layer, x, v) \in Layers
    <1>1. PICK D \in SUBSET Names : layer \in [D -> Bindings]
        BY DEF Layers
    <1>2. Bind(layer, x, v) \in [D \cup {x} -> Bindings]
        BY <1>1 DEF Bind
    <1>3. D \cup {x} \in SUBSET Names
        BY <1>1
    <1> QED
        BY <1>2, <1>3 DEF Layers

LEMMA EmptyLayer == <<>> \in Layers /\ DOMAIN <<>> = {}
    <1>1. <<>> \in [{} -> Bindings]
        OBVIOUS
    <1> QED
        BY <1>1 DEF Layers

LEMMA MapType ==
    ASSUME NEW m \in Maps
    PROVE  /\ Len(m) \in Nat \ {0} /\ DOMAIN m = 1 .. Len(m)
           /\ m \in Seq(Layers)
           /\ \A i \in 1 .. Len(m) : m[i] \in Layers
    BY DEF Maps

LEMMA NewLayer ==
    ASSUME NEW m \in Maps
    PROVE  /\ newLayer(m) \in Maps /\ Len(newLayer(m)) = Len(m) + 1
           /\ \A i \in 1 .. Len(m) : newLayer(m)[i] = m[i]
           /\ newLayer(m)[Len(m) + 1] = <<>>
    BY MapType, EmptyLayer DEF newLayer, Maps

LEMMA RemoveLayer ==
    ASSUME NEW m \in Maps, Len(m) > 1
    PROVE  /\ removeLastLayer(m) \in Maps /\ Len(removeLastLayer(m)) = Len(m) - 1
           /\ \A i \in 1 .. Len(m) - 1 : removeLastLayer(m)[i] = m[i]
    BY MapType DEF removeLastLayer, Maps

LEMMA Add ==
    ASSUME NEW m \in Maps, NEW x \in Names, NEW v \in Bindings
    PROVE  /\ add(m, x, v) \in Maps /\ Len(add(m, x, v)) = Len(m)
           /\ \A i \in 1 .. Len(m) - 1 : add(m, x, v)[i] = m[i]
           /\ DOMAIN add(m, x, v)[Len(m)] = DOMAIN m[Len(m)] \cup {x}
           /\ add(m, x, v)[Len(m)][x] = IF x \in DOMAIN m[Len(m)] THEN m[Len(m)][x] ELSE v
           /\ \A y \in DOMAIN m[Len(m)] : add(m, x, v)[Len(m)][y] = m[Len(m)][y]
    <1>1. m \in Seq(Layers) /\ Len(m) \in Nat \ {0} /\ m[Len(m)] \in Layers
        BY MapType
    <1>2. CASE BoundInLastLayer(m, x)
        BY <1>1, <1>2 DEF add, BoundInLastLayer, LastLayer
    <1>3. CASE ~ BoundInLastLayer(m, x)
        <2> DEFINE layer == Bind(m[Len(m)], x, v)
        <2>1. /\ layer \in Layers /\ DOMAIN layer = DOMAIN m[Len(m)] \cup {x} /\ layer[x] = v
              /\ \A y \in DOMAIN m[Len(m)] \ {x} : layer[y] = m[Len(m)][y]
            <3>1. layer \in Layers
                BY <1>1, BindType
            <3>2. /\ DOMAIN layer = DOMAIN m[Len(m)] \cup {x} /\ layer[x] = v
                  /\ \A y \in DOMAIN m[Len(m)] \ {x} : layer[y] = m[Len(m)][y]
                BY DEF Bind
            <3> QED
                BY <3>1, <3>2
        <2>2. add(m, x, v) = [m EXCEPT ![Len(m)] = layer]
            BY <1>3 DEF add
        <2> HIDE DEF layer
        <2>3. /\ add(m, x, v) \in Maps /\ Len(add(m, x, v)) = Len(m)
              /\ \A i \in 1 .. Len(m) - 1 : add(m, x, v)[i] = m[i]
              /\ add(m, x, v)[Len(m)] = layer
            BY <1>1, <2>1, <2>2 DEF Maps
        <2>4. x \notin DOMAIN m[Len(m)]
            BY <1>3 DEF BoundInLastLayer, LastLayer
        <2> QED
            BY <2>1, <2>3, <2>4
    <1> QED
        BY <1>2, <1>3
-----------------------------------------------------------------------------
(* What a lookup finds. *)

Innermost(m, x, i) ==
    /\ i \in 1 .. Len(m) /\ x \in DOMAIN m[i]
    /\ \A k \in i + 1 .. Len(m) : x \notin DOMAIN m[k]

LEMMA LookupFinds ==
    ASSUME NEW m \in Maps, NEW x, NEW none, NEW i, Innermost(m, x, i)
    PROVE  lookup(m, x, none) = m[i][x]
    <1>1. Len(m) \in Nat /\ DOMAIN m = 1 .. Len(m)
        BY MapType
    <1>2. i \in LayersWith(m, x) /\ \A j \in LayersWith(m, x) : j <= i /\ j \in 1 .. Len(m)
        BY <1>1 DEF Innermost, LayersWith
    <1>3. InnermostWith(m, x) = i
        <2>1. \A j \in LayersWith(m, x) \cup {0} :
                 (\A k \in LayersWith(m, x) : k <= j) => j = i
            BY <1>1, <1>2
        <2> QED
            BY <1>2, <2>1 DEF InnermostWith
    <1> QED
        BY <1>1, <1>2, <1>3 DEF lookup

LEMMA LookupFindsNone ==
    ASSUME NEW m \in Maps, NEW x, NEW none, \A i \in 1 .. Len(m) : x \notin DOMAIN m[i]
    PROVE  lookup(m, x, none) = none
    <1>1. LayersWith(m, x) = {}
        BY MapType DEF LayersWith
    <1>2. InnermostWith(m, x) = 0
        BY <1>1 DEF InnermostWith
    <1> QED
        BY <1>2 DEF lookup

LEMMA InnermostExists ==
    ASSUME NEW m \in Maps, NEW x, NEW i \in 1 .. Len(m), x \in DOMAIN m[i]
    PROVE  \E k : Innermost(m, x, k)
    <1> PICK n \in Nat : n = Len(m)
        BY MapType
    <1> DEFINE S == {k \in Nat : k < n /\ x \in DOMAIN m[n - k]}
    <1>1. n - i \in S
        <2>1. n - i \in Nat /\ n - i < n /\ n - (n - i) = i
            OBVIOUS
        <2> QED
            BY <2>1
    <1>2. PICK k \in S : \A l \in S : k <= l
        BY <1>1, LeastNatural
    <1>3. n - k \in 1 .. n /\ x \in DOMAIN m[n - k]
        BY <1>2
    <1>4. ASSUME NEW j \in n - k + 1 .. n, x \in DOMAIN m[j]
          PROVE  FALSE
        <2>1. n - j \in Nat /\ n - j < k /\ n - j < n /\ n - (n - j) = j
            BY <1>2
        <2> QED
            BY <1>2, <1>4, <2>1
    <1> QED
        BY <1>3, <1>4 DEF Innermost

LEMMA LookupCases ==
    ASSUME NEW m \in Maps, NEW x
    PROVE  \/ \E i : Innermost(m, x, i) /\ lookup(m, x, NoVariable) = m[i][x]
                       /\ m[i][x] \in Bindings /\ lookup(m, x, NoVariable) # NoVariable
           \/ /\ \A i \in 1 .. Len(m) : x \notin DOMAIN m[i]
              /\ lookup(m, x, NoVariable) = NoVariable
    <1>1. CASE \E i \in 1 .. Len(m) : x \in DOMAIN m[i]
        <2>1. PICK i : Innermost(m, x, i)
            BY <1>1, InnermostExists
        <2>2. m[i][x] \in Bindings
            BY <2>1, MapType, LayerType DEF Innermost
        <2>3. m[i][x] # NoVariable
            BY <2>2 DEF Bindings, NoVariable
        <2> QED
            BY <2>1, <2>2, <2>3, LookupFinds
    <1>2. CASE ~ \E i \in 1 .. Len(m) : x \in DOMAIN m[i]
        BY <1>2, LookupFindsNone
    <1> QED
        BY <1>1, <1>2
-----------------------------------------------------------------------------
(* The two maps side by side. *)

\* The layers of the translator that the analysis has too.
Shared(o, i) == i = 1 \/ o[i - 1] # "for"

\* g is where the translator has the layers of the analysis.
Placed(an, tr, o, g) ==
    /\ g \in [1 .. Len(an) -> 1 .. Len(tr)]
    /\ \A j, k \in 1 .. Len(an) : j < k => g[j] < g[k]
    /\ \A j \in 1 .. Len(an) : Shared(o, g[j])
    /\ \A i \in 1 .. Len(tr) : Shared(o, i) => \E j \in 1 .. Len(an) : g[j] = i

\* Names P, which no loop has, are bound alike in these layers, and in no other.
SameNames(an, tr, o, g, P) ==
    /\ \A j \in 1 .. Len(an), x \in P :
          /\ x \in DOMAIN an[j] <=> x \in DOMAIN tr[g[j]]
          /\ x \in DOMAIN an[j] => an[j][x] = tr[g[j]][x]
    /\ \A i \in 1 .. Len(tr), x \in P : ~ Shared(o, i) => x \notin DOMAIN tr[i]

\* The analysis knows the variables of all loops that are open, if their names
\* are in L, the names that only one loop has.
SameLoops(an, tr, g, L) ==
    \A i \in 1 .. Len(tr), l \in L :
        l \in DOMAIN tr[i] =>
            \E j \in 1 .. Len(an) : g[j] <= i /\ l \in DOMAIN an[j] /\ an[j][l] = tr[i][l]

LoopsOnce(an, L) ==
    \A j, k \in 1 .. Len(an), l \in L :
        l \in DOMAIN an[j] /\ l \in DOMAIN an[k] => j = k

\* Only names of D are bound.
BoundIn(m, D) == \A i \in 1 .. Len(m) : DOMAIN m[i] \subseteq D

SideBySide(an, tr, o, D, P, L) ==
    /\ an \in Maps /\ tr \in Maps /\ Len(tr) = Len(o) + 1
    /\ BoundIn(an, D) /\ BoundIn(tr, D) /\ LoopsOnce(an, L)
    /\ \E g : Placed(an, tr, o, g) /\ SameNames(an, tr, o, g, P) /\ SameLoops(an, tr, g, L)

\* A name the translator finds the analysis finds too, and finds the same.
LEMMA LookupsAgree ==
    ASSUME NEW an, NEW tr, NEW o, NEW D, NEW P, NEW L, SideBySide(an, tr, o, D, P, L),
           NEW x \in P \cup L, lookup(tr, x, NoVariable) # NoVariable
    PROVE  lookup(an, x, NoVariable) = lookup(tr, x, NoVariable)
    <1>1. PICK g : Placed(an, tr, o, g) /\ SameNames(an, tr, o, g, P) /\ SameLoops(an, tr, g, L)
        BY DEF SideBySide
    <1>2. /\ an \in Maps /\ tr \in Maps /\ Len(an) \in Nat /\ Len(tr) \in Nat
          /\ LoopsOnce(an, L)
        BY MapType DEF SideBySide
    <1>3. PICK i : Innermost(tr, x, i) /\ lookup(tr, x, NoVariable) = tr[i][x]
        BY <1>2, LookupCases
    <1>4. i \in 1 .. Len(tr) /\ x \in DOMAIN tr[i]
        BY <1>3 DEF Innermost
    <1>5. CASE x \in L
        <2>1. PICK j \in 1 .. Len(an) : x \in DOMAIN an[j] /\ an[j][x] = tr[i][x]
            BY <1>1, <1>4, <1>5 DEF SameLoops
        <2>2. \A k \in j + 1 .. Len(an) : x \notin DOMAIN an[k]
            <3> SUFFICES ASSUME NEW k \in j + 1 .. Len(an), x \in DOMAIN an[k] PROVE FALSE
                OBVIOUS
            <3>1. k \in 1 .. Len(an) /\ k # j
                BY <1>2
            <3> QED
                BY <1>2, <1>5, <2>1, <3>1 DEF LoopsOnce
        <2> QED
            BY <1>2, <1>3, <2>1, <2>2, LookupFinds DEF Innermost
    <1>6. CASE x \in P
        <2>1. Shared(o, i)
            BY <1>1, <1>4, <1>6 DEF SameNames
        <2>2. PICK j \in 1 .. Len(an) : g[j] = i
            BY <1>1, <1>4, <2>1 DEF Placed
        <2>3. x \in DOMAIN an[j] /\ an[j][x] = tr[i][x]
            BY <1>1, <1>4, <1>6, <2>2 DEF SameNames
        <2>4. \A k \in j + 1 .. Len(an) : x \notin DOMAIN an[k]
            <3> SUFFICES ASSUME NEW k \in j + 1 .. Len(an), x \in DOMAIN an[k] PROVE FALSE
                OBVIOUS
            <3>1. k \in 1 .. Len(an) /\ j < k
                BY <1>2
            <3>2. g[k] \in 1 .. Len(tr) /\ i < g[k]
                BY <1>1, <2>2, <3>1 DEF Placed
            <3>3. x \in DOMAIN tr[g[k]]
                BY <1>1, <1>6, <3>1 DEF SameNames
            <3>4. g[k] \in i + 1 .. Len(tr)
                BY <1>2, <1>4, <3>2
            <3> QED
                BY <1>3, <3>3, <3>4 DEF Innermost
        <2> QED
            BY <1>2, <1>3, <2>3, <2>4, LookupFinds DEF Innermost
    <1> QED
        BY <1>5, <1>6

\* Another part of the program is as good if it has the same loops.
LEMMA SameShape ==
    ASSUME NEW an, NEW tr, NEW o, NEW D, NEW P, NEW L, SideBySide(an, tr, o, D, P, L),
           NEW p, Len(p) = Len(o), \A i \in 1 .. Len(o) : p[i] = "for" <=> o[i] = "for"
    PROVE  SideBySide(an, tr, p, D, P, L)
    <1>1. PICK g : Placed(an, tr, o, g) /\ SameNames(an, tr, o, g, P) /\ SameLoops(an, tr, g, L)
        BY DEF SideBySide
    <1>2. Len(tr) \in Nat /\ Len(an) \in Nat /\ Len(tr) = Len(o) + 1
        BY MapType DEF SideBySide
    <1>3. \A i \in 1 .. Len(tr) : Shared(p, i) <=> Shared(o, i)
        <2> SUFFICES ASSUME NEW i \in 1 .. Len(tr), i # 1
                     PROVE  p[i - 1] # "for" <=> o[i - 1] # "for"
            BY DEF Shared
        <2>1. i - 1 \in 1 .. Len(o)
            BY <1>2
        <2> QED
            BY <2>1
    <1>4. Placed(an, tr, p, g) /\ SameNames(an, tr, p, g, P)
        BY <1>1, <1>3 DEF Placed, SameNames
    <1> QED
        BY <1>1, <1>4 DEF SideBySide

\* The names may be listed otherwise: a name may leave P and L, and one that
\* is not bound may come to L.
LEMMA OtherLists ==
    ASSUME NEW an, NEW tr, NEW o, NEW D, NEW P, NEW L, SideBySide(an, tr, o, D, P, L),
           NEW E, D \subseteq E, NEW Q, Q \subseteq P,
           NEW M, \A l \in M : l \in L \/ l \notin D
    PROVE  SideBySide(an, tr, o, E, Q, M)
    <1>1. PICK g : Placed(an, tr, o, g) /\ SameNames(an, tr, o, g, P) /\ SameLoops(an, tr, g, L)
        BY DEF SideBySide
    <1>2. SameNames(an, tr, o, g, Q)
        BY <1>1 DEF SameNames
    <1>3. BoundIn(an, D) /\ BoundIn(tr, D) /\ LoopsOnce(an, L)
          /\ BoundIn(an, D) /\ BoundIn(tr, D)
        BY DEF SideBySide
    <1>4. BoundIn(an, E) /\ BoundIn(tr, E)
        BY <1>3 DEF BoundIn
    <1>5. SameLoops(an, tr, g, M)
        <2> SUFFICES ASSUME NEW i \in 1 .. Len(tr), NEW l \in M, l \in DOMAIN tr[i]
                     PROVE  \E j \in 1 .. Len(an) :
                               g[j] <= i /\ l \in DOMAIN an[j] /\ an[j][l] = tr[i][l]
            BY DEF SameLoops
        <2>1. l \in L
            BY <1>3 DEF BoundIn
        <2> QED
            BY <1>1, <2>1 DEF SameLoops
    <1>6. LoopsOnce(an, M)
        <2> SUFFICES ASSUME NEW j \in 1 .. Len(an), NEW k \in 1 .. Len(an), NEW l \in M,
                            l \in DOMAIN an[j], l \in DOMAIN an[k]
                     PROVE  j = k
            BY DEF LoopsOnce
        <2>1. l \in L
            BY <1>3 DEF BoundIn
        <2> QED
            BY <1>3, <2>1 DEF LoopsOnce
    <1> QED
        BY <1>1, <1>2, <1>4, <1>5, <1>6 DEF SideBySide

\* A scope or a function is opened.
LEMMA BothOpen ==
    ASSUME NEW an, NEW tr, NEW o, NEW D, NEW P, NEW L, SideBySide(an, tr, o, D, P, L), Len(o) \in Nat,
           NEW p, Len(p) = Len(o) + 1, p[Len(o) + 1] # "for",
           \A i \in 1 .. Len(o) : p[i] = "for" <=> o[i] = "for"
    PROVE  SideBySide(newLayer(an), newLayer(tr), p, D, P, L)
    <1>1. PICK g : Placed(an, tr, o, g) /\ SameNames(an, tr, o, g, P) /\ SameLoops(an, tr, g, L)
        BY DEF SideBySide
    <1> PICK a, t \in Nat \ {0} : a = Len(an) /\ t = Len(tr)
        BY MapType DEF SideBySide
    <1> DEFINE bn == newLayer(an)
               ur == newLayer(tr)
               h == [j \in 1 .. a + 1 |-> IF j <= a THEN g[j] ELSE t + 1]
    <1>2. /\ an \in Maps /\ tr \in Maps /\ Len(o) = t - 1 /\ LoopsOnce(an, L)
          /\ BoundIn(an, D) /\ BoundIn(tr, D)
        BY DEF SideBySide
    <1>3. /\ bn \in Maps /\ Len(bn) = a + 1 /\ \A i \in 1 .. a : bn[i] = an[i]
          /\ DOMAIN bn[a + 1] = {}
        BY <1>2, NewLayer, EmptyLayer
    <1>4. /\ ur \in Maps /\ Len(ur) = t + 1 /\ \A i \in 1 .. t : ur[i] = tr[i]
          /\ DOMAIN ur[t + 1] = {}
        BY <1>2, NewLayer, EmptyLayer
    <1> HIDE DEF bn, ur
    <1>5. /\ \A i \in 1 .. t : Shared(p, i) <=> Shared(o, i)
          /\ Shared(p, t + 1)
        <2>1. \A i \in 1 .. t : i # 1 => i - 1 \in 1 .. Len(o)
            BY <1>2
        <2>2. p[(t + 1) - 1] # "for"
            BY <1>2
        <2> QED
            BY <2>1, <2>2 DEF Shared
    <1>6. /\ \A j \in 1 .. a : h[j] = g[j] /\ h[j] \in 1 .. t
          /\ h[a + 1] = t + 1 /\ h \in [1 .. a + 1 -> 1 .. t + 1]
        <2>1. \A j \in 1 .. a : g[j] \in 1 .. t
            BY <1>1 DEF Placed
        <2>2. \A j \in 1 .. a : j \in 1 .. a + 1 /\ j <= a
            OBVIOUS
        <2>3. a + 1 \in 1 .. a + 1 /\ ~ (a + 1 <= a)
            OBVIOUS
        <2>4. \A j \in 1 .. a + 1 : j \in 1 .. a \/ j = a + 1
            OBVIOUS
        <2>5. 1 .. t \subseteq 1 .. t + 1 /\ t + 1 \in 1 .. t + 1
            OBVIOUS
        <2>6. (\A j \in 1 .. a : h[j] = g[j]) /\ h[a + 1] = t + 1
            BY <2>2, <2>3, Zenon
        <2>7. h \in [1 .. a + 1 -> 1 .. t + 1]
            BY <2>1, <2>2, <2>3, <2>4, <2>5
        <2> QED
            BY <2>1, <2>6, <2>7
    <1> HIDE DEF h
    <1>7. Placed(bn, ur, p, h)
        <2>1. ASSUME NEW j \in 1 .. a + 1, NEW k \in 1 .. a + 1, j < k
              PROVE  h[j] < h[k]
            <3>1. j \in 1 .. a /\ (k \in 1 .. a \/ k = a + 1)
                BY <2>1
            <3>2. CASE k \in 1 .. a
                BY <1>1, <1>6, <2>1, <3>1, <3>2 DEF Placed
            <3>3. CASE k = a + 1
                BY <1>6, <3>1, <3>3
            <3> QED
                BY <3>1, <3>2, <3>3
        <2>2. \A j \in 1 .. a + 1 : Shared(p, h[j])
            BY <1>1, <1>5, <1>6 DEF Placed
        <2>3. ASSUME NEW i \in 1 .. t + 1, Shared(p, i)
              PROVE  \E j \in 1 .. a + 1 : h[j] = i
            <3>1. CASE i = t + 1
                <4>1. a + 1 \in 1 .. a + 1
                    OBVIOUS
                <4> QED
                    BY <1>6, <3>1, <4>1, Zenon
            <3>2. CASE i \in 1 .. t
                <4>1. PICK j \in 1 .. a : g[j] = i
                    BY <1>1, <1>5, <2>3, <3>2 DEF Placed
                <4> QED
                    BY <1>6, <4>1
            <3> QED
                BY <3>1, <3>2
        <2> QED
            BY <1>3, <1>4, <1>6, <2>1, <2>2, <2>3 DEF Placed
    <1>8. SameNames(bn, ur, p, h, P)
        <2>1. ASSUME NEW j \in 1 .. a + 1, NEW x \in P
              PROVE  /\ x \in DOMAIN bn[j] <=> x \in DOMAIN ur[h[j]]
                     /\ x \in DOMAIN bn[j] => bn[j][x] = ur[h[j]][x]
            <3>1. CASE j = a + 1
                BY <1>3, <1>4, <1>6, <3>1
            <3>2. CASE j \in 1 .. a
                BY <1>1, <1>3, <1>4, <1>6, <3>2 DEF SameNames
            <3> QED
                BY <3>1, <3>2
        <2>2. ASSUME NEW i \in 1 .. t + 1, NEW x \in P, ~ Shared(p, i)
              PROVE  x \notin DOMAIN ur[i]
            <3>1. i # t + 1 /\ i \in 1 .. t
                BY <1>5, <2>2
            <3>2. ~ Shared(o, i) /\ ur[i] = tr[i]
                BY <1>4, <1>5, <2>2, <3>1
            <3> QED
                BY <1>1, <3>1, <3>2 DEF SameNames
        <2> QED
            BY <1>3, <1>4, <2>1, <2>2 DEF SameNames
    <1>9. SameLoops(bn, ur, h, L)
        <2> SUFFICES ASSUME NEW i \in 1 .. t + 1, NEW l \in L, l \in DOMAIN ur[i]
                     PROVE  \E j \in 1 .. a + 1 :
                               h[j] <= i /\ l \in DOMAIN bn[j] /\ bn[j][l] = ur[i][l]
            <3>1. Len(bn) = a + 1 /\ Len(ur) = t + 1
                BY <1>3, <1>4
            <3> QED
                BY <3>1 DEF SameLoops
        <2>1. i \in 1 .. t
            BY <1>4
        <2>2. PICK j \in 1 .. a : g[j] <= i /\ l \in DOMAIN an[j] /\ an[j][l] = tr[i][l]
            BY <1>1, <1>4, <2>1 DEF SameLoops
        <2> QED
            BY <1>3, <1>4, <1>6, <2>1, <2>2
    <1>10. LoopsOnce(bn, L) /\ BoundIn(bn, D) /\ BoundIn(ur, D)
        <2>1. \A n \in Nat : \A i \in 1 .. n + 1 : i \in 1 .. n \/ i = n + 1
            OBVIOUS
        <2>2. LoopsOnce(bn, L)
            BY <1>2, <1>3 DEF LoopsOnce
        <2> QED
            BY <1>2, <1>3, <1>4, <2>1, <2>2 DEF BoundIn
    <1>11. Len(ur) = Len(p) + 1
        BY <1>2, <1>4
    <1> QED
        BY <1>3, <1>4, <1>7, <1>8, <1>9, <1>10, <1>11 DEF SideBySide, bn, ur

\* If the innermost layer is shared it is that of both.
LEMMA LastOfBoth ==
    ASSUME NEW an, NEW tr, NEW o, Len(an) \in Nat \ {0}, Len(tr) \in Nat \ {0},
           NEW g, Placed(an, tr, o, g), Shared(o, Len(tr))
    PROVE  /\ g[Len(an)] = Len(tr)
           /\ \A j \in 1 .. Len(an) - 1 : g[j] \in 1 .. Len(tr) - 1
           /\ Len(tr) > 1 => Len(an) > 1
    <1> PICK a, t \in Nat \ {0} : a = Len(an) /\ t = Len(tr)
        OBVIOUS
    <1>1. /\ \A j \in 1 .. a : g[j] \in 1 .. t
          /\ \A j, k \in 1 .. a : j < k => g[j] < g[k]
          /\ \A i \in 1 .. t : Shared(o, i) => \E j \in 1 .. a : g[j] = i
        BY DEF Placed
    <1>2. PICK j \in 1 .. a : g[j] = t
        BY <1>1
    <1>3. j = a
        <2> SUFFICES ASSUME j < a PROVE FALSE
            OBVIOUS
        <2>1. a \in 1 .. a
            OBVIOUS
        <2>2. g[a] \in 1 .. t /\ t < g[a]
            BY <1>1, <1>2, <2>1
        <2> QED
            BY <2>2
    <1>4. ASSUME NEW k \in 1 .. a - 1
          PROVE  g[k] \in 1 .. t - 1
        <2>1. k \in 1 .. a /\ k < a /\ a \in 1 .. a
            OBVIOUS
        <2>2. g[k] \in 1 .. t /\ g[k] < t
            BY <1>1, <1>2, <1>3, <2>1
        <2> QED
            BY <2>2
    <1>5. ASSUME t > 1, a = 1
          PROVE  FALSE
        <2>1. 1 \in 1 .. t /\ Shared(o, 1)
            BY DEF Shared
        <2>2. PICK k \in 1 .. a : g[k] = 1
            BY <1>1, <2>1
        <2>3. k = a
            BY <1>5
        <2> QED
            BY <1>2, <1>3, <1>5, <2>2, <2>3
    <1> QED
        BY <1>2, <1>3, <1>4, <1>5

\* A variable or a parameter is declared.
LEMMA BothAdd ==
    ASSUME NEW an, NEW tr, NEW o, NEW D, NEW P, NEW L, SideBySide(an, tr, o, D, P, L),
           Shared(o, Len(tr)),
           NEW name \in Names, name \in D, name \notin L, NEW v \in Bindings
    PROVE  SideBySide(add(an, name, v), add(tr, name, v), o, D, P, L)
    <1>1. PICK g : Placed(an, tr, o, g) /\ SameNames(an, tr, o, g, P) /\ SameLoops(an, tr, g, L)
        BY DEF SideBySide
    <1> PICK a, t \in Nat \ {0} : a = Len(an) /\ t = Len(tr)
        BY MapType DEF SideBySide
    <1> DEFINE bn == add(an, name, v)
               ur == add(tr, name, v)
    <1>2. /\ an \in Maps /\ tr \in Maps /\ Len(o) = t - 1 /\ LoopsOnce(an, L)
          /\ BoundIn(an, D) /\ BoundIn(tr, D)
        BY DEF SideBySide
    <1>3. /\ bn \in Maps /\ Len(bn) = a /\ \A i \in 1 .. a - 1 : bn[i] = an[i]
          /\ DOMAIN bn[a] = DOMAIN an[a] \cup {name}
          /\ bn[a][name] = IF name \in DOMAIN an[a] THEN an[a][name] ELSE v
          /\ \A y \in DOMAIN an[a] : bn[a][y] = an[a][y]
        BY <1>2, Add
    <1>4. /\ ur \in Maps /\ Len(ur) = t /\ \A i \in 1 .. t - 1 : ur[i] = tr[i]
          /\ DOMAIN ur[t] = DOMAIN tr[t] \cup {name}
          /\ ur[t][name] = IF name \in DOMAIN tr[t] THEN tr[t][name] ELSE v
          /\ \A y \in DOMAIN tr[t] : ur[t][y] = tr[t][y]
        BY <1>2, Add
    <1> HIDE DEF bn, ur
    <1>5. g[a] = t /\ \A j \in 1 .. a - 1 : g[j] \in 1 .. t - 1
        BY <1>1, LastOfBoth
    <1>6. \A n \in Nat \ {0} : /\ n \in 1 .. n
                               /\ \A i \in 1 .. n : i = n \/ i \in 1 .. n - 1
                               /\ \A i \in 1 .. n - 1 : i \in 1 .. n
        OBVIOUS
    <1>7. Placed(bn, ur, o, g)
        BY <1>1, <1>3, <1>4 DEF Placed
    <1>8. SameNames(bn, ur, o, g, P)
        <2>1. ASSUME NEW j \in 1 .. a, NEW x \in P
              PROVE  /\ x \in DOMAIN bn[j] <=> x \in DOMAIN ur[g[j]]
                     /\ x \in DOMAIN bn[j] => bn[j][x] = ur[g[j]][x]
            <3>0. /\ x \in DOMAIN an[j] <=> x \in DOMAIN tr[g[j]]
                  /\ x \in DOMAIN an[j] => an[j][x] = tr[g[j]][x]
                BY <1>1 DEF SameNames
            <3>1. CASE j = a /\ x = name
                BY <1>3, <1>4, <1>5, <3>0, <3>1, Zenon
            <3>2. CASE j = a /\ x # name
                BY <1>3, <1>4, <1>5, <3>0, <3>2, Zenon
            <3>3. CASE j \in 1 .. a - 1
                BY <1>3, <1>4, <1>5, <3>0, <3>3, Zenon
            <3> QED
                BY <1>6, <3>1, <3>2, <3>3
        <2>2. ASSUME NEW i \in 1 .. t, NEW x \in P, ~ Shared(o, i)
              PROVE  x \notin DOMAIN ur[i]
            <3>1. i # t
                BY <2>2
            <3>2. i \in 1 .. t - 1
                BY <1>6, <3>1
            <3> QED
                BY <1>1, <1>4, <2>2, <3>2 DEF SameNames
        <2> QED
            BY <1>3, <1>4, <2>1, <2>2 DEF SameNames
    <1>9. \A j \in 1 .. a, l \in L :
             /\ l \in DOMAIN bn[j] <=> l \in DOMAIN an[j]
             /\ l \in DOMAIN an[j] => bn[j][l] = an[j][l]
        <2> SUFFICES ASSUME NEW j \in 1 .. a, NEW l \in L
                     PROVE  /\ l \in DOMAIN bn[j] <=> l \in DOMAIN an[j]
                            /\ l \in DOMAIN an[j] => bn[j][l] = an[j][l]
            OBVIOUS
        <2>1. l # name
            OBVIOUS
        <2>2. CASE j = a
            BY <1>3, <2>1, <2>2, Zenon
        <2>3. CASE j \in 1 .. a - 1
            BY <1>3, <2>3, Zenon
        <2> QED
            BY <1>6, <2>2, <2>3
    <1>10. \A i \in 1 .. t, l \in L :
             l \in DOMAIN ur[i] => l \in DOMAIN tr[i] /\ ur[i][l] = tr[i][l]
        <2> SUFFICES ASSUME NEW i \in 1 .. t, NEW l \in L, l \in DOMAIN ur[i]
                     PROVE  l \in DOMAIN tr[i] /\ ur[i][l] = tr[i][l]
            OBVIOUS
        <2>1. l # name
            OBVIOUS
        <2>2. CASE i = t
            BY <1>4, <2>1, <2>2, Zenon
        <2>3. CASE i \in 1 .. t - 1
            BY <1>4, <2>3, Zenon
        <2> QED
            BY <1>6, <2>2, <2>3
    <1>11. SameLoops(bn, ur, g, L)
        <2> SUFFICES ASSUME NEW i \in 1 .. t, NEW l \in L, l \in DOMAIN ur[i]
                     PROVE  \E j \in 1 .. a :
                               g[j] <= i /\ l \in DOMAIN bn[j] /\ bn[j][l] = ur[i][l]
            BY <1>3, <1>4 DEF SameLoops
        <2>1. PICK j \in 1 .. a : g[j] <= i /\ l \in DOMAIN an[j] /\ an[j][l] = tr[i][l]
            BY <1>1, <1>10 DEF SameLoops
        <2> QED
            BY <1>9, <1>10, <2>1, Zenon
    <1>12. LoopsOnce(bn, L) /\ BoundIn(bn, D) /\ BoundIn(ur, D)
        <2>1. LoopsOnce(bn, L)
            BY <1>2, <1>3, <1>9 DEF LoopsOnce
        <2> QED
            BY <1>2, <1>3, <1>4, <1>6, <2>1 DEF BoundIn
    <1> QED
        BY <1>2, <1>3, <1>4, <1>7, <1>8, <1>11, <1>12 DEF SideBySide, bn, ur

\* A scope or a function is closed.
LEMMA BothClose ==
    ASSUME NEW an, NEW tr, NEW o, NEW D, NEW P, NEW L, SideBySide(an, tr, o, D, P, L),
           Len(o) \in Nat \ {0}, o[Len(o)] # "for",
           NEW p, Len(p) = Len(o) - 1, \A i \in 1 .. Len(o) - 1 : p[i] = o[i]
    PROVE  SideBySide(removeLastLayer(an), removeLastLayer(tr), p, D, P, L)
    <1>1. PICK g : Placed(an, tr, o, g) /\ SameNames(an, tr, o, g, P) /\ SameLoops(an, tr, g, L)
        BY DEF SideBySide
    <1> PICK a, t \in Nat \ {0} : a = Len(an) /\ t = Len(tr)
        BY MapType DEF SideBySide
    <1> DEFINE bn == removeLastLayer(an)
               ur == removeLastLayer(tr)
    <1>2. an \in Maps /\ tr \in Maps /\ Len(o) = t - 1 /\ t > 1 /\ LoopsOnce(an, L)
          /\ BoundIn(an, D) /\ BoundIn(tr, D)
        BY DEF SideBySide
    <1>3. Shared(o, t)
        BY <1>2 DEF Shared
    <1>4. g[a] = t /\ (\A j \in 1 .. a - 1 : g[j] \in 1 .. t - 1) /\ a > 1
        BY <1>1, <1>2, <1>3, LastOfBoth
    <1>5. bn \in Maps /\ Len(bn) = a - 1 /\ \A i \in 1 .. a - 1 : bn[i] = an[i]
        BY <1>2, <1>4, RemoveLayer
    <1>6. ur \in Maps /\ Len(ur) = t - 1 /\ \A i \in 1 .. t - 1 : ur[i] = tr[i]
        BY <1>2, RemoveLayer
    <1> HIDE DEF bn, ur
    <1>7. \A i \in 1 .. t - 1 : Shared(p, i) <=> Shared(o, i)
        <2>1. \A i \in 1 .. t - 1 : i # 1 => i - 1 \in 1 .. Len(o) - 1
            BY <1>2
        <2> QED
            BY <2>1 DEF Shared
    <1>8. /\ \A j \in 1 .. a - 1 : j \in 1 .. a
          /\ \A i \in 1 .. t - 1 : i \in 1 .. t
          /\ \A i \in 1 .. t - 1 : i < t
          /\ \A j \in 1 .. a : j = a \/ j \in 1 .. a - 1
        OBVIOUS
    <1> DEFINE h == [j \in 1 .. a - 1 |-> g[j]]
    <1>9. h \in [1 .. a - 1 -> 1 .. t - 1] /\ \A j \in 1 .. a - 1 : h[j] = g[j]
        BY <1>4
    <1> HIDE DEF h
    <1>10. Placed(bn, ur, p, h)
        <2>1. /\ \A j, k \in 1 .. a - 1 : j < k => h[j] < h[k]
              /\ \A j \in 1 .. a - 1 : Shared(o, h[j])
            BY <1>1, <1>8, <1>9 DEF Placed
        <2>2. \A j \in 1 .. a - 1 : Shared(p, h[j])
            BY <1>7, <1>9, <2>1
        <2>3. ASSUME NEW i \in 1 .. t - 1, Shared(p, i)
              PROVE  \E j \in 1 .. a - 1 : h[j] = i
            <3>1. PICK j \in 1 .. a : g[j] = i
                BY <1>1, <1>7, <1>8, <2>3 DEF Placed
            <3>2. j # a
                BY <1>4, <1>8, <3>1
            <3> QED
                BY <1>8, <1>9, <3>1, <3>2
        <2> QED
            BY <1>5, <1>6, <1>9, <2>1, <2>2, <2>3 DEF Placed
    <1>11. SameNames(bn, ur, p, h, P)
        <2>1. ASSUME NEW j \in 1 .. a - 1, NEW x \in P
              PROVE  /\ x \in DOMAIN bn[j] <=> x \in DOMAIN ur[h[j]]
                     /\ x \in DOMAIN bn[j] => bn[j][x] = ur[h[j]][x]
            <3>1. bn[j] = an[j] /\ h[j] = g[j] /\ ur[g[j]] = tr[g[j]] /\ j \in 1 .. a
                BY <1>4, <1>5, <1>6, <1>8, <1>9
            <3> QED
                BY <1>1, <3>1 DEF SameNames
        <2>2. ASSUME NEW i \in 1 .. t - 1, NEW x \in P, ~ Shared(p, i)
              PROVE  x \notin DOMAIN ur[i]
            BY <1>1, <1>6, <1>7, <1>8, <2>2 DEF SameNames
        <2> QED
            BY <1>5, <1>6, <2>1, <2>2 DEF SameNames
    <1>12. SameLoops(bn, ur, h, L)
        <2> SUFFICES ASSUME NEW i \in 1 .. t - 1, NEW l \in L, l \in DOMAIN ur[i]
                     PROVE  \E j \in 1 .. a - 1 :
                               h[j] <= i /\ l \in DOMAIN bn[j] /\ bn[j][l] = ur[i][l]
            BY <1>5, <1>6 DEF SameLoops
        <2>1. ur[i] = tr[i] /\ i \in 1 .. t
            BY <1>6, <1>8
        <2>2. PICK j \in 1 .. a : g[j] <= i /\ l \in DOMAIN an[j] /\ an[j][l] = tr[i][l]
            BY <1>1, <2>1 DEF SameLoops
        <2>3. j # a
            <3>1. ~ (t <= i)
                BY <1>8
            <3> QED
                BY <1>4, <2>2, <3>1
        <2>4. j \in 1 .. a - 1 /\ bn[j] = an[j] /\ h[j] = g[j]
            BY <1>5, <1>8, <1>9, <2>3
        <2> QED
            BY <2>1, <2>2, <2>4
    <1>13. LoopsOnce(bn, L) /\ BoundIn(bn, D) /\ BoundIn(ur, D)
        BY <1>2, <1>5, <1>6, <1>8 DEF LoopsOnce, BoundIn
    <1>14. Len(ur) = Len(p) + 1
        BY <1>2, <1>6
    <1> QED
        BY <1>5, <1>6, <1>10, <1>11, <1>12, <1>13, <1>14 DEF SideBySide, bn, ur

\* A loop begins: the translator has a layer more.
LEMMA LoopOpens ==
    ASSUME NEW an, NEW tr, NEW o, NEW D, NEW P, NEW L, SideBySide(an, tr, o, D, P, L), Len(o) \in Nat,
           NEW name \in Names, name \notin P, name \in L => name \notin D, NEW v \in Bindings,
           NEW p, Len(p) = Len(o) + 1, p[Len(o) + 1] = "for",
           \A i \in 1 .. Len(o) : p[i] = "for" <=> o[i] = "for",
           NEW E, D \cup {name} \subseteq E
    PROVE  SideBySide(add(an, name, v), add(newLayer(tr), name, v), p, E, P, L)
    <1>1. PICK g : Placed(an, tr, o, g) /\ SameNames(an, tr, o, g, P) /\ SameLoops(an, tr, g, L)
        BY DEF SideBySide
    <1> PICK a, t \in Nat \ {0} : a = Len(an) /\ t = Len(tr)
        BY MapType DEF SideBySide
    <1> DEFINE bn == add(an, name, v)
               ur == add(newLayer(tr), name, v)
    <1>2. /\ an \in Maps /\ tr \in Maps /\ Len(o) = t - 1 /\ LoopsOnce(an, L)
          /\ BoundIn(an, D) /\ BoundIn(tr, D)
        BY DEF SideBySide
    <1>3. a \in 1 .. a /\ (name \in L => \A j \in 1 .. a : name \notin DOMAIN an[j])
        BY <1>2 DEF BoundIn
    <1>4. /\ bn \in Maps /\ Len(bn) = a /\ \A i \in 1 .. a - 1 : bn[i] = an[i]
          /\ DOMAIN bn[a] = DOMAIN an[a] \cup {name} /\ (name \in L => bn[a][name] = v)
          /\ \A y \in DOMAIN an[a] : bn[a][y] = an[a][y]
        BY <1>2, <1>3, Add
    <1>5. /\ ur \in Maps /\ Len(ur) = t + 1 /\ \A i \in 1 .. t : ur[i] = tr[i]
          /\ DOMAIN ur[t + 1] = {name} /\ ur[t + 1][name] = v
        <2> PICK new : new = newLayer(tr)
            OBVIOUS
        <2>1. /\ new \in Maps /\ Len(new) = t + 1 /\ \A i \in 1 .. t : new[i] = tr[i]
              /\ DOMAIN new[t + 1] = {}
            BY <1>2, NewLayer, EmptyLayer
        <2>2. /\ ur \in Maps /\ Len(ur) = t + 1 /\ \A i \in 1 .. (t + 1) - 1 : ur[i] = new[i]
              /\ DOMAIN ur[t + 1] = {} \cup {name} /\ ur[t + 1][name] = v
            <3>1. new \in Maps
                BY <1>2, <2>1
            <3>2. /\ add(new, name, v) \in Maps /\ Len(add(new, name, v)) = Len(new)
                  /\ \A i \in 1 .. Len(new) - 1 : add(new, name, v)[i] = new[i]
                  /\ DOMAIN add(new, name, v)[Len(new)] = DOMAIN new[Len(new)] \cup {name}
                  /\ add(new, name, v)[Len(new)][name] =
                        IF name \in DOMAIN new[Len(new)] THEN new[Len(new)][name] ELSE v
                BY <3>1, Add
            <3> QED
                BY <2>1, <3>2
        <2> QED
            BY <2>1, <2>2
    <1> HIDE DEF bn, ur
    <1>6. \A j \in 1 .. a : j = a \/ j \in 1 .. a - 1
        OBVIOUS
    <1>7. \A i \in 1 .. t + 1 : i = t + 1 \/ i \in 1 .. t
        OBVIOUS
    <1>8. \A j \in 1 .. a : \A x : x # name =>
             /\ x \in DOMAIN bn[j] <=> x \in DOMAIN an[j]
             /\ x \in DOMAIN an[j] => bn[j][x] = an[j][x]
        <2> SUFFICES ASSUME NEW j \in 1 .. a, NEW x, x # name
                     PROVE  /\ x \in DOMAIN bn[j] <=> x \in DOMAIN an[j]
                            /\ x \in DOMAIN an[j] => bn[j][x] = an[j][x]
            OBVIOUS
        <2>1. CASE j = a
            BY <1>4, <2>1, Zenon
        <2>2. CASE j \in 1 .. a - 1
            BY <1>4, <2>2, Zenon
        <2> QED
            BY <1>6, <2>1, <2>2
    <1>9. /\ \A i \in 1 .. t : Shared(p, i) <=> Shared(o, i)
          /\ ~ Shared(p, t + 1)
        <2>1. \A i \in 1 .. t : i # 1 => i - 1 \in 1 .. Len(o)
            BY <1>2
        <2>2. p[(t + 1) - 1] = "for" /\ t + 1 # 1
            BY <1>2
        <2> QED
            BY <2>1, <2>2 DEF Shared
    <1>10. /\ \A j \in 1 .. a : g[j] \in 1 .. t
           /\ g \in [1 .. a -> 1 .. t]
        BY <1>1 DEF Placed
    <1>11. Placed(bn, ur, p, g)
        <2>1. g \in [1 .. a -> 1 .. t + 1]
            BY <1>10
        <2>2. /\ \A j, k \in 1 .. a : j < k => g[j] < g[k]
              /\ \A j \in 1 .. a : Shared(o, g[j])
              /\ \A i \in 1 .. t : Shared(o, i) => \E j \in 1 .. a : g[j] = i
            BY <1>1 DEF Placed
        <2>3. \A j \in 1 .. a : Shared(p, g[j])
            BY <1>9, <1>10, <2>2
        <2>4. \A i \in 1 .. t + 1 : Shared(p, i) => \E j \in 1 .. a : g[j] = i
            BY <1>7, <1>9, <2>2
        <2> QED
            BY <1>4, <1>5, <2>1, <2>2, <2>3, <2>4 DEF Placed
    <1>12. SameNames(bn, ur, p, g, P)
        <2>1. ASSUME NEW j \in 1 .. a, NEW x \in P
              PROVE  /\ x \in DOMAIN bn[j] <=> x \in DOMAIN ur[g[j]]
                     /\ x \in DOMAIN bn[j] => bn[j][x] = ur[g[j]][x]
            <3>1. x # name
                OBVIOUS
            <3>2. ur[g[j]] = tr[g[j]]
                BY <1>5, <1>10
            <3> QED
                BY <1>1, <1>8, <3>1, <3>2 DEF SameNames
        <2>2. ASSUME NEW i \in 1 .. t + 1, NEW x \in P, ~ Shared(p, i)
              PROVE  x \notin DOMAIN ur[i]
            <3>1. x # name
                OBVIOUS
            <3>2. CASE i = t + 1
                BY <1>5, <3>1, <3>2, Zenon
            <3>3. CASE i \in 1 .. t
                BY <1>1, <1>5, <1>9, <2>2, <3>3 DEF SameNames
            <3> QED
                BY <1>7, <3>2, <3>3
        <2> QED
            BY <1>4, <1>5, <2>1, <2>2 DEF SameNames
    <1>13. SameLoops(bn, ur, g, L)
        <2> SUFFICES ASSUME NEW i \in 1 .. t + 1, NEW l \in L, l \in DOMAIN ur[i]
                     PROVE  \E j \in 1 .. a :
                               g[j] <= i /\ l \in DOMAIN bn[j] /\ bn[j][l] = ur[i][l]
            BY <1>4, <1>5 DEF SameLoops
        <2>1. CASE i = t + 1
            <3>1. l = name
                BY <1>5, <2>1
            <3>2. g[a] <= i
                BY <1>3, <1>10, <2>1
            <3>3. l \in DOMAIN bn[a] /\ bn[a][l] = ur[i][l]
                BY <1>4, <1>5, <2>1, <3>1
            <3> QED
                BY <1>3, <3>2, <3>3
        <2>2. CASE i \in 1 .. t
            <3>1. ur[i] = tr[i]
                BY <1>5, <2>2
            <3>2. PICK j \in 1 .. a : g[j] <= i /\ l \in DOMAIN an[j] /\ an[j][l] = tr[i][l]
                BY <1>1, <2>2, <3>1 DEF SameLoops
            <3>3. l # name
                BY <1>3, <3>2
            <3> QED
                BY <1>8, <3>1, <3>2, <3>3
        <2> QED
            BY <1>7, <2>1, <2>2
    <1>14. LoopsOnce(bn, L) /\ BoundIn(bn, E) /\ BoundIn(ur, E)
        <2>1. ASSUME NEW j \in 1 .. a, NEW k \in 1 .. a, NEW l \in L,
                     l \in DOMAIN bn[j], l \in DOMAIN bn[k]
              PROVE  j = k
            <3>1. CASE l = name
                <4>1. \A i \in 1 .. a - 1 : i \in 1 .. a /\ name \notin DOMAIN bn[i]
                    BY <1>3, <1>4, <3>1
                <4> QED
                    BY <1>6, <2>1, <3>1, <4>1
            <3>2. CASE l # name
                BY <1>2, <1>8, <2>1, <3>2 DEF LoopsOnce
            <3> QED
                BY <3>1, <3>2
        <2>2. BoundIn(bn, E)
            <3> SUFFICES ASSUME NEW j \in 1 .. a, NEW x \in DOMAIN bn[j], x # name
                         PROVE  x \in E
                BY <1>4 DEF BoundIn
            <3>1. x \in DOMAIN an[j]
                BY <1>8
            <3> QED
                BY <1>2, <3>1 DEF BoundIn
        <2>3. BoundIn(ur, E)
            <3>1. \A i \in 1 .. t : DOMAIN ur[i] \subseteq E
                BY <1>2, <1>5 DEF BoundIn
            <3> QED
                BY <1>5, <1>7, <3>1 DEF BoundIn
        <2> QED
            BY <1>4, <2>1, <2>2, <2>3 DEF LoopsOnce
    <1>15. Len(ur) = Len(p) + 1
        BY <1>2, <1>5
    <1> QED
        BY <1>4, <1>5, <1>11, <1>12, <1>13, <1>14, <1>15 DEF SideBySide, bn, ur

\* A loop ends: its variable remains with the analysis.
LEMMA LoopCloses ==
    ASSUME NEW an, NEW tr, NEW o, NEW D, NEW P, NEW L, SideBySide(an, tr, o, D, P, L),
           Len(o) \in Nat \ {0}, o[Len(o)] = "for",
           NEW p, Len(p) = Len(o) - 1, \A i \in 1 .. Len(o) - 1 : p[i] = o[i]
    PROVE  SideBySide(an, removeLastLayer(tr), p, D, P, L)
    <1>1. PICK g : Placed(an, tr, o, g) /\ SameNames(an, tr, o, g, P) /\ SameLoops(an, tr, g, L)
        BY DEF SideBySide
    <1> PICK a, t \in Nat \ {0} : a = Len(an) /\ t = Len(tr)
        BY MapType DEF SideBySide
    <1> DEFINE ur == removeLastLayer(tr)
    <1>2. an \in Maps /\ tr \in Maps /\ Len(o) = t - 1 /\ t > 1 /\ LoopsOnce(an, L)
          /\ BoundIn(an, D) /\ BoundIn(tr, D)
        BY DEF SideBySide
    <1>3. ur \in Maps /\ Len(ur) = t - 1 /\ \A i \in 1 .. t - 1 : ur[i] = tr[i]
        BY <1>2, RemoveLayer
    <1> HIDE DEF ur
    <1>4. ~ Shared(o, t)
        BY <1>2 DEF Shared
    <1>5. \A i \in 1 .. t - 1 : Shared(p, i) <=> Shared(o, i)
        <2>1. \A i \in 1 .. t - 1 : i # 1 => i - 1 \in 1 .. Len(o) - 1
            BY <1>2
        <2> QED
            BY <2>1 DEF Shared
    <1>6. /\ \A i \in 1 .. t - 1 : i \in 1 .. t
          /\ \A i \in 1 .. t : i = t \/ i \in 1 .. t - 1
        OBVIOUS
    <1>7. g \in [1 .. a -> 1 .. t - 1] /\ \A j \in 1 .. a : g[j] \in 1 .. t - 1
        <2>1. g \in [1 .. a -> 1 .. t] /\ \A j \in 1 .. a : Shared(o, g[j])
            BY <1>1 DEF Placed
        <2>2. \A j \in 1 .. a : g[j] \in 1 .. t - 1
            BY <1>4, <1>6, <2>1
        <2> QED
            BY <2>1, <2>2
    <1>8. Placed(an, ur, p, g)
        <2>1. /\ \A j, k \in 1 .. a : j < k => g[j] < g[k]
              /\ \A j \in 1 .. a : Shared(o, g[j])
              /\ \A i \in 1 .. t : Shared(o, i) => \E j \in 1 .. a : g[j] = i
            BY <1>1 DEF Placed
        <2>2. \A j \in 1 .. a : Shared(p, g[j])
            BY <1>5, <1>7, <2>1
        <2>3. \A i \in 1 .. t - 1 : Shared(p, i) => \E j \in 1 .. a : g[j] = i
            BY <1>5, <1>6, <2>1
        <2> QED
            BY <1>3, <1>7, <2>1, <2>2, <2>3 DEF Placed
    <1>9. SameNames(an, ur, p, g, P)
        <2>1. ASSUME NEW j \in 1 .. a, NEW x \in P
              PROVE  /\ x \in DOMAIN an[j] <=> x \in DOMAIN ur[g[j]]
                     /\ x \in DOMAIN an[j] => an[j][x] = ur[g[j]][x]
            <3>1. ur[g[j]] = tr[g[j]]
                BY <1>3, <1>7
            <3> QED
                BY <1>1, <3>1 DEF SameNames
        <2>2. ASSUME NEW i \in 1 .. t - 1, NEW x \in P, ~ Shared(p, i)
              PROVE  x \notin DOMAIN ur[i]
            BY <1>1, <1>3, <1>5, <1>6, <2>2 DEF SameNames
        <2> QED
            BY <1>3, <2>1, <2>2 DEF SameNames
    <1>10. SameLoops(an, ur, g, L)
        BY <1>1, <1>3, <1>6 DEF SameLoops
    <1>11. Len(ur) = Len(p) + 1 /\ BoundIn(ur, D)
        BY <1>2, <1>3, <1>6 DEF BoundIn
    <1> QED
        BY <1>2, <1>3, <1>8, <1>9, <1>10, <1>11 DEF SideBySide, ur

LEMMA LookupOther ==
    ASSUME NEW m \in Maps, NEW x \in Names, NEW v \in Bindings, NEW y, y # x
    PROVE  lookup(add(m, x, v), y, NoVariable) = lookup(m, y, NoVariable)
    <1> PICK n \in Nat \ {0} : n = Len(m)
        BY MapType
    <1> PICK bn : bn = add(m, x, v)
        OBVIOUS
    <1>1. /\ bn \in Maps /\ Len(bn) = n /\ \A i \in 1 .. n - 1 : bn[i] = m[i]
          /\ DOMAIN bn[n] = DOMAIN m[n] \cup {x}
          /\ \A z \in DOMAIN m[n] : bn[n][z] = m[n][z]
        BY Add
    <1>2. \A i \in 1 .. n : /\ y \in DOMAIN bn[i] <=> y \in DOMAIN m[i]
                            /\ y \in DOMAIN m[i] => bn[i][y] = m[i][y]
        <2> SUFFICES ASSUME NEW i \in 1 .. n
                     PROVE  /\ y \in DOMAIN bn[i] <=> y \in DOMAIN m[i]
                            /\ y \in DOMAIN m[i] => bn[i][y] = m[i][y]
            OBVIOUS
        <2>1. i = n \/ i \in 1 .. n - 1
            OBVIOUS
        <2> QED
            BY <1>1, <2>1, Zenon
    <1>3. CASE \E i : Innermost(m, y, i)
        <2>1. PICK i : Innermost(m, y, i)
            BY <1>3
        <2>2. i \in 1 .. n /\ y \in DOMAIN m[i] /\ \A k \in i + 1 .. n : k \in 1 .. n
            BY <2>1 DEF Innermost
        <2>3. Innermost(bn, y, i) /\ bn[i][y] = m[i][y]
            BY <1>1, <1>2, <2>1, <2>2 DEF Innermost
        <2> QED
            BY <1>1, <2>1, <2>3, LookupFinds
    <1>4. CASE \A i \in 1 .. n : y \notin DOMAIN m[i]
        BY <1>1, <1>2, <1>4, LookupFindsNone
    <1> QED
        BY <1>3, <1>4, InnermostExists
-----------------------------------------------------------------------------
(* Functions that are open. *)

FunctionsIn(o) == {i \in 1 .. Len(o) : o[i] = "function"}

LEMMA WithoutLast ==
    ASSUME NEW S, NEW s \in Seq(S), Len(s) > 0
    PROVE  /\ SubSeq(s, 1, Len(s) - 1) \in Seq(S)
           /\ Len(SubSeq(s, 1, Len(s) - 1)) = Len(s) - 1
           /\ \A i \in 1 .. Len(s) - 1 : SubSeq(s, 1, Len(s) - 1)[i] = s[i]
    <1>1. Len(s) \in Nat \ {0} /\ Len(s) - 1 \in 0 .. Len(s) /\ 1 \in 1 .. Len(s) + 1
        OBVIOUS
    <1> DEFINE n == Len(s) - 1
    <1>2. n \in 0 .. Len(s) /\ n \in Nat /\ n - 1 + 1 = n
        BY <1>1
    <1>3. (IF 1 <= n THEN n - 1 + 1 ELSE 0) = n /\ \A i \in 1 .. n : 1 + i - 1 = i
        BY <1>2
    <1> HIDE DEF n
    <1>4. /\ SubSeq(s, 1, n) \in Seq(S) /\ Len(SubSeq(s, 1, n)) = n
          /\ \A i \in 1 .. n : SubSeq(s, 1, n)[i] = s[i]
        BY <1>1, <1>2, <1>3, SubSeqProperties
    <1> QED
        BY <1>4 DEF n

LEMMA FunctionsCounted ==
    ASSUME NEW o, Len(o) \in Nat
    PROVE  IsFiniteSet(FunctionsIn(o)) /\ Cardinality(FunctionsIn(o)) \in Nat
    <1>1. IsFiniteSet(1 .. Len(o))
        BY FS_Interval
    <1>2. IsFiniteSet(FunctionsIn(o))
        BY <1>1, FS_Subset DEF FunctionsIn
    <1> QED
        BY <1>2, FS_CardinalityType

LEMMA OneMore ==
    ASSUME NEW o, Len(o) \in Nat, NEW p, Len(p) = Len(o) + 1,
           \A i \in 1 .. Len(o) : p[i] = "function" <=> o[i] = "function"
    PROVE  Cardinality(FunctionsIn(p)) =
             Cardinality(FunctionsIn(o)) + (IF p[Len(o) + 1] = "function" THEN 1 ELSE 0)
    <1>1. /\ Len(o) + 1 \notin FunctionsIn(o)
          /\ FunctionsIn(p) = FunctionsIn(o)
               \cup (IF p[Len(o) + 1] = "function" THEN {Len(o) + 1} ELSE {})
        BY DEF FunctionsIn
    <1>2. IsFiniteSet(FunctionsIn(o)) /\ Cardinality(FunctionsIn(o)) \in Nat
        BY FunctionsCounted
    <1>3. Cardinality(FunctionsIn(o) \cup {Len(o) + 1}) = Cardinality(FunctionsIn(o)) + 1
        BY <1>1, <1>2, FS_AddElement
    <1>4. CASE p[Len(o) + 1] = "function"
        BY <1>1, <1>3, <1>4
    <1>5. CASE p[Len(o) + 1] # "function"
        BY <1>1, <1>2, <1>5
    <1> QED
        BY <1>4, <1>5
-----------------------------------------------------------------------------
Parts == {"declarations", "body", "function", "for"}

\* Names that no loop has, and names that only one loop has.
PlainNames == Names \ loop_names
LoopOnly == loop_names \ shared_names

ListsOfNames ==
    /\ declared_names \subseteq Names /\ loop_names \subseteq declared_names
    /\ shared_names \subseteq loop_names

MapsAgree ==
    SideBySide(variable_names, func_and_var_names, open, declared_names, PlainNames, LoopOnly)

FunctionsKeepFrames ==
    /\ func_stack \in Seq(Nat)
    /\ Depth = 1 + Cardinality(FunctionsIn(open))
    /\ \A k \in 2 .. Depth : func_stack[k] # Main
    /\ \A k \in 2 .. Depth - 1 : func_stack[k] \in exports

FunctionsBefore(o, i) == {k \in 1 .. i - 1 : o[k] = "function"}

\* The owner of a variable in layer i of the translator is a function that was
\* open when the layer was.
OwnersOpen(tr, o, fs) ==
    \A i \in 1 .. Len(tr) : \A x \in DOMAIN tr[i] :
        \E k \in 1 .. Len(fs) :
            k <= 1 + Cardinality(FunctionsBefore(o, i)) /\ fs[k] = tr[i][x].owner

EscapeInv ==
    /\ elements \in Nat
    /\ open \in Seq(Parts)
    /\ ListsOfNames /\ MapsAgree
    /\ FunctionsKeepFrames
    /\ OwnersOpen(func_and_var_names, open, func_stack)
    /\ CapturedInMemory /\ MemoryIsNeeded /\ FramesAreStored

LEMMA DepthType ==
    ASSUME EscapeInv
    PROVE  /\ Depth \in Nat \ {0} /\ current_function \in Nat /\ Len(open) \in Nat
           /\ variable_names \in Maps /\ func_and_var_names \in Maps
           /\ Len(func_and_var_names) = Len(open) + 1 /\ Len(func_stack) = Depth
    <1>1. Len(open) \in Nat /\ func_stack \in Seq(Nat) /\ Depth \in Nat
          /\ Depth = 1 + Cardinality(FunctionsIn(open))
        BY DEF EscapeInv, FunctionsKeepFrames, Depth
    <1>2. Depth \in Nat \ {0}
        BY <1>1, FunctionsCounted
    <1>3. Depth \in 1 .. Len(func_stack)
        BY <1>2 DEF Depth
    <1>4. current_function \in Nat
        BY <1>1, <1>3 DEF current_function
    <1> QED
        BY <1>1, <1>2, <1>4 DEF EscapeInv, MapsAgree, SideBySide, Depth

LEMMA UnknownName ==
    ASSUME NEW m \in Maps, BoundsAssumption
    PROVE  lookup(m, NoName, NoVariable) = NoVariable
    <1>1. NoName \notin Names
        BY DEF BoundsAssumption
    <1>2. \A i \in 1 .. Len(m) : NoName \notin DOMAIN m[i]
        BY <1>1, MapType, LayerType
    <1> QED
        BY <1>2, LookupFindsNone

-----------------------------------------------------------------------------
(* A name is declared. *)

LEMMA DeclaredOther ==
    ASSUME ListsOfNames, NEW name \in Names, Declared(name, FALSE)
    PROVE  /\ ListsOfNames' /\ shared_names \subseteq shared_names'
           /\ declared_names' = declared_names \cup {name}
           /\ PlainNames' = PlainNames /\ LoopOnly' \subseteq LoopOnly /\ name \notin LoopOnly'
    BY DEF Declared, ListsOfNames, PlainNames, LoopOnly

LEMMA DeclaredLoop ==
    ASSUME ListsOfNames, NEW name \in Names, Declared(name, TRUE)
    PROVE  /\ ListsOfNames' /\ shared_names \subseteq shared_names'
           /\ declared_names' = declared_names \cup {name}
           /\ name \in declared_names => name \in shared_names'
           /\ PlainNames' \subseteq PlainNames /\ name \notin PlainNames'
           /\ \A l \in LoopOnly' : l \in LoopOnly \/ l \notin declared_names
           /\ name \in LoopOnly' => name \notin declared_names
    BY DEF Declared, ListsOfNames, PlainNames, LoopOnly

\* No name is declared.
LEMMA DeclaredNothing ==
    ASSUME ListsOfNames, UNCHANGED declared
    PROVE  /\ ListsOfNames' /\ declared_names' = declared_names /\ shared_names' = shared_names
           /\ PlainNames' = PlainNames /\ LoopOnly' = LoopOnly
    BY DEF declared, ListsOfNames, PlainNames, LoopOnly

-----------------------------------------------------------------------------
(* The owners of variables. *)

LEMMA SameBefore ==
    ASSUME NEW o, NEW p, NEW n \in Nat, NEW i \in 1 .. n + 1,
           \A k \in 1 .. n : p[k] = "function" <=> o[k] = "function"
    PROVE  FunctionsBefore(p, i) = FunctionsBefore(o, i)
    BY DEF FunctionsBefore

LEMMA OwnersKept ==
    ASSUME NEW tr, NEW o, NEW fs, OwnersOpen(tr, o, fs), Len(fs) \in Nat,
           NEW ur, NEW p, NEW gs, Len(ur) \in Nat, Len(gs) \in Nat,
           \A i \in 1 .. Len(ur) : \A x \in DOMAIN ur[i] :
               /\ i \in 1 .. Len(tr) /\ x \in DOMAIN tr[i] /\ ur[i][x] = tr[i][x]
               /\ FunctionsBefore(p, i) = FunctionsBefore(o, i)
               /\ \A k \in 1 .. Len(fs) :
                     k <= 1 + Cardinality(FunctionsBefore(p, i)) =>
                         k \in 1 .. Len(gs) /\ gs[k] = fs[k]
    PROVE  OwnersOpen(ur, p, gs)
    <1> SUFFICES ASSUME NEW i \in 1 .. Len(ur), NEW x \in DOMAIN ur[i]
                 PROVE  \E k \in 1 .. Len(gs) :
                           /\ k <= 1 + Cardinality(FunctionsBefore(p, i))
                           /\ gs[k] = ur[i][x].owner
        BY DEF OwnersOpen
    <1>1. PICK k \in 1 .. Len(fs) :
             k <= 1 + Cardinality(FunctionsBefore(o, i)) /\ fs[k] = tr[i][x].owner
        BY DEF OwnersOpen
    <1>2. k \in 1 .. Len(gs) /\ gs[k] = fs[k]
        BY <1>1
    <1> QED
        BY <1>1, <1>2

LEMMA OwnersAdd ==
    ASSUME NEW tr \in Maps, NEW o, NEW fs, OwnersOpen(tr, o, fs), Len(fs) \in Nat \ {0},
           NEW x \in Names, NEW v \in Bindings, v.owner = fs[Len(fs)],
           Len(fs) = 1 + Cardinality(FunctionsBefore(o, Len(tr)))
    PROVE  OwnersOpen(add(tr, x, v), o, fs)
    <1> PICK t \in Nat \ {0} : t = Len(tr)
        BY MapType
    <1> PICK ur : ur = add(tr, x, v)
        OBVIOUS
    <1>1. /\ Len(ur) = t /\ \A i \in 1 .. t - 1 : ur[i] = tr[i]
          /\ DOMAIN ur[t] = DOMAIN tr[t] \cup {x}
          /\ ur[t][x] = IF x \in DOMAIN tr[t] THEN tr[t][x] ELSE v
          /\ \A y \in DOMAIN tr[t] : ur[t][y] = tr[t][y]
        BY Add
    <1> SUFFICES ASSUME NEW i \in 1 .. t, NEW y \in DOMAIN ur[i]
                 PROVE  \E k \in 1 .. Len(fs) :
                           /\ k <= 1 + Cardinality(FunctionsBefore(o, i))
                           /\ fs[k] = ur[i][y].owner
        BY <1>1 DEF OwnersOpen
    <1>2. CASE y \in DOMAIN tr[i] /\ ur[i][y] = tr[i][y]
        BY <1>2 DEF OwnersOpen
    <1>3. CASE i = t /\ ur[i][y] = v
        <2>1. Len(fs) \in 1 .. Len(fs) /\ Len(fs) <= 1 + Cardinality(FunctionsBefore(o, i))
            BY <1>3
        <2> QED
            BY <1>3, <2>1
    <1>4. i \in 1 .. t - 1 \/ i = t
        OBVIOUS
    <1> QED
        BY <1>1, <1>2, <1>3, <1>4, Zenon

LEMMA OwnersSame ==
    ASSUME NEW tr \in Maps, NEW o, NEW fs, OwnersOpen(tr, o, fs), Len(fs) \in Nat,
           Len(o) \in Nat, Len(tr) = Len(o) + 1,
           NEW p, \A i \in 1 .. Len(o) : p[i] = "function" <=> o[i] = "function"
    PROVE  OwnersOpen(tr, p, fs)
    <1>1. \A i \in 1 .. Len(o) + 1 : FunctionsBefore(p, i) = FunctionsBefore(o, i)
        BY SameBefore
    <1> QED
        BY <1>1, OwnersKept

LEMMA OwnersLayer ==
    ASSUME NEW tr \in Maps, NEW o, NEW fs, OwnersOpen(tr, o, fs), Len(fs) \in Nat,
           Len(o) \in Nat, Len(tr) = Len(o) + 1,
           NEW p, \A i \in 1 .. Len(o) : p[i] = "function" <=> o[i] = "function",
           NEW gs, Len(gs) \in Nat, \A k \in 1 .. Len(fs) : k \in 1 .. Len(gs) /\ gs[k] = fs[k]
    PROVE  OwnersOpen(newLayer(tr), p, gs)
    <1> PICK t \in Nat \ {0} : t = Len(tr)
        BY MapType
    <1> PICK ur : ur = newLayer(tr)
        OBVIOUS
    <1>1. /\ Len(ur) = t + 1 /\ (\A i \in 1 .. t : ur[i] = tr[i])
          /\ DOMAIN ur[t + 1] = {}
        BY NewLayer, EmptyLayer
    <1>2. \A i \in 1 .. Len(o) + 1 : FunctionsBefore(p, i) = FunctionsBefore(o, i)
        BY SameBefore
    <1>3. \A i \in 1 .. t + 1 : i \in 1 .. t \/ i = t + 1
        OBVIOUS
    <1>4. \A i \in 1 .. t + 1 : \A x \in DOMAIN ur[i] :
             i \in 1 .. t /\ x \in DOMAIN tr[i] /\ ur[i][x] = tr[i][x]
        BY <1>1, <1>3
    <1>5. OwnersOpen(ur, p, gs)
        BY <1>1, <1>2, <1>4, OwnersKept
    <1> QED
        BY <1>5

LEMMA OwnersClose ==
    ASSUME NEW tr \in Maps, NEW o, NEW fs, OwnersOpen(tr, o, fs), Len(fs) \in Nat,
           Len(o) \in Nat \ {0}, Len(tr) = Len(o) + 1,
           NEW p, Len(p) = Len(o) - 1, \A i \in 1 .. Len(o) - 1 : p[i] = o[i],
           NEW gs, Len(gs) = 1 + Cardinality(FunctionsIn(p)),
           \A k \in 1 .. Len(gs) : gs[k] = fs[k]
    PROVE  OwnersOpen(removeLastLayer(tr), p, gs)
    <1> PICK n \in Nat : n = Len(p)
        OBVIOUS
    <1> PICK ur : ur = removeLastLayer(tr)
        OBVIOUS
    <1>1. Len(ur) = n + 1 /\ \A i \in 1 .. n + 1 : ur[i] = tr[i]
        BY RemoveLayer
    <1>2. \A i \in 1 .. n + 1 : FunctionsBefore(p, i) = FunctionsBefore(o, i)
        <2>1. \A k \in 1 .. n : p[k] = "function" <=> o[k] = "function"
            OBVIOUS
        <2> QED
            BY <2>1, SameBefore
    <1>3. IsFiniteSet(FunctionsIn(p)) /\ Cardinality(FunctionsIn(p)) \in Nat
        BY FunctionsCounted
    <1>4. ASSUME NEW i \in 1 .. n + 1, NEW k \in 1 .. Len(fs),
                 k <= 1 + Cardinality(FunctionsBefore(p, i))
          PROVE  k \in 1 .. Len(gs) /\ gs[k] = fs[k]
        <2>1. FunctionsBefore(p, i) \subseteq FunctionsIn(p)
            BY DEF FunctionsBefore, FunctionsIn
        <2>2. /\ Cardinality(FunctionsBefore(p, i)) \in Nat
              /\ Cardinality(FunctionsBefore(p, i)) <= Cardinality(FunctionsIn(p))
            BY <1>3, <2>1, FS_Subset, FS_CardinalityType
        <2>3. k \in 1 .. Len(gs)
            BY <1>3, <1>4, <2>2
        <2> QED
            BY <2>3
    <1>5. \A i \in 1 .. n + 1 : i \in 1 .. Len(tr)
        OBVIOUS
    <1>6. Len(gs) \in Nat
        BY <1>3
    <1>7. OwnersOpen(ur, p, gs)
        BY <1>1, <1>2, <1>4, <1>5, <1>6, OwnersKept
    <1> QED
        BY <1>7

-----------------------------------------------------------------------------
(* A variable is used. *)

\* The frames between a use and the owner of the variable are those of functions
\* in which another is declared.
LEMMA FramesReached ==
    ASSUME EscapeInv, NEW use
    PROVE  Accessed(func_and_var_names, use).functions \subseteq exports
    <1> DEFINE variable == lookup(func_and_var_names, use, NoVariable)
    <1>1. /\ Depth \in Nat \ {0} /\ func_and_var_names \in Maps /\ Len(func_stack) = Depth
          /\ \A k \in 2 .. Depth - 1 : func_stack[k] \in exports
        BY DepthType DEF EscapeInv, FunctionsKeepFrames
    <1>2. CASE variable = NoVariable \/ variable.owner = current_function
        BY <1>2 DEF Accessed, Nothing
    <1>3. CASE variable # NoVariable /\ variable.owner # current_function
        <2>1. PICK i : /\ i \in 1 .. Len(func_and_var_names)
                       /\ use \in DOMAIN func_and_var_names[i]
                       /\ variable = func_and_var_names[i][use]
            BY <1>1, <1>3, LookupCases DEF Innermost
        <2>2. \E k \in 1 .. Depth : func_stack[k] = variable.owner
            BY <1>1, <2>1 DEF EscapeInv, OwnersOpen
        <2> DEFINE first == CHOOSE k \in 1 .. Depth : func_stack[k] = variable.owner
        <2>3. first \in 1 .. Depth
            BY <2>2
        <2>4. Accessed(func_and_var_names, use).functions =
                {func_stack[k] : k \in first + 1 .. Depth} \ {func_stack[Depth]}
            BY <1>3 DEF Accessed, Use, FunctionsUpTo, current_function
        <2> HIDE DEF first
        <2>5. \A k \in first + 1 .. Depth : k = Depth \/ k \in 2 .. Depth - 1
            BY <1>1, <2>3
        <2> QED
            BY <1>1, <2>4, <2>5
    <1> HIDE DEF variable
    <1> QED
        BY <1>2, <1>3

\* A use is noted by its name.
LEMMA NamesOfUses ==
    ASSUME NEW m, NEW use
    PROVE  /\ \A u \in Analysed(m, use).variables : u.name = use
           /\ \A u \in Accessed(m, use).variables : u.name = use
    BY DEF Analysed, Accessed, Use, Nothing

\* What the analysis notes of a use is what the translator makes of it.
LEMMA UsesAgree ==
    ASSUME EscapeInv, NEW use \in Names \cup {NoName}, Defined(use), use \notin shared_names,
           NEW an, lookup(an, use, NoVariable) = lookup(variable_names, use, NoVariable)
    PROVE  Analysed(an, use) = Accessed(func_and_var_names, use)
    <1>1. lookup(an, use, NoVariable) = lookup(func_and_var_names, use, NoVariable)
        <2>1. CASE use = NoName
            BY <2>1, UnknownName, DepthType, BoundsAssumption
        <2>2. CASE use # NoName
            <3>1. use \in PlainNames \cup LoopOnly
                BY <2>2 DEF PlainNames, LoopOnly
            <3> QED
                BY <2>2, <3>1, LookupsAgree DEF Defined, EscapeInv, MapsAgree
        <2> QED
            BY <2>1, <2>2
    <1> QED
        BY <1>1 DEF Analysed, Accessed

LEMMA NotesAgree ==
    ASSUME EscapeInv, NEW use, NEW an, shared_names \subseteq shared_names',
           Note(Analysed(an, use), Accessed(func_and_var_names, use)),
           captured' = captured \cup Accessed(func_and_var_names, use).variables,
           use \notin shared_names' => Analysed(an, use) = Accessed(func_and_var_names, use)
    PROVE  CapturedInMemory' /\ MemoryIsNeeded' /\ FramesAreStored'
    <1> DEFINE seen == Analysed(an, use)
               found == Accessed(func_and_var_names, use)
    <1>1. /\ \A u \in seen.variables : u.name = use
          /\ \A u \in found.variables : u.name = use
          /\ found.functions \subseteq exports
        BY NamesOfUses, FramesReached
    <1>2. /\ var_info' = var_info \cup seen.variables
          /\ exports' = exports \cup seen.functions
          /\ stored_fps' = stored_fps \cup found.functions
          /\ captured' = captured \cup found.variables
          /\ use \notin shared_names' => seen = found
        BY DEF Note
    <1> HIDE DEF seen, found
    <1>3. CapturedInMemory'
        BY <1>1, <1>2 DEF EscapeInv, CapturedInMemory
    <1>4. MemoryIsNeeded'
        BY <1>1, <1>2 DEF EscapeInv, MemoryIsNeeded
    <1>5. FramesAreStored'
        BY <1>1, <1>2 DEF EscapeInv, FramesAreStored
    <1> QED
        BY <1>3, <1>4, <1>5

LEMMA BodyFollows ==
    ASSUME EscapeInv
    PROVE  /\ ExpressionWritten \in Seq(Parts) /\ Len(ExpressionWritten) = Len(open)
           /\ \A i \in 1 .. Len(open) :
                /\ ExpressionWritten[i] = "for" <=> open[i] = "for"
                /\ ExpressionWritten[i] = "function" <=> open[i] = "function"
    BY DEF EscapeInv, ExpressionWritten, InDeclarations, Top, Parts

LEMMA SameFunctions ==
    ASSUME NEW o, NEW p, Len(p) = Len(o),
           \A i \in 1 .. Len(o) : p[i] = "function" <=> o[i] = "function"
    PROVE  FunctionsIn(p) = FunctionsIn(o)
    BY DEF FunctionsIn

LEMMA EscapeInit ==
    ASSUME Init
    PROVE  EscapeInv
    <1>1. EmptyMap \in Maps /\ Len(EmptyMap) = 1 /\ DOMAIN EmptyMap[1] = {}
        BY EmptyLayer DEF EmptyMap, Maps
    <1> DEFINE g == [j \in 1 .. 1 |-> 1]
    <1>2. Placed(EmptyMap, EmptyMap, <<>>, g)
        BY <1>1 DEF Placed, Shared
    <1>3. SameNames(EmptyMap, EmptyMap, <<>>, g, PlainNames) /\ SameLoops(EmptyMap, EmptyMap, g, LoopOnly)
        BY <1>1 DEF SameNames, SameLoops
    <1>4. LoopsOnce(EmptyMap, LoopOnly) /\ BoundIn(EmptyMap, {})
        BY <1>1 DEF LoopsOnce, BoundIn
    <1> HIDE DEF g
    <1>5. SideBySide(EmptyMap, EmptyMap, <<>>, {}, PlainNames, LoopOnly)
        BY <1>1, <1>2, <1>3, <1>4 DEF SideBySide
    <1>6. Cardinality(FunctionsIn(<<>>)) = 0
        BY FS_EmptySet DEF FunctionsIn
    <1>7. FunctionsKeepFrames
        BY <1>6 DEF Init, FunctionsKeepFrames, Depth, Main
    <1>8. OwnersOpen(EmptyMap, <<>>, <<Main>>)
        BY <1>1 DEF OwnersOpen
    <1> QED
        BY <1>5, <1>7, <1>8 DEF Init, EscapeInv, MapsAgree, ListsOfNames, CapturedInMemory,
                                MemoryIsNeeded, FramesAreStored, Parts

LEMMA EscapeNext ==
    ASSUME BoundsAssumption, EscapeInv, [Next]_vars
    PROVE  EscapeInv'
    <1> USE DEF EscapeInv
    <1>0. /\ Depth \in Nat \ {0} /\ current_function \in Nat /\ Len(open) \in Nat
          /\ variable_names \in Maps /\ func_and_var_names \in Maps
          /\ Len(func_and_var_names) = Len(open) + 1 /\ Len(func_stack) = Depth
          /\ elements + 1 \in Nat \ {0}
          /\ FunctionsBefore(open, Len(func_and_var_names)) = FunctionsIn(open)
          /\ Depth = 1 + Cardinality(FunctionsIn(open))
        BY DepthType DEF FunctionsBefore, FunctionsIn, FunctionsKeepFrames
    <1>1. ASSUME elements' = elements + 1
          PROVE  Own(elements') \in Bindings /\ Own(elements').owner = func_stack[Len(func_stack)]
        BY <1>0, <1>1 DEF Own, Bindings, current_function
    <1>2. ASSUME Cardinality(FunctionsIn(open')) = Cardinality(FunctionsIn(open)),
                 func_stack' = func_stack, exports \subseteq exports'
          PROVE  FunctionsKeepFrames'
        BY <1>2 DEF FunctionsKeepFrames, Depth
    <1>3. ASSUME var_info' = var_info, captured' = captured, shared_names \subseteq shared_names'
          PROVE  CapturedInMemory' /\ MemoryIsNeeded'
        BY <1>3 DEF CapturedInMemory, MemoryIsNeeded
    <1>4. ASSUME NEW name \in Names, NEW use \in Names \cup {NoName}, VariableDeclaration(name, use)
          PROVE  EscapeInv'
        <2>1. /\ InDeclarations /\ elements' = elements + 1 /\ open' = open
              /\ func_stack' = func_stack /\ Declared(name, FALSE)
              /\ variable_names' = add(variable_names, name, Own(elements'))
              /\ func_and_var_names' = add(func_and_var_names, name, Own(elements'))
            BY <1>4 DEF VariableDeclaration, Write
        <2>2. /\ var_info' = var_info /\ captured' = captured /\ exports' = exports
              /\ stored_fps' = stored_fps \cup Accessed(func_and_var_names, use).functions
            BY <1>4 DEF VariableDeclaration, Note, Nothing, SeenInInitializer
        <2>3. FramesAreStored'
            BY <2>2, FramesReached DEF FramesAreStored
        <2>4. Shared(open, Len(func_and_var_names))
            <3>1. open[Len(open)] = "declarations"
                BY <2>1 DEF InDeclarations, Top
            <3>2. (Len(open) + 1) - 1 = Len(open)
                BY <1>0
            <3> QED
                BY <1>0, <3>1, <3>2 DEF Shared
        <2>5. /\ ListsOfNames' /\ shared_names \subseteq shared_names'
              /\ declared_names' = declared_names \cup {name}
              /\ PlainNames' = PlainNames /\ LoopOnly' \subseteq LoopOnly /\ name \notin LoopOnly'
            BY <2>1, DeclaredOther
        <2>6. SideBySide(variable_names, func_and_var_names, open, declared_names', PlainNames', LoopOnly')
            BY <2>5, OtherLists DEF MapsAgree
        <2>7. MapsAgree'
            <3>1. name \in declared_names'
                BY <2>5
            <3>2. SideBySide(variable_names', func_and_var_names', open,
                             declared_names', PlainNames', LoopOnly')
                BY <1>1, <2>1, <2>4, <2>5, <2>6, <3>1, BothAdd
            <3> QED
                BY <2>1, <3>2 DEF MapsAgree
        <2>8. OwnersOpen(func_and_var_names', open', func_stack')
            BY <1>0, <1>1, <2>1, OwnersAdd
        <2> QED
            BY <1>0, <1>2, <1>3, <2>1, <2>2, <2>3, <2>5, <2>7, <2>8
    <1>5. ASSUME NEW param \in Names, FunctionBegin(param)
          PROVE  EscapeInv'
        <2> DEFINE parameter == [variable |-> elements', owner |-> elements']
        <2>1. /\ InDeclarations /\ elements' = elements + 1
              /\ open' = Append(open, "function") /\ func_stack' = Append(func_stack, elements')
              /\ exports' = exports \cup FunctionExports /\ Declared(param, FALSE)
              /\ variable_names' = add(newLayer(variable_names), param, parameter)
              /\ func_and_var_names' = add(newLayer(func_and_var_names), param, parameter)
              /\ var_info' = var_info /\ captured' = captured /\ stored_fps' = stored_fps
            BY <1>5 DEF FunctionBegin, Write
        <2>2. parameter \in Bindings /\ parameter.owner = elements + 1
            BY <1>0, <2>1 DEF Bindings
        <2> HIDE DEF parameter
        <2>3. /\ open' \in Seq(Parts) /\ Len(open') = Len(open) + 1
              /\ open'[Len(open) + 1] = "function" /\ \A i \in 1 .. Len(open) : open'[i] = open[i]
            BY <1>0, <2>1 DEF Parts
        <2>4. /\ newLayer(func_and_var_names) \in Maps
              /\ Len(newLayer(func_and_var_names)) = Len(open) + 2
            BY <1>0, NewLayer
        <2>5. Shared(open', Len(newLayer(func_and_var_names)))
            <3>1. (Len(open) + 2) - 1 = Len(open) + 1
                BY <1>0
            <3> QED
                BY <2>3, <2>4, <3>1 DEF Shared
        <2>6. /\ ListsOfNames' /\ shared_names \subseteq shared_names'
              /\ declared_names' = declared_names \cup {param}
              /\ PlainNames' = PlainNames /\ LoopOnly' \subseteq LoopOnly /\ param \notin LoopOnly'
            BY <2>1, DeclaredOther
        <2>7. MapsAgree'
            <3>1. SideBySide(variable_names, func_and_var_names, open, declared_names', PlainNames', LoopOnly')
                BY <2>6, OtherLists DEF MapsAgree
            <3>2. SideBySide(newLayer(variable_names), newLayer(func_and_var_names), open',
                             declared_names', PlainNames', LoopOnly')
                BY <1>0, <2>3, <3>1, BothOpen
            <3>3. param \in declared_names'
                BY <2>6
            <3>4. SideBySide(variable_names', func_and_var_names', open',
                             declared_names', PlainNames', LoopOnly')
                BY <2>1, <2>2, <2>5, <2>6, <3>2, <3>3, BothAdd
            <3> QED
                BY <3>4 DEF MapsAgree
        <2>8. FunctionsKeepFrames'
            <3>1. Cardinality(FunctionsIn(open')) = Cardinality(FunctionsIn(open)) + 1
                BY <1>0, <2>3, OneMore
            <3>2. /\ func_stack \in Seq(Nat) /\ Depth = 1 + Cardinality(FunctionsIn(open))
                  /\ \A k \in 2 .. Depth : func_stack[k] # Main
                  /\ \A k \in 2 .. Depth - 1 : func_stack[k] \in exports
                  /\ Depth = Len(func_stack)
                BY DEF FunctionsKeepFrames, Depth
            <3>3. /\ func_stack' \in Seq(Nat) /\ Len(func_stack') = Depth + 1
                  /\ func_stack'[Depth + 1] = elements + 1
                  /\ \A k \in 1 .. Depth : func_stack'[k] = func_stack[k]
                BY <1>0, <2>1, <3>2
            <3>4. \A k \in 2 .. Depth + 1 : func_stack'[k] # Main
                <4>1. \A k \in 2 .. Depth + 1 : k \in 2 .. Depth \/ k = Depth + 1
                    BY <1>0
                <4>2. \A k \in 2 .. Depth : k \in 1 .. Depth
                    BY <1>0
                <4> QED
                    BY <1>0, <3>2, <3>3, <4>1, <4>2 DEF Main
            <3>5. \A k \in 2 .. Depth : func_stack'[k] \in exports'
                <4> SUFFICES ASSUME NEW k \in 2 .. Depth PROVE func_stack[k] \in exports'
                    BY <1>0, <3>3
                <4>1. CASE k \in 2 .. Depth - 1
                    BY <2>1, <3>2, <4>1
                <4>2. CASE k = Depth
                    BY <2>1, <3>2, <4>2 DEF FunctionExports, current_function
                <4> QED
                    BY <1>0, <4>1, <4>2
            <3>6. Depth' = Depth + 1
                BY <3>3 DEF Depth
            <3>7. Depth' = 1 + Cardinality(FunctionsIn(open'))
                <4>1. Cardinality(FunctionsIn(open)) \in Nat
                    BY <1>0, FunctionsCounted
                <4> QED
                    BY <3>1, <3>2, <3>6, <4>1
            <3>8. Depth' - 1 = Depth
                BY <1>0, <3>6
            <3> QED
                BY <3>3, <3>4, <3>5, <3>6, <3>7, <3>8 DEF FunctionsKeepFrames
        <2>9. OwnersOpen(func_and_var_names', open', func_stack')
            <3>1. /\ func_stack \in Seq(Nat) /\ Depth = Len(func_stack)
                  /\ func_stack' \in Seq(Nat)
                  /\ Depth' = 1 + Cardinality(FunctionsIn(open')) /\ Depth' = Len(func_stack')
                BY <2>8 DEF FunctionsKeepFrames, Depth
            <3>2. /\ Len(func_stack') = Depth + 1 /\ func_stack'[Depth + 1] = elements + 1
                  /\ \A k \in 1 .. Depth : k \in 1 .. Len(func_stack') /\ func_stack'[k] = func_stack[k]
                BY <1>0, <2>1, <3>1
            <3>3. OwnersOpen(newLayer(func_and_var_names), open', func_stack')
                BY <1>0, <2>3, <3>2, OwnersLayer
            <3>4. FunctionsBefore(open', Len(open) + 2) = FunctionsIn(open')
                BY <1>0, <2>3 DEF FunctionsBefore, FunctionsIn
            <3>5. parameter.owner = func_stack'[Len(func_stack')] /\ Len(func_stack') \in Nat \ {0}
                BY <1>0, <2>2, <3>2
            <3>6. Len(func_stack') = 1 + Cardinality(FunctionsBefore(open', Len(newLayer(func_and_var_names))))
                BY <2>4, <3>1, <3>4
            <3> QED
                BY <2>1, <2>2, <2>4, <3>3, <3>5, <3>6, OwnersAdd
        <2>10. FramesAreStored'
            BY <2>1 DEF FramesAreStored
        <2> QED
            BY <1>0, <1>3, <2>1, <2>3, <2>6, <2>7, <2>8, <2>9, <2>10
    <1>6. ASSUME Len(open) > 0, open' = SubSeq(open, 1, Len(open) - 1)
          PROVE  /\ Len(open) \in Nat \ {0} /\ open' \in Seq(Parts) /\ Len(open') = Len(open) - 1
                 /\ \A i \in 1 .. Len(open) - 1 : open'[i] = open[i]
                 /\ Cardinality(FunctionsIn(open)) = Cardinality(FunctionsIn(open'))
                      + (IF open[Len(open)] = "function" THEN 1 ELSE 0)
                 /\ Cardinality(FunctionsIn(open')) \in Nat
        <2>1. /\ Len(open) \in Nat \ {0} /\ open' \in Seq(Parts) /\ Len(open') = Len(open) - 1
              /\ \A i \in 1 .. Len(open) - 1 : open'[i] = open[i]
            <3>1. open \in Seq(Parts) /\ Len(open) \in Nat
                BY <1>0
            <3> HIDE DEF Parts
            <3> QED
                BY <1>6, <3>1, WithoutLast
        <2>2. Len(open') \in Nat /\ Len(open) = Len(open') + 1
            BY <2>1
        <2>3. \A i \in 1 .. Len(open') : open[i] = "function" <=> open'[i] = "function"
            BY <2>1
        <2> QED
            BY <2>1, <2>2, <2>3, OneMore, FunctionsCounted
    <1>7. CASE FunctionEnd
        <2>1. /\ open # <<>> /\ open[Len(open)] = "function"
              /\ open' = SubSeq(open, 1, Len(open) - 1)
              /\ func_stack' = SubSeq(func_stack, 1, Depth - 1)
              /\ variable_names' = removeLastLayer(variable_names)
              /\ func_and_var_names' = removeLastLayer(func_and_var_names)
              /\ UNCHANGED <<elements, declared, var_info, exports, captured, stored_fps>>
            BY <1>7 DEF FunctionEnd, Top
        <2>2. Len(open) > 0
            BY <1>0, <2>1
        <2>3. ListsOfNames' /\ MapsAgree' /\ shared_names' = shared_names
            <3>1. SideBySide(variable_names', func_and_var_names', open',
                             declared_names, PlainNames, LoopOnly)
                BY <1>6, <2>1, <2>2, BothClose DEF MapsAgree
            <3> QED
                BY <2>1, <3>1, DeclaredNothing DEF MapsAgree
        <2>4. FunctionsKeepFrames'
            <3>1. /\ func_stack \in Seq(Nat) /\ Depth = 1 + Cardinality(FunctionsIn(open))
                  /\ \A k \in 2 .. Depth : func_stack[k] # Main
                  /\ \A k \in 2 .. Depth - 1 : func_stack[k] \in exports
                  /\ Depth = Len(func_stack)
                BY DEF FunctionsKeepFrames, Depth
            <3>2. Depth = 2 + Cardinality(FunctionsIn(open')) /\ Cardinality(FunctionsIn(open')) \in Nat
                BY <1>6, <2>1, <2>2, <3>1
            <3>3. /\ func_stack' \in Seq(Nat) /\ Len(func_stack') = Depth - 1
                  /\ \A k \in 1 .. Depth - 1 : func_stack'[k] = func_stack[k]
                <4>1. Len(func_stack) > 0
                    BY <3>1, <3>2
                <4> QED
                    BY <2>1, <3>1, <4>1, WithoutLast
            <3>4. Depth' = Depth - 1
                BY <3>3 DEF Depth
            <3>5. /\ \A k \in 2 .. Depth - 1 : k \in 1 .. Depth - 1 /\ k \in 2 .. Depth
                  /\ \A k \in 2 .. Depth - 2 : k \in 1 .. Depth - 1 /\ k \in 2 .. Depth - 1
                  /\ (Depth - 1) - 1 = Depth - 2
                BY <3>2
            <3>6. Depth' = 1 + Cardinality(FunctionsIn(open'))
                BY <3>2, <3>4
            <3>7. \A k \in 2 .. Depth' : func_stack'[k] # Main
                BY <3>1, <3>3, <3>4, <3>5
            <3>8. \A k \in 2 .. Depth' - 1 : func_stack'[k] \in exports'
                BY <2>1, <3>1, <3>3, <3>4, <3>5
            <3> QED
                BY <3>3, <3>6, <3>7, <3>8 DEF FunctionsKeepFrames
        <2>5. OwnersOpen(func_and_var_names', open', func_stack')
            <3>1. Len(func_stack) > 0 /\ func_stack \in Seq(Nat)
                BY <1>0 DEF FunctionsKeepFrames
            <3>2. \A k \in 1 .. Len(func_stack) - 1 : func_stack'[k] = func_stack[k]
                BY <1>0, <2>1, <3>1, WithoutLast
            <3>3. Len(func_stack') = Len(func_stack) - 1
                BY <1>0, <2>1, <3>1, WithoutLast
            <3>4. Len(func_stack') = 1 + Cardinality(FunctionsIn(open'))
                BY <2>4 DEF FunctionsKeepFrames, Depth
            <3>5. \A k \in 1 .. Len(func_stack') : func_stack'[k] = func_stack[k]
                BY <3>2, <3>3
            <3>6. Len(func_stack) \in Nat
                BY <3>1
            <3>7. OwnersOpen(func_and_var_names, open, func_stack)
                OBVIOUS
            <3>8. /\ Len(open) \in Nat \ {0} /\ Len(open') = Len(open) - 1
                  /\ \A i \in 1 .. Len(open) - 1 : open'[i] = open[i]
                BY <1>6, <2>1, <2>2
            <3>9. OwnersOpen(removeLastLayer(func_and_var_names), open', func_stack')
                BY <1>0, <3>4, <3>5, <3>6, <3>7, <3>8, OwnersClose
            <3> QED
                BY <2>1, <3>9
        <2>6. FramesAreStored'
            BY <2>1 DEF FramesAreStored
        <2> QED
            BY <1>3, <1>6, <2>1, <2>2, <2>3, <2>4, <2>5, <2>6
    <1>8. CASE ScopeBegin
        <2>1. /\ open' = Append(ExpressionWritten, "declarations") /\ func_stack' = func_stack
              /\ elements' = elements + 1
              /\ variable_names' = newLayer(variable_names)
              /\ func_and_var_names' = newLayer(func_and_var_names)
              /\ UNCHANGED <<declared, var_info, exports, captured, stored_fps>>
            BY <1>8 DEF ScopeBegin, Write
        <2>2. /\ open' \in Seq(Parts) /\ Len(open') = Len(open) + 1
              /\ open'[Len(open) + 1] = "declarations"
              /\ \A i \in 1 .. Len(open) : /\ open'[i] = "for" <=> open[i] = "for"
                                           /\ open'[i] = "function" <=> open[i] = "function"
            BY <1>0, <2>1, BodyFollows DEF Parts
        <2>3. ListsOfNames' /\ MapsAgree' /\ shared_names' = shared_names
            <3>1. SideBySide(variable_names', func_and_var_names', open',
                             declared_names, PlainNames, LoopOnly)
                BY <1>0, <2>1, <2>2, BothOpen DEF MapsAgree
            <3> QED
                BY <2>1, <3>1, DeclaredNothing DEF MapsAgree
        <2>4. FunctionsKeepFrames'
            <3>1. Cardinality(FunctionsIn(open')) = Cardinality(FunctionsIn(open))
                BY <1>0, <2>2, OneMore, FunctionsCounted
            <3> QED
                BY <1>2, <2>1, <3>1
        <2>5. OwnersOpen(func_and_var_names', open', func_stack')
            BY <1>0, <2>1, <2>2, OwnersLayer
        <2>6. FramesAreStored'
            BY <2>1 DEF FramesAreStored
        <2> QED
            BY <1>0, <1>3, <2>1, <2>2, <2>3, <2>4, <2>5, <2>6
    <1>9. CASE ScopeEnd
        <2>1. /\ open # <<>> /\ open[Len(open)] \in {"declarations", "body"}
              /\ open' = SubSeq(open, 1, Len(open) - 1) /\ func_stack' = func_stack
              /\ variable_names' = removeLastLayer(variable_names)
              /\ func_and_var_names' = removeLastLayer(func_and_var_names)
              /\ UNCHANGED <<elements, declared, var_info, exports, captured, stored_fps>>
            BY <1>9 DEF ScopeEnd, Top
        <2>2. Len(open) > 0 /\ open[Len(open)] # "function"
            BY <1>0, <2>1
        <2>3. ListsOfNames' /\ MapsAgree' /\ shared_names' = shared_names
            <3>1. SideBySide(variable_names', func_and_var_names', open',
                             declared_names, PlainNames, LoopOnly)
                BY <1>6, <2>1, <2>2, BothClose DEF MapsAgree
            <3> QED
                BY <2>1, <3>1, DeclaredNothing DEF MapsAgree
        <2>4. Cardinality(FunctionsIn(open')) = Cardinality(FunctionsIn(open))
            BY <1>6, <2>1, <2>2
        <2>5. FunctionsKeepFrames'
            BY <1>2, <2>1, <2>4
        <2>6. OwnersOpen(func_and_var_names', open', func_stack')
            BY <1>0, <1>6, <2>1, <2>2, <2>4, OwnersClose
        <2>7. FramesAreStored'
            BY <2>1 DEF FramesAreStored
        <2> QED
            BY <1>3, <1>6, <2>1, <2>2, <2>3, <2>5, <2>6, <2>7
    <1>10. ASSUME NEW name \in Names, NEW use \in Names \cup {NoName}, ForBegin(name, use)
           PROVE  EscapeInv'
        <2>1. /\ Defined(use) /\ elements' = elements + 1 /\ Declared(name, TRUE)
              /\ open' = Append(ExpressionWritten, "for") /\ func_stack' = func_stack
              /\ variable_names' = add(variable_names, name, Own(elements'))
              /\ func_and_var_names' = add(newLayer(func_and_var_names), name, Own(elements'))
            BY <1>10 DEF ForBegin, Write
        <2>2. /\ open' \in Seq(Parts) /\ Len(open') = Len(open) + 1
              /\ open'[Len(open) + 1] = "for"
              /\ \A i \in 1 .. Len(open) : /\ open'[i] = "for" <=> open[i] = "for"
                                           /\ open'[i] = "function" <=> open[i] = "function"
            BY <1>0, <2>1, BodyFollows DEF Parts
        <2>3. /\ ListsOfNames' /\ shared_names \subseteq shared_names'
              /\ declared_names' = declared_names \cup {name}
              /\ name \in declared_names => name \in shared_names'
              /\ PlainNames' \subseteq PlainNames /\ name \notin PlainNames'
              /\ \A l \in LoopOnly' : l \in LoopOnly \/ l \notin declared_names
              /\ name \in LoopOnly' => name \notin declared_names
            BY <2>1, DeclaredLoop
        <2>4. MapsAgree'
            <3>1. SideBySide(variable_names, func_and_var_names, open, declared_names, PlainNames', LoopOnly')
                BY <2>3, OtherLists DEF MapsAgree
            <3>2. SideBySide(variable_names', func_and_var_names', open',
                             declared_names', PlainNames', LoopOnly')
                BY <1>0, <1>1, <2>1, <2>2, <2>3, <3>1, LoopOpens
            <3> QED
                BY <3>2 DEF MapsAgree
        <2>5. /\ Note(Analysed(variable_names', use), Accessed(func_and_var_names, use))
              /\ captured' = captured \cup Accessed(func_and_var_names, use).variables
              /\ exports' = exports \cup Analysed(variable_names', use).functions
            BY <1>10 DEF ForBegin, Note
        <2>6. ASSUME use \notin shared_names'
              PROVE  Analysed(variable_names', use) = Accessed(func_and_var_names, use)
            <3>1. use # name
                <4> SUFFICES ASSUME use = name PROVE use \in declared_names
                    BY <2>3, <2>6
                <4>1. use # NoName
                    BY DEF BoundsAssumption
                <4>2. PICK i \in 1 .. Len(func_and_var_names) : use \in DOMAIN func_and_var_names[i]
                    BY <1>0, <2>1, <4>1, LookupCases DEF Defined, Innermost
                <4> QED
                    BY <4>2 DEF MapsAgree, SideBySide, BoundIn
            <3>2. lookup(variable_names', use, NoVariable) = lookup(variable_names, use, NoVariable)
                BY <1>0, <1>1, <2>1, <3>1, LookupOther
            <3> QED
                BY <2>1, <2>3, <2>6, <3>2, UsesAgree
        <2>7. CapturedInMemory' /\ MemoryIsNeeded' /\ FramesAreStored'
            BY <2>3, <2>5, <2>6, NotesAgree
        <2>8. FunctionsKeepFrames'
            <3>1. Cardinality(FunctionsIn(open')) = Cardinality(FunctionsIn(open))
                BY <1>0, <2>2, OneMore, FunctionsCounted
            <3> QED
                BY <1>2, <2>1, <2>5, <3>1
        <2>9. OwnersOpen(func_and_var_names', open', func_stack')
            <3>1. /\ newLayer(func_and_var_names) \in Maps
                  /\ Len(newLayer(func_and_var_names)) = Len(open) + 2
                BY <1>0, NewLayer
            <3>2. OwnersOpen(newLayer(func_and_var_names), open', func_stack)
                BY <1>0, <2>2, OwnersLayer
            <3>3. Cardinality(FunctionsIn(open')) = Cardinality(FunctionsIn(open))
                BY <1>0, <2>2, OneMore, FunctionsCounted
            <3>4. FunctionsBefore(open', Len(open) + 2) = FunctionsIn(open')
                BY <1>0, <2>2 DEF FunctionsBefore, FunctionsIn
            <3>5. Len(func_stack) = 1 + Cardinality(FunctionsBefore(open', Len(newLayer(func_and_var_names))))
                BY <1>0, <3>1, <3>3, <3>4
            <3> QED
                BY <1>0, <1>1, <2>1, <3>1, <3>2, <3>5, OwnersAdd
        <2> QED
            BY <1>0, <2>1, <2>2, <2>3, <2>4, <2>7, <2>8, <2>9
    <1>11. CASE ForEnd
        <2>1. /\ open # <<>> /\ open[Len(open)] = "for"
              /\ open' = SubSeq(open, 1, Len(open) - 1) /\ func_stack' = func_stack
              /\ variable_names' = variable_names
              /\ func_and_var_names' = removeLastLayer(func_and_var_names)
              /\ UNCHANGED <<elements, declared, var_info, exports, captured, stored_fps>>
            BY <1>11 DEF ForEnd, Top, analysis
        <2>2. Len(open) > 0 /\ open[Len(open)] # "function"
            BY <1>0, <2>1
        <2>3. ListsOfNames' /\ MapsAgree' /\ shared_names' = shared_names
            <3>1. SideBySide(variable_names', func_and_var_names', open',
                             declared_names, PlainNames, LoopOnly)
                BY <1>6, <2>1, <2>2, LoopCloses DEF MapsAgree
            <3> QED
                BY <2>1, <3>1, DeclaredNothing DEF MapsAgree
        <2>4. Cardinality(FunctionsIn(open')) = Cardinality(FunctionsIn(open))
            BY <1>6, <2>1, <2>2
        <2>5. FunctionsKeepFrames'
            BY <1>2, <2>1, <2>4
        <2>6. OwnersOpen(func_and_var_names', open', func_stack')
            BY <1>0, <1>6, <2>1, <2>2, <2>4, OwnersClose
        <2>7. FramesAreStored'
            BY <2>1 DEF FramesAreStored
        <2> QED
            BY <1>3, <1>6, <2>1, <2>2, <2>3, <2>5, <2>6, <2>7
    <1>12. ASSUME open' = ExpressionWritten, func_stack' = func_stack, exports \subseteq exports',
                  UNCHANGED <<declared, variable_names, func_and_var_names>>
           PROVE  /\ open' \in Seq(Parts) /\ ListsOfNames' /\ MapsAgree' /\ shared_names' = shared_names
                  /\ FunctionsKeepFrames'
                  /\ OwnersOpen(func_and_var_names', open', func_stack')
        <2>1. /\ ListsOfNames' /\ declared_names' = declared_names /\ shared_names' = shared_names
              /\ PlainNames' = PlainNames /\ LoopOnly' = LoopOnly
            BY <1>12, DeclaredNothing
        <2>2. /\ open' \in Seq(Parts) /\ FunctionsIn(open') = FunctionsIn(open)
              /\ SideBySide(variable_names, func_and_var_names, open', declared_names, PlainNames, LoopOnly)
              /\ OwnersOpen(func_and_var_names, open', func_stack)
            BY <1>0, <1>12, BodyFollows, SameFunctions, SameShape, OwnersSame DEF MapsAgree
        <2> QED
            BY <1>2, <1>12, <2>1, <2>2 DEF MapsAgree
    <1>13. ASSUME NEW use \in Names, Identifier(use)
           PROVE  EscapeInv'
        <2>1. /\ Defined(use) /\ elements' = elements + 1 /\ open' = ExpressionWritten
              /\ func_stack' = func_stack
              /\ UNCHANGED <<declared, variable_names, func_and_var_names>>
              /\ Note(Analysed(variable_names, use), Accessed(func_and_var_names, use))
              /\ captured' = captured \cup Accessed(func_and_var_names, use).variables
              /\ exports \subseteq exports'
            BY <1>13 DEF Identifier, Write, Note
        <2>2. /\ open' \in Seq(Parts) /\ ListsOfNames' /\ MapsAgree' /\ shared_names' = shared_names
              /\ FunctionsKeepFrames' /\ OwnersOpen(func_and_var_names', open', func_stack')
            BY <1>12, <2>1
        <2>3. use \notin shared_names' => Analysed(variable_names, use) = Accessed(func_and_var_names, use)
            BY <2>1, <2>2, UsesAgree
        <2>4. CapturedInMemory' /\ MemoryIsNeeded' /\ FramesAreStored'
            BY <2>1, <2>2, <2>3, NotesAgree
        <2> QED
            BY <1>0, <2>1, <2>2, <2>4
    <1>14. ASSUME NEW i, FunctionCall(i)
           PROVE  EscapeInv'
        <2>1. /\ i \in 1 .. Depth - 2 /\ elements' = elements + 1 /\ open' = ExpressionWritten
              /\ UNCHANGED <<declared, func_stack, variable_names, func_and_var_names, var_info,
                             exports, captured>>
              /\ stored_fps' = stored_fps \cup {func_stack[k] : k \in i + 1 .. Depth - 1}
            BY <1>14 DEF FunctionCall, Write, analysis
        <2>2. \A k \in i + 1 .. Depth - 1 : func_stack[k] \in exports
            <3>1. \A k \in i + 1 .. Depth - 1 : k \in 2 .. Depth - 1
                BY <1>0, <2>1
            <3> QED
                BY <3>1 DEF FunctionsKeepFrames
        <2>3. FramesAreStored'
            BY <2>1, <2>2 DEF FramesAreStored
        <2>4. /\ open' \in Seq(Parts) /\ ListsOfNames' /\ MapsAgree' /\ shared_names' = shared_names
              /\ FunctionsKeepFrames' /\ OwnersOpen(func_and_var_names', open', func_stack')
            BY <1>12, <2>1
        <2> QED
            BY <1>0, <1>3, <2>1, <2>3, <2>4
    <1>15. CASE UNCHANGED vars
        <2>1. /\ UNCHANGED <<elements, declared, open, func_stack, variable_names, var_info, exports,
                             func_and_var_names, captured, stored_fps>>
            BY <1>15 DEF vars, analysis, translation
        <2>2. ListsOfNames' /\ MapsAgree' /\ shared_names' = shared_names
            BY <2>1, DeclaredNothing DEF MapsAgree
        <2>3. FunctionsKeepFrames' /\ FramesAreStored'
            BY <1>2, <2>1 DEF FramesAreStored
        <2> QED
            BY <1>3, <2>1, <2>2, <2>3
    <1> QED
        BY <1>4, <1>5, <1>7, <1>8, <1>9, <1>10, <1>11, <1>13, <1>14, <1>15 DEF Next

\* What the proofs of the three properties rest on: the maps of the analysis
\* and of the translator give every name the same variable, unless a loop
\* shares it with another declaration, the functions that are open are those
\* of the constructs that are open, and the owner of a variable is one of them.
THEOREM EscapeInvariant == Spec => []EscapeInv
    <1>1. Init => EscapeInv
        BY EscapeInit
    <1>2. EscapeInv /\ [Next]_vars => EscapeInv'
        BY EscapeNext, BoundsAssumption
    <1> QED
        BY <1>1, <1>2, PTL DEF Spec

\* createCode finds a variable of another function in memory, whatever the
\* program: a variable the translator uses from an inner function, elsewhere
\* than in an initial value and by a name that no loop shares with another
\* declaration, is one the analysis has put into memory.
THEOREM CapturedCorrect == Spec => []CapturedInMemory
    <1>1. EscapeInv => CapturedInMemory
        BY DEF EscapeInv
    <1> QED
        BY <1>1, EscapeInvariant, PTL

\* A variable that is in memory is used from an inner function: the
\* analysis puts no other into memory, the same names excepted.
THEOREM MemoryCorrect == Spec => []MemoryIsNeeded
    <1>1. EscapeInv => MemoryIsNeeded
        BY DEF EscapeInv
    <1> QED
        BY <1>1, EscapeInvariant, PTL

\* The frames over which the translator reaches a variable or a function
\* hold the frame of their parent, in every program and for every use,
\* initial values and names of loops included: their functions are listed in
\* func_exports_parent_fp_to_children, because another is declared in them.
THEOREM FramesCorrect == Spec => []FramesAreStored
    <1>1. EscapeInv => FramesAreStored
        BY DEF EscapeInv
    <1> QED
        BY <1>1, EscapeInvariant, PTL
-----------------------------------------------------------------------------
(* Static links. *)

\* Everything above frame p up to frame n is declared inside p's function.
Encloses(p, n) == \A k \in p + 1 .. n : <<stack[k].func, stack[p].func>> \in Inside

\* The static link of activation i, and its copy in memory.
Linked(i) ==
    /\ stack[i].func # Program
    /\ stack[i].parent_fp \in 1 .. i - 1
    /\ stack[stack[i].parent_fp].func = Parent[stack[i].func]
    /\ Encloses(stack[i].parent_fp, i)
    /\ ExportsParentFp(stack[i].func) => stack[i].stored = stack[i].parent_fp

\* What is looked for lies further out than the frame reached.
Ahead ==
    /\ goal.kind = "none" => goal = NoGoal
    /\ goal.kind = "call" =>
          /\ goal.func # Program /\ sibling # Program
          /\ \/ Parent[sibling] = Parent[goal.func]
             \/ <<Parent[sibling], Parent[goal.func]>> \in Inside
    /\ goal.kind = "variable" =>
          sibling = goal.func \/ <<sibling, goal.func>> \in Inside

LinkInv ==
    /\ LinksTypeOK
    /\ TopFrame \in Nat \ {0}
    /\ stack[1].func = Program
    /\ \A i \in 2 .. TopFrame : Linked(i)
    /\ at \in 1 .. TopFrame
    /\ stack[at].func = sibling
    /\ Encloses(at, TopFrame)
    /\ at # TopFrame => ExportsParentFp(sibling)
    /\ Ahead

LEMMA ActivationType ==
    ASSUME NEW f \in Functions, NEW p \in Nat
    PROVE  Activation(f, p) \in Activations
    BY DEF Activation, Activations, NoFrame

\* Every activation is one of a function of the program.
LEMMA FramesTyped ==
    ASSUME LinkInv
    PROVE  \A k \in 1 .. TopFrame : stack[k].func \in Functions
<1> SUFFICES ASSUME NEW k \in 1 .. TopFrame PROVE stack[k].func \in Functions
    OBVIOUS
<1>1. stack[k] \in Activations
    BY DEF LinkInv, LinksTypeOK, TopFrame
<1> QED
    BY <1>1 DEF Activations

LEMMA InitLinks == LinksInit => LinkInv
<1> SUFFICES ASSUME LinksInit PROVE LinkInv
    OBVIOUS
<1>1. Program \in Functions
    BY NestingAssumption
<1>2. Activation(Program, NoFrame) \in Activations
    BY <1>1, ActivationType DEF NoFrame
<1>3. stack = <<Activation(Program, NoFrame)>> /\ TopFrame = 1
    BY DEF LinksInit, TopFrame
<1>4. LinksTypeOK
    BY <1>1, <1>2, <1>3 DEF LinksInit, LinksTypeOK, Goals, NoGoal
<1> QED
    BY <1>3, <1>4 DEF LinksInit, LinkInv, Linked, Encloses, Ahead, NoGoal, Activation

\* The parent of a function that was reached is known in its frame or in
\* its registers.
LEMMA ParentKnown ==
    ASSUME LinkInv, sibling # Program
    PROVE  /\ at \in 2 .. TopFrame
           /\ ParentFpOf(at) = stack[at].parent_fp
           /\ ParentFpOf(at) \in 1 .. at - 1
           /\ stack[ParentFpOf(at)].func = Parent[sibling]
           /\ Encloses(ParentFpOf(at), TopFrame)
<1>1. at \in 2 .. TopFrame
    BY DEF LinkInv
<1>2. Linked(at)
    BY <1>1 DEF LinkInv
<1>3. ParentFpOf(at) = stack[at].parent_fp
    BY <1>2 DEF LinkInv, Linked, ParentFpOf
<1> DEFINE p == ParentFpOf(at)
<1>4. p \in 1 .. at - 1 /\ stack[p].func = Parent[sibling] /\ Encloses(p, at)
    BY <1>2, <1>3 DEF Linked, LinkInv
<1>5. \A k \in 1 .. TopFrame : stack[k].func \in Functions
    BY FramesTyped
<1>6. ASSUME NEW k \in p + 1 .. TopFrame PROVE <<stack[k].func, stack[p].func>> \in Inside
    <2>1. CASE k <= at
        <3>1. k \in p + 1 .. at
            BY <2>1, <1>1, <1>4 DEF LinkInv
        <3> QED
            BY <3>1, <1>4 DEF Encloses
    <2>2. CASE k > at
        <3>1. k \in at + 1 .. TopFrame
            BY <2>2, <1>1, <1>4 DEF LinkInv
        <3>2. <<stack[k].func, sibling>> \in Inside
            BY <3>1 DEF LinkInv, Encloses
        <3>3. at \in p + 1 .. at
            BY <1>1, <1>4
        <3>4. <<sibling, stack[p].func>> \in Inside
            BY <3>3, <1>4 DEF LinkInv, Encloses
        <3>5. /\ stack[k].func \in Functions /\ sibling \in Functions
              /\ stack[p].func \in Functions
            <4>1. k \in 1 .. TopFrame /\ p \in 1 .. TopFrame
                BY <3>1, <1>1, <1>4 DEF LinkInv
            <4> QED
                BY <4>1, <1>5 DEF LinkInv, LinksTypeOK
        <3> QED
            BY <3>2, <3>4, <3>5, NestingAssumption
    <2> QED
        BY <2>1, <2>2, <1>1, <1>4 DEF LinkInv
<1> QED
    BY <1>1, <1>3, <1>4, <1>6 DEF Encloses

\* A function may be entered with a frame of its declaring function above
\* which everything is declared inside that function.
LEMMA EnterLinks ==
    ASSUME LinkInv, NEW g \in Functions, g # Program, NEW p \in 1 .. TopFrame,
           stack[p].func = Parent[g], Encloses(p, TopFrame), Enter(g, p)
    PROVE  LinkInv'
<1>1. /\ stack \in Seq(Activations) /\ TopFrame = Len(stack) /\ TopFrame \in Nat \ {0}
      /\ stack' = Append(stack, Activation(g, p))
      /\ goal' = NoGoal /\ sibling' = g /\ at' = TopFrame + 1
    BY DEF LinkInv, LinksTypeOK, Enter, TopFrame
<1>2. Activation(g, p) \in Activations
    BY <1>1, ActivationType
<1>3. /\ TopFrame' = TopFrame + 1
      /\ stack' \in Seq(Activations)
      /\ \A k \in 1 .. TopFrame : stack'[k] = stack[k]
      /\ stack'[TopFrame + 1] = Activation(g, p)
    BY <1>1, <1>2 DEF TopFrame
<1>4. LinksTypeOK'
    BY <1>1, <1>3, NestingAssumption DEF LinksTypeOK, Goals, NoGoal
<1>5. ASSUME NEW i \in 2 .. TopFrame PROVE Linked(i)'
    <2>1. Linked(i)
        BY DEF LinkInv
    <2>2. i \in 1 .. TopFrame /\ stack[i].parent_fp \in 1 .. TopFrame
        BY <2>1, <1>1 DEF Linked
    <2>3. \A k \in stack[i].parent_fp + 1 .. i : k \in 1 .. TopFrame
        BY <2>2, <1>1
    <2> QED
        BY <2>1, <2>2, <2>3, <1>3 DEF Linked, Encloses, ExportsParentFp
<1>6. ASSUME NEW i, i = TopFrame + 1 PROVE Linked(i)'
    <2>1. /\ stack'[TopFrame + 1].func = g /\ stack'[TopFrame + 1].parent_fp = p
          /\ ExportsParentFp(g) => stack'[TopFrame + 1].stored = p
        BY <1>3 DEF Activation
    <2>2. stack'[p].func = Parent[g]
        BY <1>3
    <2>3. ASSUME NEW k \in p + 1 .. TopFrame + 1
          PROVE  <<stack'[k].func, stack'[p].func>> \in Inside
        <3>1. CASE k = TopFrame + 1
            BY <3>1, <2>1, <2>2, NestingAssumption
        <3>2. CASE k # TopFrame + 1
            <4>1. k \in p + 1 .. TopFrame /\ k \in 1 .. TopFrame
                BY <3>2, <1>1
            <4> QED
                BY <4>1, <1>3 DEF Encloses
        <3> QED
            BY <3>1, <3>2
    <2>4. \A k \in p + 1 .. TopFrame + 1 : <<stack'[k].func, stack'[p].func>> \in Inside
        BY <2>3
    <2>5. p \in 1 .. (TopFrame + 1) - 1
        BY <1>1
    <2> QED
        BY <1>6, <2>1, <2>2, <2>4, <2>5 DEF Linked, Encloses, ExportsParentFp
<1>7. \A i \in 2 .. TopFrame' : Linked(i)'
    <2> SUFFICES ASSUME NEW i \in 2 .. TopFrame' PROVE Linked(i)'
        OBVIOUS
    <2>1. CASE i = TopFrame + 1
        BY <2>1, <1>6
    <2>2. CASE i # TopFrame + 1
        <3>1. i \in 2 .. TopFrame
            BY <2>2, <1>1, <1>3
        <3> QED
            BY <3>1, <1>5
    <2> QED
        BY <2>1, <2>2
<1>8. stack'[1].func = Program
    BY <1>1, <1>3 DEF LinkInv
<1>9. /\ at' \in 1 .. TopFrame' /\ stack'[at'].func = sibling' /\ Encloses(at, TopFrame)'
      /\ at' = TopFrame'
    BY <1>1, <1>3 DEF Activation, Encloses
<1>10. Ahead'
    BY <1>1 DEF Ahead, NoGoal
<1> QED
    BY <1>1, <1>3, <1>4, <1>7, <1>8, <1>9, <1>10 DEF LinkInv

\* The search starts from the top frame.
LEMMA LookLinks ==
    ASSUME LinkInv, NEW kind \in {"call", "variable"}, NEW f \in Functions, Look(kind, f),
           kind = "call" =>
              /\ f # Program /\ Current # Program
              /\ <<Parent[Current], Parent[f]>> \in Inside,
           kind = "variable" => <<Current, f>> \in Inside
    PROVE  LinkInv'
<1>1. /\ stack' = stack /\ goal' = [kind |-> kind, func |-> f]
      /\ sibling' = Current /\ at' = TopFrame /\ TopFrame' = TopFrame
    BY DEF Look, TopFrame
<1>2. Current \in Functions /\ TopFrame \in Nat \ {0} /\ at' = TopFrame
    <2>1. TopFrame \in 1 .. TopFrame
        BY DEF LinkInv
    <2> QED
        BY <1>1, <2>1, FramesTyped DEF LinkInv, Current
<1>3. LinksTypeOK'
    BY <1>1, <1>2 DEF LinkInv, LinksTypeOK, Goals
<1>4. \A i \in 2 .. TopFrame' : Linked(i)'
    BY <1>1 DEF LinkInv, Linked, Encloses, ExportsParentFp
<1>5. Ahead'
    BY <1>1 DEF Ahead
<1> QED
    BY <1>1, <1>2, <1>3, <1>4, <1>5 DEF LinkInv, Encloses, Current

\* An activation that ends leaves the links of the others alone.
LEMMA ReturnLinks == ASSUME LinkInv, Return PROVE LinkInv'
<1>1. /\ stack \in Seq(Activations) /\ TopFrame = Len(stack) /\ TopFrame \in Nat /\ TopFrame > 1
      /\ stack' = SubSeq(stack, 1, TopFrame - 1) /\ goal' = goal /\ goal = NoGoal
      /\ sibling' = stack[TopFrame - 1].func /\ at' = TopFrame - 1
    BY DEF LinkInv, LinksTypeOK, Return, TopFrame
<1>2. /\ TopFrame' = TopFrame - 1
      /\ stack' \in Seq(Activations)
      /\ \A k \in 1 .. TopFrame - 1 : stack'[k] = stack[k]
    BY <1>1 DEF TopFrame
<1>3. stack[TopFrame - 1].func \in Functions
    BY <1>1, FramesTyped
<1>4. LinksTypeOK'
    BY <1>1, <1>2, <1>3 DEF LinkInv, LinksTypeOK
<1>5. ASSUME NEW i \in 2 .. TopFrame - 1 PROVE Linked(i)'
    <2>1. Linked(i)
        BY <1>1 DEF LinkInv
    <2>2. i \in 1 .. TopFrame - 1 /\ stack[i].parent_fp \in 1 .. TopFrame - 1
        BY <2>1, <1>1 DEF Linked
    <2>3. \A k \in stack[i].parent_fp + 1 .. i : k \in 1 .. TopFrame - 1
        BY <2>2, <1>1
    <2> QED
        BY <2>1, <2>2, <2>3, <1>2 DEF Linked, Encloses, ExportsParentFp
<1>6. /\ at' \in 1 .. TopFrame' /\ stack'[at'].func = sibling' /\ Encloses(at, TopFrame)' /\ at' = TopFrame'
    BY <1>1, <1>2 DEF Encloses
<1>7. Ahead'
    BY <1>1 DEF Ahead, NoGoal
<1>8. stack'[1].func = Program
    BY <1>1, <1>2 DEF LinkInv
<1> QED
    BY <1>1, <1>2, <1>4, <1>5, <1>6, <1>7, <1>8 DEF LinkInv

\* A step of the search goes to the frame of the declaring function.
LEMMA GoOutLinks == ASSUME LinkInv, GoOut PROVE LinkInv'
<1>1. /\ stack' = stack /\ goal' = goal /\ TopFrame' = TopFrame
      /\ at' = ParentFpOf(at) /\ sibling' = Parent[sibling]
    BY DEF GoOut, TopFrame
<1>2. goal \in Goals /\ sibling \in Functions /\ goal.func \in Functions
    BY DEF LinkInv, LinksTypeOK, Goals
<1>3. /\ goal.kind \in {"call", "variable"}
      /\ goal.kind = "call" =>
            goal.func # Program /\ <<Parent[sibling], Parent[goal.func]>> \in Inside
      /\ goal.kind = "variable" => <<sibling, goal.func>> \in Inside
      /\ sibling # Program
    BY <1>2, NestingAssumption DEF GoOut, Reached, LinkInv, Ahead, Goals
<1>4. /\ at \in 2 .. TopFrame /\ at' \in 1 .. at - 1 /\ stack[at'].func = sibling'
      /\ Encloses(at', TopFrame) /\ sibling' \in Functions
    BY <1>1, <1>2, <1>3, ParentKnown, NestingAssumption
<1>5. LinksTypeOK'
    BY <1>1, <1>2, <1>4 DEF LinkInv, LinksTypeOK
<1>6. \A i \in 2 .. TopFrame' : Linked(i)'
    BY <1>1 DEF LinkInv, Linked, Encloses, ExportsParentFp
<1>7. ExportsParentFp(sibling')
    BY <1>1, <1>2, <1>3 DEF ExportsParentFp
<1>8. Ahead'
    <2>1. CASE goal.kind = "call"
        <3>1. sibling' # Program /\ Parent[goal.func] \in Functions
            BY <1>1, <1>2, <1>3, <1>4, <2>1, NestingAssumption
        <3>2. \/ Parent[sibling'] = Parent[goal.func]
              \/ <<Parent[sibling'], Parent[goal.func]>> \in Inside
            BY <1>1, <1>3, <1>4, <2>1, <3>1, NestingAssumption
        <3> QED
            BY <1>1, <1>3, <2>1, <3>1, <3>2 DEF Ahead
    <2>2. CASE goal.kind = "variable"
        <3>1. sibling' = goal.func \/ <<sibling', goal.func>> \in Inside
            BY <1>1, <1>2, <1>3, <2>2, NestingAssumption
        <3> QED
            BY <1>1, <2>2, <3>1 DEF Ahead
    <2> QED
        BY <1>3, <2>1, <2>2
<1>9. Encloses(at, TopFrame)'
    BY <1>1, <1>4 DEF Encloses
<1>10. at' \in 1 .. TopFrame' /\ TopFrame \in Nat \ {0}
    BY <1>1, <1>4 DEF LinkInv
<1> QED
    BY <1>1, <1>4, <1>5, <1>6, <1>7, <1>8, <1>9, <1>10 DEF LinkInv

LEMMA NextLinks == LinkInv /\ [LinksNext]_linkVars => LinkInv'
<1> SUFFICES ASSUME LinkInv, [LinksNext]_linkVars PROVE LinkInv'
    OBVIOUS
<1>1. /\ TopFrame \in 1 .. TopFrame /\ Current \in Functions /\ stack[TopFrame].func = Current
      /\ Encloses(TopFrame, TopFrame)
    <2>1. TopFrame \in 1 .. TopFrame
        BY DEF LinkInv
    <2> QED
        BY <2>1, FramesTyped DEF Current, Encloses, LinkInv
<1>2. ASSUME NEW g \in Functions, CallChild(g) PROVE LinkInv'
    BY <1>1, <1>2, EnterLinks DEF CallChild
<1>3. ASSUME NEW g \in Functions, CallSibling(g) PROVE LinkInv'
    <2>1. TopFrame \in 2 .. TopFrame
        BY <1>1, <1>3 DEF CallSibling, LinkInv
    <2>2. Linked(TopFrame)
        BY <2>1 DEF LinkInv
    <2>3. stack[TopFrame].parent_fp \in 1 .. TopFrame
        BY <2>1, <2>2 DEF Linked
    <2> QED
        BY <1>1, <1>3, <2>2, <2>3, EnterLinks DEF CallSibling, Linked
<1>4. ASSUME NEW g \in Functions, CallOuter(g) PROVE LinkInv'
    BY <1>1, <1>4, LookLinks DEF CallOuter
<1>5. ASSUME NEW f \in Functions, UseVariable(f) PROVE LinkInv'
    BY <1>1, <1>5, LookLinks DEF UseVariable
<1>6. CASE CallReached
    <2>1. /\ goal.func \in Functions /\ goal.func # Program /\ sibling # Program
          /\ Parent[sibling] = Parent[goal.func]
        BY <1>6 DEF CallReached, Reached, LinkInv, LinksTypeOK, Goals, Ahead
    <2>2. /\ ParentFpOf(at) \in 1 .. TopFrame
          /\ stack[ParentFpOf(at)].func = Parent[goal.func]
          /\ Encloses(ParentFpOf(at), TopFrame)
        <3>1. /\ at \in 2 .. TopFrame /\ TopFrame \in Nat
              /\ ParentFpOf(at) \in 1 .. at - 1
              /\ stack[ParentFpOf(at)].func = Parent[sibling]
              /\ Encloses(ParentFpOf(at), TopFrame)
            BY <2>1, ParentKnown DEF LinkInv
        <3> QED
            BY <2>1, <3>1
    <2> QED
        BY <1>6, <2>1, <2>2, EnterLinks DEF CallReached
<1>7. CASE VariableReached \/ UNCHANGED linkVars
    <2>1. /\ stack' = stack /\ sibling' = sibling /\ at' = at /\ TopFrame' = TopFrame
          /\ goal' \in {goal, NoGoal}
        BY <1>7 DEF VariableReached, linkVars, TopFrame
    <2>2. goal' \in Goals
        BY <2>1, NestingAssumption DEF LinkInv, LinksTypeOK, Goals, NoGoal
    <2>3. Ahead'
        BY <2>1 DEF LinkInv, Ahead, NoGoal
    <2> QED
        BY <2>1, <2>2, <2>3 DEF LinkInv, LinksTypeOK, Linked, Encloses, ExportsParentFp
<1> QED
    BY <1>2, <1>3, <1>4, <1>5, <1>6, <1>7, GoOutLinks, ReturnLinks DEF LinksNext

LEMMA SpecLinks == LinksSpec => []LinkInv
    BY InitLinks, NextLinks, PTL DEF LinksSpec

-----------------------------------------------------------------------------

\* The frame handed to a callee is the latest one of the function that
\* declares it, and all variables keep their types.
THEOREM LinksCorrect == LinksSpec => [](LinksTypeOK /\ LinksAreLatest)
<1>1. ASSUME LinkInv PROVE LinksTypeOK /\ LinksAreLatest
    <2>1. ASSUME NEW i \in 2 .. TopFrame
          PROVE  IsLatest(stack[i].parent_fp, Parent[stack[i].func], i - 1)
        <3>1. Linked(i)
            BY <1>1 DEF LinkInv
        <3>2. stack[stack[i].parent_fp].func \in Functions
            <4>1. stack[i].parent_fp \in 1 .. TopFrame
                BY <1>1, <3>1 DEF Linked, LinkInv
            <4> QED
                BY <1>1, <4>1, FramesTyped
        <3>3. \A k \in stack[i].parent_fp + 1 .. i - 1 :
                 stack[k].func # stack[stack[i].parent_fp].func
            <4> SUFFICES ASSUME NEW k \in stack[i].parent_fp + 1 .. i - 1
                         PROVE  stack[k].func # stack[stack[i].parent_fp].func
                OBVIOUS
            <4>1. k \in stack[i].parent_fp + 1 .. i
                BY <1>1, <3>1 DEF Linked, LinkInv
            <4>2. <<stack[k].func, stack[stack[i].parent_fp].func>> \in Inside
                BY <3>1, <4>1 DEF Linked, Encloses
            <4> QED
                BY <3>2, <4>2, NestingAssumption
        <3> QED
            BY <3>1, <3>3 DEF Linked, IsLatest
    <2> QED
        BY <1>1, <2>1 DEF LinkInv, LinksAreLatest
<1> QED
    BY <1>1, SpecLinks, PTL

\* A variable of an enclosing function is looked up in the latest frame of
\* that function.
THEOREM VariablesCorrect == LinksSpec => []VariableInLatest
<1>1. ASSUME LinkInv PROVE VariableInLatest
    <2> SUFFICES ASSUME goal.kind = "variable", Reached
                 PROVE  IsLatest(at, goal.func, TopFrame)
        BY DEF VariableInLatest
    <2>1. sibling = goal.func /\ sibling \in Functions
        BY <1>1 DEF Reached, LinkInv, LinksTypeOK
    <2> QED
        BY <1>1, <2>1, NestingAssumption DEF LinkInv, IsLatest, Encloses
<1> QED
    BY <1>1, SpecLinks, PTL

\* No frame is asked for a parent frame it has not stored.
THEOREM StoredCorrect == LinksSpec => []LinkIsStored
<1>1. ASSUME LinkInv PROVE LinkIsStored
    <2> SUFFICES ASSUME goal # NoGoal, ~ Reached PROVE ParentFpOf(at) # NoFrame
        BY DEF LinkIsStored
    <2>1. goal \in Goals /\ goal.func \in Functions
        BY <1>1 DEF LinkInv, LinksTypeOK, Goals
    <2>2. sibling # Program
        BY <1>1, <2>1, NestingAssumption DEF Reached, LinkInv, Ahead, Goals
    <2> QED
        BY <1>1, <2>2, ParentKnown DEF NoFrame
<1> QED
    BY <1>1, SpecLinks, PTL
=============================================================================
