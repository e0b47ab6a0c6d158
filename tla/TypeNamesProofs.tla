-------------------------- MODULE TypeNamesProofs --------------------------
(***************************************************************************)
(* What TypesEnvironment makes of the declarations of types: every         *)
(* reference leads to a type, a batch is rejected exactly if it is wrong,  *)
(* and names mean what was declared.                                       *)
(***************************************************************************)
EXTENDS TypeNames, Iteration, SequenceTheorems

AllNames == TypeIds \cup {IntName}

Layers == UNION {[D -> Nat \ {0}] : D \in SUBSET AllNames}
Maps == {m \in Seq(Layers) : Len(m) > 0}

Kinds == {"int", "error", "reference", "complex"}
TypeObjects == [kind : Kinds, meaning : Nat, parts : Seq(AllNames), part_types : Seq(Nat)]
BatchEntries == [name : TypeIds, kind : {"name", "complex"}, part : AllNames, object : Nat \ {0}]
-----------------------------------------------------------------------------
(* The invariant *)

\* What holds of every program.
TypesInv ==
    /\ types \in Seq(TypeObjects) /\ Len(types) >= 2
    /\ types[int_type].kind = "int" /\ types[error_type].kind = "error"
    /\ \A t \in Objects :
          /\ types[t].meaning \in Objects \cup {NULL}
          /\ \A k \in DOMAIN types[t].part_types : types[t].part_types[k] \in Objects

NamesInv ==
    /\ typenames \in Maps /\ env \in Maps /\ Len(env) = Len(typenames)
    /\ \A k \in 1 .. Len(typenames) : \A x \in DOMAIN typenames[k] : typenames[k][x] \in Objects

BatchInv ==
    /\ batch \in Seq(BatchEntries)
    /\ \A i \in DOMAIN batch : batch[i].object \in Objects

LoopInv ==
    /\ unknown_types \in Seq(Objects)
    /\ \A i \in DOMAIN unknown_types : IsReference(unknown_types[i])
    /\ pc \in {"declare", "undefined", "circular", "walk"}
    /\ pc = "walk" => current \in Objects /\ IsReference(current)
    /\ errors \in BOOLEAN /\ rejected \in BOOLEAN
    /\ BetweenBatches => unknown_types = <<>>

TypeInv == TypesInv /\ NamesInv /\ BatchInv /\ LoopInv

\* The references that lead to objects of B.
Closed(ty, S) ==
    \A t \in DOMAIN ty : ty[t].kind = "reference" /\ ty[t].meaning \in S => t \in S

Back(ty, B) ==
    {t \in DOMAIN ty : \A S \in SUBSET DOMAIN ty : B \subseteq S /\ Closed(ty, S) => t \in S}

Plain(ty) == {t \in DOMAIN ty : ty[t].kind # "reference"}

\* Only the references that the third loop has not come to may be in a circle.
Begun == IF pc = "walk" THEN Plain(types) \cup {current} ELSE Plain(types)

ResolveInv ==
    /\ pc \in {"declare", "undefined"} => \A t \in Objects : Undefined(t) => t \in Unknown
    /\ pc \in {"circular", "walk"} => \A t \in Objects : ~ Undefined(t)
    /\ Objects \ Unknown \subseteq Back(types, Begun)

-----------------------------------------------------------------------------
(* What holds as long as no error has been found. *)

Here == Len(typenames)

\* Names of earlier batches lead to their types.
OldNames ==
    \A k \in 1 .. Len(env) : \A x \in DOMAIN env[k] :
        /\ env[k][x] \in Plain(types) /\ env[k][x] # error_type
        /\ x \in DOMAIN typenames[k]
        /\ typenames[k][x] \in Back(types, {env[k][x]})

UsedInBatch(name) == \E i \in DOMAIN batch : batch[i].part = name

\* A name that is used and has not been declared.
Waits(x) ==
    /\ x \in DOMAIN typenames[Here] /\ x \notin DOMAIN env[Here] /\ ~ InBatch(x)

NewNames ==
    /\ \A k \in 1 .. Here - 1 : DOMAIN typenames[k] \subseteq DOMAIN env[k]
    /\ \A x \in AllNames : Waits(x) =>
          /\ Undefined(typenames[Here][x])
          /\ \A k \in 1 .. Len(env) : x \notin DOMAIN env[k]
          /\ UsedInBatch(x)
    /\ \A x, y \in AllNames : Waits(x) /\ Waits(y) /\ typenames[Here][x] = typenames[Here][y] => x = y

\* What is unknown waits for a name.
UnknownNames ==
    \A t \in Objects : Undefined(t) => \E x \in AllNames : Waits(x) /\ typenames[Here][x] = t

\* References of the batch are those of its names.
NewReferences ==
    \A t \in Objects :
        \/ t \in Back(types, Plain(types))
        \/ \E x \in DOMAIN typenames[Here] : x \notin DOMAIN env[Here] /\ typenames[Here][x] = t

\* a has the object o: directly or over a reference.
Leads(t, o) == t = o \/ (IsReference(t) /\ types[t].meaning = o)

\* The object that getType gave for the name in a declaration.
PartObject(i) ==
    IF batch[i].kind = "name" THEN batch[i].object ELSE types[batch[i].object].part_types[1]

\* It is the one of a type that was known then, or has stayed that of the name.
PartFound(i) ==
    IF KnownBefore(i)
    THEN PartObject(i) \in Back(types, {lookup(env, batch[i].part, error_type)})
    ELSE /\ lookup(typenames, batch[i].part, NULL) # NULL
         /\ PartObject(i) = lookup(typenames, batch[i].part, NULL)

Declared(i) ==
    LET b == batch[i] IN
    /\ b.name \in DOMAIN typenames[Here]
    /\ Declares(b.name) => Leads(typenames[Here][b.name], b.object)
    /\ PartFound(i)
    /\ b.kind = "complex" => ~ IsReference(b.object) /\ b.object # error_type

\* A name that stands for another one of the batch was declared after it, or
\* waited for it.
InOrder ==
    \A i, j \in DOMAIN batch :
        batch[i].kind = "name" /\ ~ KnownBefore(i) /\ batch[i].part = batch[j].name =>
            j < i \/ (IsReference(batch[i].object) /\ types[batch[i].object].meaning = batch[j].object)

Twice == \E i, j \in DOMAIN batch : i # j /\ batch[i].name = batch[j].name

\* The third loop has come here over references.
WalkInv ==
    pc = "walk" => \A t \in visited_types :
        t \in Objects /\ IsReference(t) /\ types[t].meaning \in visited_types \cup {current}

MeaningInv ==
    /\ OldNames /\ NewNames /\ UnknownNames /\ NewReferences
    /\ \A i \in DOMAIN batch : Declared(i)
    /\ InOrder /\ WalkInv

ErrorsInv ==
    /\ Twice => errors
    /\ pc \in {"declare", "undefined"} /\ errors => Twice
    /\ ~ rejected /\ errors => BatchIsWrong

NameInv == ErrorsInv /\ (~ rejected /\ ~ errors => MeaningInv)
-----------------------------------------------------------------------------
(* Maps in layers. *)

LEMMA LayerType ==
    ASSUME NEW layer \in Layers
    PROVE  /\ DOMAIN layer \subseteq AllNames
           /\ \A x \in DOMAIN layer : layer[x] \in Nat \ {0}
    BY DEF Layers

LEMMA BindType ==
    ASSUME NEW layer \in Layers, NEW x \in AllNames, NEW v \in Nat \ {0}
    PROVE  Bind(layer, x, v) \in Layers
    <1>1. PICK D \in SUBSET AllNames : layer \in [D -> Nat \ {0}]
        BY DEF Layers
    <1>2. Bind(layer, x, v) \in [D \cup {x} -> Nat \ {0}]
        BY <1>1 DEF Bind
    <1>3. D \cup {x} \in SUBSET AllNames
        BY <1>1
    <1> QED
        BY <1>2, <1>3 DEF Layers

LEMMA EmptyLayer == <<>> \in Layers /\ DOMAIN <<>> = {}
    <1>1. <<>> \in [{} -> Nat \ {0}]
        OBVIOUS
    <1> QED
        BY <1>1 DEF Layers

LEMMA MapType ==
    ASSUME NEW m \in Maps
    PROVE  /\ Len(m) \in Nat \ {0} /\ DOMAIN m = 1 .. Len(m)
           /\ m \in Seq(Layers)
           /\ \A i \in 1 .. Len(m) : m[i] \in Layers
    BY DEF Maps

LEMMA LayerAdded ==
    ASSUME NEW m \in Maps
    PROVE  /\ newLayer(m) \in Maps /\ Len(newLayer(m)) = Len(m) + 1
           /\ \A i \in 1 .. Len(m) : newLayer(m)[i] = m[i]
           /\ newLayer(m)[Len(m) + 1] = <<>>
    BY MapType, EmptyLayer DEF newLayer, Maps

LEMMA LayerRemoved ==
    ASSUME NEW m \in Maps, Len(m) > 1
    PROVE  /\ removeLastLayer(m) \in Maps /\ Len(removeLastLayer(m)) = Len(m) - 1
           /\ \A i \in 1 .. Len(m) - 1 : removeLastLayer(m)[i] = m[i]
    BY MapType DEF removeLastLayer, Maps

LEMMA Added ==
    ASSUME NEW m \in Maps, NEW x \in AllNames, NEW v \in Nat \ {0}
    PROVE  /\ add(m, x, v) \in Maps /\ Len(add(m, x, v)) = Len(m)
           /\ \A i \in 1 .. Len(m) - 1 : add(m, x, v)[i] = m[i]
           /\ DOMAIN add(m, x, v)[Len(m)] = DOMAIN m[Len(m)] \cup {x}
           /\ add(m, x, v)[Len(m)][x] = IF x \in DOMAIN m[Len(m)] THEN m[Len(m)][x] ELSE v
           /\ \A y \in DOMAIN m[Len(m)] : add(m, x, v)[Len(m)][y] = m[Len(m)][y]
    <1>1. m \in Seq(Layers) /\ Len(m) \in Nat \ {0} /\ m[Len(m)] \in Layers
        BY MapType
    <1>2. CASE BoundInLastLayer(m, x)
        BY <1>1, <1>2 DEF add, BoundInLastLayer, LastLayer
    <1>3. CASE ~ BoundInLastLayer(m, x)
        <2> DEFINE layer == Bind(m[Len(m)], x, v)
        <2>1. /\ layer \in Layers /\ DOMAIN layer = DOMAIN m[Len(m)] \cup {x} /\ layer[x] = v
              /\ \A y \in DOMAIN m[Len(m)] \ {x} : layer[y] = m[Len(m)][y]
            <3>1. layer \in Layers
                BY <1>1, BindType
            <3>2. /\ DOMAIN layer = DOMAIN m[Len(m)] \cup {x} /\ layer[x] = v
                  /\ \A y \in DOMAIN m[Len(m)] \ {x} : layer[y] = m[Len(m)][y]
                BY DEF Bind
            <3> QED
                BY <3>1, <3>2
        <2>2. add(m, x, v) = [m EXCEPT ![Len(m)] = layer]
            BY <1>3 DEF add
        <2> HIDE DEF layer
        <2>3. /\ add(m, x, v) \in Maps /\ Len(add(m, x, v)) = Len(m)
              /\ \A i \in 1 .. Len(m) - 1 : add(m, x, v)[i] = m[i]
              /\ add(m, x, v)[Len(m)] = layer
            BY <1>1, <2>1, <2>2 DEF Maps
        <2>4. x \notin DOMAIN m[Len(m)]
            BY <1>3 DEF BoundInLastLayer, LastLayer
        <2> QED
            BY <2>1, <2>3, <2>4
    <1> QED
        BY <1>2, <1>3
-----------------------------------------------------------------------------
(* What a lookup finds. *)

Innermost(m, x, i) ==
    /\ i \in 1 .. Len(m) /\ x \in DOMAIN m[i]
    /\ \A k \in i + 1 .. Len(m) : x \notin DOMAIN m[k]

LEMMA LookupFinds ==
    ASSUME NEW m \in Maps, NEW x, NEW none, NEW i, Innermost(m, x, i)
    PROVE  lookup(m, x, none) = m[i][x]
    <1>1. Len(m) \in Nat /\ DOMAIN m = 1 .. Len(m)
        BY MapType
    <1>2. i \in LayersWith(m, x) /\ \A j \in LayersWith(m, x) : j <= i /\ j \in 1 .. Len(m)
        BY <1>1 DEF Innermost, LayersWith
    <1>3. InnermostWith(m, x) = i
        <2>1. \A j \in LayersWith(m, x) \cup {0} :
                 (\A k \in LayersWith(m, x) : k <= j) => j = i
            BY <1>1, <1>2
        <2> QED
            BY <1>2, <2>1 DEF InnermostWith
    <1> QED
        BY <1>1, <1>2, <1>3 DEF lookup

LEMMA LookupFindsNone ==
    ASSUME NEW m \in Maps, NEW x, NEW none, \A i \in 1 .. Len(m) : x \notin DOMAIN m[i]
    PROVE  lookup(m, x, none) = none
    <1>1. LayersWith(m, x) = {}
        BY MapType DEF LayersWith
    <1>2. InnermostWith(m, x) = 0
        BY <1>1 DEF InnermostWith
    <1> QED
        BY <1>2 DEF lookup

LEMMA InnermostExists ==
    ASSUME NEW m \in Maps, NEW x, NEW i \in 1 .. Len(m), x \in DOMAIN m[i]
    PROVE  \E k : Innermost(m, x, k)
    <1> PICK n \in Nat : n = Len(m)
        BY MapType
    <1> DEFINE S == {k \in Nat : k < n /\ x \in DOMAIN m[n - k]}
    <1>1. n - i \in S
        <2>1. n - i \in Nat /\ n - i < n /\ n - (n - i) = i
            OBVIOUS
        <2> QED
            BY <2>1
    <1>2. PICK k \in S : \A l \in S : k <= l
        BY <1>1, LeastNatural
    <1>3. n - k \in 1 .. n /\ x \in DOMAIN m[n - k]
        BY <1>2
    <1>4. ASSUME NEW j \in n - k + 1 .. n, x \in DOMAIN m[j]
          PROVE  FALSE
        <2>1. n - j \in Nat /\ n - j < k /\ n - j < n /\ n - (n - j) = j
            BY <1>2
        <2> QED
            BY <1>2, <1>4, <2>1
    <1> QED
        BY <1>3, <1>4 DEF Innermost

LEMMA LookupCases ==
    ASSUME NEW m \in Maps, NEW x
    PROVE  \/ \E i : Innermost(m, x, i) /\ lookup(m, x, NULL) = m[i][x]
                       /\ m[i][x] \in Nat \ {0} /\ lookup(m, x, NULL) # NULL
           \/ /\ \A i \in 1 .. Len(m) : x \notin DOMAIN m[i]
              /\ lookup(m, x, NULL) = NULL
    <1>1. CASE \E i \in 1 .. Len(m) : x \in DOMAIN m[i]
        <2>1. PICK i : Innermost(m, x, i)
            BY <1>1, InnermostExists
        <2>2. m[i][x] \in Nat \ {0}
            BY <2>1, MapType, LayerType DEF Innermost
        <2>3. m[i][x] # NULL
            BY <2>2 DEF NULL
        <2> QED
            BY <2>1, <2>2, <2>3, LookupFinds
    <1>2. CASE ~ \E i \in 1 .. Len(m) : x \in DOMAIN m[i]
        BY <1>2, LookupFindsNone
    <1> QED
        BY <1>1, <1>2
-----------------------------------------------------------------------------
(* References that lead to objects. *)

LEMMA BackClosed ==
    ASSUME NEW ty, NEW B \in SUBSET DOMAIN ty
    PROVE  /\ B \subseteq Back(ty, B) /\ Back(ty, B) \subseteq DOMAIN ty
           /\ Closed(ty, Back(ty, B))
           /\ \A S \in SUBSET DOMAIN ty : B \subseteq S /\ Closed(ty, S) => Back(ty, B) \subseteq S
    BY DEF Back, Closed

LEMMA BackWithin ==
    ASSUME NEW ty, NEW B \in SUBSET DOMAIN ty, NEW C \in SUBSET DOMAIN ty, B \subseteq Back(ty, C)
    PROVE  Back(ty, B) \subseteq Back(ty, C)
    BY BackClosed

\* Objects are added and references get meanings.
Extends(ty, more) ==
    /\ DOMAIN ty \subseteq DOMAIN more
    /\ \A t \in DOMAIN ty :
          /\ more[t].kind = ty[t].kind /\ more[t].part_types = ty[t].part_types
          /\ more[t].meaning = ty[t].meaning \/ (ty[t].kind = "reference" /\ ty[t].meaning = NULL)

LEMMA BackGrows ==
    ASSUME NEW ty, NEW more, Extends(ty, more), NULL \notin DOMAIN ty,
           NEW B \in SUBSET DOMAIN ty, NEW C \in SUBSET DOMAIN more, B \subseteq C
    PROVE  Back(ty, B) \subseteq Back(more, C)
    <1> SUFFICES ASSUME NEW t \in Back(ty, B), NEW S \in SUBSET DOMAIN more,
                        C \subseteq S, Closed(more, S)
                 PROVE  t \in S
        BY DEF Back, Extends
    <1> DEFINE R == S \cap DOMAIN ty
    <1>1. Closed(ty, R)
        <2> SUFFICES ASSUME NEW u \in DOMAIN ty, ty[u].kind = "reference", ty[u].meaning \in R
                     PROVE  u \in R
            BY DEF Closed
        <2>1. u \in DOMAIN more /\ more[u].kind = "reference" /\ more[u].meaning = ty[u].meaning
            BY DEF Extends
        <2> QED
            BY <2>1 DEF Closed
    <1>2. t \in R
        BY <1>1, BackClosed
    <1> QED
        BY <1>2

LEMMA PlainGrows ==
    ASSUME NEW ty, NEW more, Extends(ty, more)
    PROVE  Plain(ty) \subseteq Plain(more)
    BY DEF Plain, Extends
-----------------------------------------------------------------------------
(* Following meanings. *)

LEMMA ObjectsAre ==
    ASSUME TypesInv
    PROVE  /\ Len(types) \in Nat /\ DOMAIN types = Objects /\ Objects = 1 .. Len(types)
           /\ int_type \in Objects /\ error_type \in Objects
           /\ int_type \in Plain(types) /\ error_type \in Plain(types)
           /\ NULL \notin Objects
           /\ Plain(types) = {t \in Objects : ~ IsReference(t)}
           /\ \A t \in Objects : types[t] \in TypeObjects /\ types[t].meaning \in Objects \cup {NULL}
    BY DEF TypesInv, Objects, int_type, error_type, Plain, NULL, IsReference

FollowedFrom(g) ==
    [t \in Objects \cup {NULL} |->
        IF t = NULL \/ ~ IsReference(t) THEN t ELSE g[types[t].meaning]]

LEMMA FollowingSteps ==
    ASSUME TypesInv
    PROVE  \E f \in [Nat -> [Objects \cup {NULL} -> Objects \cup {NULL}]] :
              /\ \A n \in Nat : Following[n] = f[n]
              /\ f[0] = FollowedFrom([t \in Objects \cup {NULL} |-> NULL])
              /\ \A n \in Nat : f[n + 1] = FollowedFrom(f[n])
    <1> DEFINE Places == Objects \cup {NULL}
               X == [Places -> Places]
               Defines(g) == g = [n \in Nat |->
                    [t \in Objects \cup {NULL} |->
                        IF t = NULL \/ ~ IsReference(t) THEN t
                        ELSE IF n = 0 THEN NULL
                        ELSE g[n - 1][types[t].meaning]]]
               g0 == CHOOSE g : Defines(g)
               F == [g \in X |-> FollowedFrom(g)]
               start == FollowedFrom([t \in Places |-> NULL])
    <1>1. \A t \in Places : t # NULL => types[t].meaning \in Places
        BY ObjectsAre
    <1>2. \A g \in X : FollowedFrom(g) \in X
        BY <1>1 DEF FollowedFrom
    <1>3. start \in X
        <2>1. [t \in Places |-> NULL] \in X
            OBVIOUS
        <2> HIDE DEF X
        <2> QED
            BY <1>2, <2>1
    <1>4. PICK f \in [Nat -> X] : f[0] = start /\ \A n \in Nat : f[n + 1] = F[f[n]]
        <2>1. F \in [X -> X]
            BY <1>2
        <2> HIDE DEF X, F, start
        <2> QED
            BY <1>3, <2>1, Iteration
    <1>5. \A n \in Nat : f[n + 1] = FollowedFrom(f[n])
        BY <1>4
    <1>6. Defines(f)
        <2> SUFFICES ASSUME NEW n \in Nat
                     PROVE  f[n] = [t \in Places |->
                                      IF t = NULL \/ ~ IsReference(t) THEN t
                                      ELSE IF n = 0 THEN NULL
                                      ELSE f[n - 1][types[t].meaning]]
            BY <1>4
        <2>1. CASE n = 0
            <3>1. \A t \in Places : t # NULL => [u \in Places |-> NULL][types[t].meaning] = NULL
                BY <1>1
            <3> QED
                BY <1>4, <2>1, <3>1 DEF FollowedFrom
        <2>2. CASE n # 0
            <3>1. n - 1 \in Nat /\ (n - 1) + 1 = n
                BY <2>2
            <3>2. f[n] = FollowedFrom(f[n - 1])
                BY <1>5, <3>1
            <3> QED
                BY <2>2, <3>2 DEF FollowedFrom
        <2> QED
            BY <2>1, <2>2
    <1>7. Defines(g0)
        <2> HIDE DEF Defines
        <2> QED
            BY <1>6
    <1>8. Following = g0
        BY DEF Following
    <1>9. g0[0] = start /\ \A n \in Nat : g0[n + 1] = FollowedFrom(g0[n])
        <2> HIDE DEF g0
        <2>1. g0[0] = start
            <3>1. \A t \in Places : t # NULL => [u \in Places |-> NULL][types[t].meaning] = NULL
                BY <1>1
            <3> QED
                BY <1>7, <3>1 DEF FollowedFrom
        <2>2. ASSUME NEW n \in Nat
              PROVE  g0[n + 1] = FollowedFrom(g0[n])
            <3>1. n + 1 \in Nat /\ n + 1 # 0 /\ (n + 1) - 1 = n
                OBVIOUS
            <3> QED
                BY <1>7, <3>1 DEF FollowedFrom
        <2> QED
            BY <2>1, <2>2
    <1>10. \A n \in Nat : g0[n] = f[n]
        <2> DEFINE S == {n \in Nat : g0[n] = f[n]}
        <2>1. 0 \in S /\ \A n \in Nat : n \in S => n + 1 \in S
            <3> HIDE DEF g0, start
            <3> QED
                BY <1>4, <1>5, <1>9
        <2>2. Nat \subseteq S
            <3> HIDE DEF S
            <3> QED
                BY <2>1, SetInduction
        <2> QED
            BY <2>2
    <1> HIDE DEF g0, F
    <1> QED
        BY <1>4, <1>5, <1>8, <1>10

LEMMA FollowingFacts ==
    ASSUME TypesInv
    PROVE  \A n \in Nat :
              /\ Following[n][NULL] = NULL
              /\ \A t \in Plain(types) : Following[n][t] = t
              /\ \A t \in Objects : IsReference(t) =>
                    /\ Following[0][t] = NULL
                    /\ Following[n + 1][t] = Following[n][types[t].meaning]
    <1>1. PICK f \in [Nat -> [Objects \cup {NULL} -> Objects \cup {NULL}]] :
              /\ \A n \in Nat : Following[n] = f[n]
              /\ f[0] = FollowedFrom([t \in Objects \cup {NULL} |-> NULL])
              /\ \A n \in Nat : f[n + 1] = FollowedFrom(f[n])
        BY FollowingSteps
    <1>2. \A t \in Objects : types[t].meaning \in Objects \cup {NULL}
        BY ObjectsAre
    <1>3. \A g : /\ FollowedFrom(g)[NULL] = NULL
                 /\ \A t \in Plain(types) : FollowedFrom(g)[t] = t
                 /\ \A t \in Objects : IsReference(t) => FollowedFrom(g)[t] = g[types[t].meaning]
        BY ObjectsAre DEF FollowedFrom
    <1>4. \A n \in Nat : n = 0 \/ \E k \in Nat : n = k + 1
        <2>1. \A n \in Nat : n = 0 \/ (n - 1 \in Nat /\ n = (n - 1) + 1)
            OBVIOUS
        <2> QED
            BY <2>1
    <1>5. \A n \in Nat : \E g : f[n] = FollowedFrom(g)
        <2> SUFFICES ASSUME NEW n \in Nat PROVE \E g : f[n] = FollowedFrom(g)
            OBVIOUS
        <2>1. CASE n = 0
            BY <1>1, <2>1, Zenon
        <2>2. ASSUME NEW k \in Nat, n = k + 1 PROVE \E g : f[n] = FollowedFrom(g)
            BY <1>1, <2>2, Zenon
        <2> QED
            BY <1>4, <2>1, <2>2
    <1>6. \A t \in Objects : IsReference(t) => Following[0][t] = NULL
        <2> DEFINE none == [u \in Objects \cup {NULL} |-> NULL]
        <2>1. \A t \in Objects : none[types[t].meaning] = NULL
            BY <1>2
        <2>2. Following[0] = FollowedFrom(none)
            BY <1>1
        <2> HIDE DEF none
        <2> QED
            BY <1>3, <2>1, <2>2
    <1>7. \A n \in Nat : Following[n + 1] = FollowedFrom(Following[n])
        BY <1>1
    <1> SUFFICES ASSUME NEW n \in Nat
                 PROVE  /\ Following[n][NULL] = NULL
                        /\ \A t \in Plain(types) : Following[n][t] = t
                        /\ \A t \in Objects : IsReference(t) =>
                              Following[n + 1][t] = Following[n][types[t].meaning]
        BY <1>6
    <1>8. PICK g : Following[n] = FollowedFrom(g)
        BY <1>1, <1>5
    <1> QED
        BY <1>3, <1>7, <1>8

\* Going on after a type has been reached does not lead elsewhere.
LEMMA FollowingStays ==
    ASSUME TypesInv
    PROVE  \A n \in Nat : \A t \in Objects \cup {NULL} :
              Following[n][t] # NULL => Following[n + 1][t] = Following[n][t]
    <1> DEFINE S == {n \in Nat : \A t \in Objects \cup {NULL} :
                        Following[n][t] # NULL => Following[n + 1][t] = Following[n][t]}
    <1>1. \A t \in Objects : t \in Plain(types) \/ IsReference(t)
        BY ObjectsAre
    <1>2. 0 \in S
        BY <1>1, FollowingFacts
    <1>3. ASSUME NEW n \in Nat, n \in S
          PROVE  n + 1 \in S
        <2> SUFFICES ASSUME NEW t \in Objects \cup {NULL}, Following[n + 1][t] # NULL
                     PROVE  Following[(n + 1) + 1][t] = Following[n + 1][t]
            OBVIOUS
        <2>1. CASE t \in Objects /\ IsReference(t)
            <3>1. /\ Following[n + 1][t] = Following[n][types[t].meaning]
                  /\ Following[(n + 1) + 1][t] = Following[n + 1][types[t].meaning]
                BY <2>1, FollowingFacts
            <3>2. types[t].meaning \in Objects \cup {NULL}
                BY <2>1, ObjectsAre
            <3> QED
                BY <1>3, <3>1, <3>2
        <2>2. CASE t \in Plain(types) \/ t = NULL
            BY <2>2, FollowingFacts
        <2> QED
            BY <1>1, <2>1, <2>2
    <1>4. Nat \subseteq S
        <2> HIDE DEF S
        <2> QED
            BY <1>2, <1>3, SetInduction
    <1> QED
        BY <1>4

\* As many steps as there are objects lead to every type that can be reached.
LEMMA ResolvedClosed ==
    ASSUME TypesInv
    PROVE  \A t \in Objects : IsReference(t) /\ Resolved(types[t].meaning) # NULL =>
              Resolved(t) = Resolved(types[t].meaning)
    <1> PICK n \in Nat : n = Len(types)
        BY ObjectsAre
    <1> DEFINE found(k) == {t \in Objects : Following[k][t] # NULL}
               f == [k \in Nat |-> found(k)]
               G == [A \in SUBSET Objects |->
                        A \cup {t \in Objects : ~ IsReference(t) \/ types[t].meaning \in A}]
    <1>1. Grows(G, Objects)
        BY DEF Grows
    <1>2. ASSUME NEW k \in Nat
          PROVE  found(k + 1) = G[found(k)]
        <2>1. \A t \in Objects : t \in found(k) => t \in found(k + 1)
            BY FollowingStays
        <2>2. \A t \in Objects : ~ IsReference(t) => t \in found(k + 1)
            <3>1. \A t \in Objects : ~ IsReference(t) => t \in Plain(types) /\ t # NULL
                BY ObjectsAre
            <3> QED
                BY <3>1, FollowingFacts
        <2>3. \A t \in Objects : IsReference(t) =>
                 (t \in found(k + 1) <=> types[t].meaning \in found(k))
            <3> SUFFICES ASSUME NEW t \in Objects, IsReference(t)
                         PROVE  t \in found(k + 1) <=> types[t].meaning \in found(k)
                OBVIOUS
            <3>1. Following[k + 1][t] = Following[k][types[t].meaning]
                BY FollowingFacts
            <3>2. types[t].meaning \in Objects \/ types[t].meaning = NULL
                BY ObjectsAre
            <3>3. Following[k][NULL] = NULL /\ NULL \notin Objects
                BY FollowingFacts, ObjectsAre
            <3> QED
                BY <3>1, <3>2, <3>3
        <2>4. found(k) \in SUBSET Objects
            OBVIOUS
        <2> HIDE DEF found
        <2>5. G[found(k)] = found(k) \cup {t \in Objects : ~ IsReference(t) \/ types[t].meaning \in found(k)}
            BY <2>4
        <2>6. found(k + 1) \subseteq Objects
            BY DEF found
        <2> QED
            BY <2>1, <2>2, <2>3, <2>4, <2>5, <2>6
    <1>3. Orbit(f, G, SUBSET Objects)
        <2>1. f \in [Nat -> SUBSET Objects]
            OBVIOUS
        <2>2. \A k \in Nat : f[k + 1] = G[f[k]]
            <3> HIDE DEF G, found
            <3> QED
                BY <1>2
        <2> QED
            BY <2>1, <2>2 DEF Orbit
    <1>4. G[found(n)] = found(n)
        <2>1. IsFiniteSet(Objects) /\ Cardinality(Objects) = n
            <3>1. Objects = 1 .. n /\ 1 \in Int /\ n \in Int
                BY ObjectsAre
            <3>2. IsFiniteSet(1 .. n) /\ Cardinality(1 .. n) = IF 1 > n THEN 0 ELSE n - 1 + 1
                BY <3>1, FS_Interval, Zenon
            <3>3. Cardinality(1 .. n) = n
                BY <3>2
            <3> QED
                BY <3>1, <3>2, <3>3
        <2>2. G[f[n]] = f[n]
            <3> HIDE DEF G, f
            <3> QED
                BY <1>1, <1>3, <2>1, GrowthStops
        <2> QED
            BY <2>2
    <1> SUFFICES ASSUME NEW t \in Objects, IsReference(t), Following[n][types[t].meaning] # NULL
                 PROVE  Following[n][t] = Following[n][types[t].meaning]
        BY DEF Resolved
    <1>5. types[t].meaning \in found(n)
        <2>1. Following[n][NULL] = NULL
            BY FollowingFacts
        <2> QED
            BY <2>1, ObjectsAre
    <1>6. t \in found(n)
        BY <1>4, <1>5
    <1>7. Following[n + 1][t] = Following[n][t]
        BY <1>6, FollowingStays
    <1> QED
        BY <1>7, FollowingFacts

LEMMA ResolvedBack ==
    ASSUME TypesInv, NEW v \in Plain(types)
    PROVE  \A t \in Back(types, {v}) : Resolved(t) = v
    <1> DEFINE S == {t \in Objects : Resolved(t) = v}
    <1>1. v \in S
        BY ObjectsAre, FollowingFacts DEF Resolved
    <1>2. v # NULL
        BY ObjectsAre
    <1>3. Closed(types, S)
        BY <1>2, ResolvedClosed, ObjectsAre DEF Closed, IsReference
    <1>4. S \in SUBSET DOMAIN types /\ {v} \in SUBSET DOMAIN types
        BY <1>1, ObjectsAre
    <1> HIDE DEF S
    <1>5. Back(types, {v}) \subseteq S
        BY <1>1, <1>3, <1>4, BackClosed
    <1> QED
        BY <1>5 DEF S

LEMMA ResolvedPlain ==
    ASSUME TypesInv
    PROVE  \A t \in Back(types, Plain(types)) : Resolved(t) # NULL
    <1> DEFINE S == {t \in Objects : Resolved(t) # NULL}
    <1>1. Plain(types) \subseteq S
        BY ObjectsAre, FollowingFacts DEF Resolved
    <1>2. Closed(types, S)
        BY ResolvedClosed, ObjectsAre DEF Closed, IsReference
    <1>3. S \in SUBSET DOMAIN types /\ Plain(types) \in SUBSET DOMAIN types
        BY ObjectsAre
    <1> HIDE DEF S
    <1>4. Back(types, Plain(types)) \subseteq S
        BY <1>1, <1>2, <1>3, BackClosed
    <1> QED
        BY <1>4 DEF S
-----------------------------------------------------------------------------
(* What a declaration does. *)

\* The name of the part is not known yet: it becomes a reference.
Fresh(part) == lookup(typenames, part, NULL) = NULL

NewReference == Len(types) + 1

PartType(part) == IF Fresh(part) THEN NewReference ELSE lookup(typenames, part, NULL)

Added_Objects(kind, part) == (IF Fresh(part) THEN 1 ELSE 0) + (IF kind = "name" THEN 0 ELSE 1)

NewType(kind, part) ==
    IF kind = "name" THEN PartType(part) ELSE Len(types) + Added_Objects(kind, part)

LEMMA LookupType ==
    ASSUME NamesInv, TypesInv, NEW x
    PROVE  /\ lookup(typenames, x, NULL) \in Objects \cup {NULL}
           /\ x \in DOMAIN typenames[Here] => lookup(typenames, x, NULL) = typenames[Here][x]
           /\ Fresh(x) => x \notin DOMAIN typenames[Here]
    <1>1. Here \in 1 .. Len(typenames)
        BY MapType DEF NamesInv, Here
    <1>2. x \in DOMAIN typenames[Here] => Innermost(typenames, x, Here)
        BY <1>1, MapType DEF Innermost, Here, NamesInv
    <1>3. lookup(typenames, x, NULL) \in Objects \cup {NULL}
        <2>1. \A k : Innermost(typenames, x, k) => typenames[k][x] \in Objects
            BY DEF NamesInv, Innermost
        <2> QED
            BY <2>1, LookupCases DEF NamesInv
    <1>4. x \in DOMAIN typenames[Here] => lookup(typenames, x, NULL) = typenames[Here][x]
        BY <1>2, LookupFinds DEF NamesInv
    <1>5. Fresh(x) => x \notin DOMAIN typenames[Here]
        BY <1>1, LookupCases DEF NamesInv, Fresh, Innermost
    <1> QED
        BY <1>3, <1>4, <1>5

LEMMA NamedIs ==
    ASSUME TypeInv, NEW part \in AllNames
    PROVE  /\ Named(part).types =
                IF Fresh(part) THEN Append(types, Object("reference", <<>>, <<>>)) ELSE types
           /\ Named(part).names =
                IF Fresh(part) THEN add(typenames, part, NewReference) ELSE typenames
           /\ Named(part).unknown =
                IF Fresh(part) THEN Append(unknown_types, NewReference) ELSE unknown_types
           /\ Named(part).type = PartType(part)
    BY DEF Named, Fresh, PartType, NewReference

LEMMA ObjectType ==
    /\ Object("reference", <<>>, <<>>) \in TypeObjects
    /\ \A part \in AllNames, p \in Nat : Object("complex", <<part>>, <<p>>) \in TypeObjects
    BY DEF Object, TypeObjects, Kinds, NULL

LEMMA DefinedIs ==
    ASSUME TypeInv, NEW kind \in {"name", "complex"}, NEW part \in AllNames
    PROVE  /\ Defined(kind, part).types \in Seq(TypeObjects)
           /\ Len(Defined(kind, part).types) = Len(types) + Added_Objects(kind, part)
           /\ \A t \in Objects : Defined(kind, part).types[t] = types[t]
           /\ Fresh(part) => Defined(kind, part).types[NewReference] = Object("reference", <<>>, <<>>)
           /\ kind = "complex" =>
                Defined(kind, part).types[NewType(kind, part)] = Object("complex", <<part>>, <<PartType(part)>>)
           /\ Defined(kind, part).names = Named(part).names
           /\ Defined(kind, part).unknown = Named(part).unknown
           /\ Defined(kind, part).type = NewType(kind, part)
    <1> PICK n \in Nat : n = Len(types)
        BY ObjectsAre DEF TypeInv
    <1> DEFINE named == Named(part)
    <1>1. types \in Seq(TypeObjects) /\ Objects = 1 .. n
        BY DEF TypeInv, TypesInv, Objects
    <1>2. PartType(part) \in Nat
        BY LookupType, ObjectsAre DEF PartType, TypeInv, Fresh, NewReference
    <1>3. /\ named.types \in Seq(TypeObjects)
          /\ Len(named.types) = n + (IF Fresh(part) THEN 1 ELSE 0)
          /\ \A t \in 1 .. n : named.types[t] = types[t]
          /\ Fresh(part) => named.types[n + 1] = Object("reference", <<>>, <<>>)
        <2>1. CASE Fresh(part)
            <3> DEFINE ref == Object("reference", <<>>, <<>>)
            <3>1. named.types = Append(types, ref)
                BY <2>1, NamedIs
            <3>2. ref \in TypeObjects
                BY ObjectType
            <3> HIDE DEF ref, named
            <3>3. Append(types, ref) \in Seq(TypeObjects) /\ Len(Append(types, ref)) = n + 1
                BY <1>1, <3>2
            <3>4. (\A t \in 1 .. n : Append(types, ref)[t] = types[t]) /\ Append(types, ref)[n + 1] = ref
                BY <1>1, <3>2
            <3> QED
                BY <2>1, <3>1, <3>3, <3>4 DEF ref
        <2>2. CASE ~ Fresh(part)
            BY <1>1, <2>2, NamedIs
        <2> QED
            BY <2>1, <2>2
    <1>4. named.type = PartType(part)
        BY NamedIs
    <1>5. CASE kind = "name"
        <2>1. Defined(kind, part) = named
            BY <1>5 DEF Defined
        <2> HIDE DEF named
        <2> QED
            BY <1>1, <1>3, <1>4, <1>5, <2>1 DEF NewType, Added_Objects, NewReference, named
    <1>6. CASE kind = "complex"
        <2> DEFINE new == Object("complex", <<part>>, <<PartType(part)>>)
                   D == Defined(kind, part)
        <2>1. /\ D.types = Append(named.types, new) /\ D.type = Len(named.types) + 1
              /\ D.names = named.names /\ D.unknown = named.unknown
            BY <1>4, <1>6 DEF Defined, Named
        <2>2. new \in TypeObjects
            BY <1>2, ObjectType
        <2> HIDE DEF named, new, D
        <2>3. PICK m \in Nat : m = Len(named.types) /\ m = n + (IF Fresh(part) THEN 1 ELSE 0)
            BY <1>3
        <2>4. /\ D.types \in Seq(TypeObjects) /\ Len(D.types) = m + 1 /\ D.types[m + 1] = new
              /\ \A t \in 1 .. m : D.types[t] = named.types[t]
            BY <1>3, <2>1, <2>2, <2>3
        <2>5. NewType(kind, part) = m + 1 /\ Added_Objects(kind, part) = (m + 1) - n
            BY <1>6, <2>3 DEF NewType, Added_Objects
        <2>6. Fresh(part) => n + 1 = m
            BY <2>3
        <2>7. Len(D.types) = n + Added_Objects(kind, part) /\ D.type = NewType(kind, part)
            BY <2>1, <2>3, <2>4, <2>5
        <2>8. \A t \in Objects : D.types[t] = types[t]
            <3>1. \A t \in 1 .. n : t \in 1 .. m
                BY <2>3
            <3> QED
                BY <1>1, <1>3, <2>4, <3>1
        <2>9. Fresh(part) => D.types[NewReference] = Object("reference", <<>>, <<>>)
            <3>1. NewReference = n + 1 /\ (Fresh(part) => n + 1 \in 1 .. m)
                BY <2>3 DEF NewReference
            <3> QED
                BY <1>3, <2>4, <3>1
        <2>10. D.types[NewType(kind, part)] = new
            BY <2>4, <2>5
        <2> QED
            BY <2>1, <2>4, <2>7, <2>8, <2>9, <2>10 DEF named, D, new
    <1> QED
        BY <1>5, <1>6

\* The declared name has been waiting.
Awaited(name, part) == name \in DOMAIN typenames[Here] \/ (Fresh(part) /\ name = part)

LEMMA KnownNames ==
    ASSUME TypeInv, NEW part \in AllNames
    PROVE  /\ Named(part).names \in Maps /\ Len(Named(part).names) = Here
           /\ \A k \in 1 .. Here - 1 : Named(part).names[k] = typenames[k]
           /\ DOMAIN Named(part).names[Here] =
                DOMAIN typenames[Here] \cup (IF Fresh(part) THEN {part} ELSE {})
           /\ \A x \in DOMAIN typenames[Here] : Named(part).names[Here][x] = typenames[Here][x]
           /\ Fresh(part) => Named(part).names[Here][part] = NewReference
    <1>1. typenames \in Maps /\ Here = Len(typenames)
        BY DEF TypeInv, NamesInv, Here
    <1>2. NewReference \in Nat \ {0}
        BY ObjectsAre DEF TypeInv, NewReference
    <1>3. CASE Fresh(part)
        <2>1. Named(part).names = add(typenames, part, NewReference) /\ part \notin DOMAIN typenames[Here]
            BY <1>3, NamedIs, LookupType DEF TypeInv
        <2> QED
            BY <1>1, <1>2, <1>3, <2>1, Added
    <1>4. CASE ~ Fresh(part)
        BY <1>1, <1>4, NamedIs
    <1> QED
        BY <1>3, <1>4

LEMMA DeclaredNames ==
    ASSUME TypeInv, NEW name \in TypeIds, NEW kind \in {"name", "complex"}, NEW part \in AllNames,
           Declare(name, kind, part)
    PROVE  /\ HasBinding(Defined(kind, part).names, name) <=> Awaited(name, part)
           /\ Awaited(name, part) =>
                lookup(Defined(kind, part).names, name, NULL) =
                    IF name \in DOMAIN typenames[Here] THEN typenames[Here][name] ELSE NewReference
           /\ typenames' \in Maps /\ Here' = Here
           /\ \A k \in 1 .. Here - 1 : typenames'[k] = typenames[k]
           /\ DOMAIN typenames'[Here] =
                DOMAIN typenames[Here] \cup {name} \cup (IF Fresh(part) THEN {part} ELSE {})
           /\ \A x \in DOMAIN typenames[Here] : typenames'[Here][x] = typenames[Here][x]
           /\ Fresh(part) => typenames'[Here][part] = NewReference
           /\ ~ Awaited(name, part) => typenames'[Here][name] = NewType(kind, part)
    <1> DEFINE names == Defined(kind, part).names
               o == NewType(kind, part)
    <1>1. /\ names = Named(part).names /\ Defined(kind, part).type = o
        BY DefinedIs
    <1>2. Here \in Nat \ {0} /\ Here = Len(typenames)
        BY MapType DEF TypeInv, NamesInv, Here
    <1>3. /\ names \in Maps /\ Len(names) = Here
          /\ \A k \in 1 .. Here - 1 : names[k] = typenames[k]
          /\ DOMAIN names[Here] = DOMAIN typenames[Here] \cup (IF Fresh(part) THEN {part} ELSE {})
          /\ \A x \in DOMAIN typenames[Here] : names[Here][x] = typenames[Here][x]
          /\ Fresh(part) => names[Here][part] = NewReference /\ part \notin DOMAIN typenames[Here]
        BY <1>1, KnownNames, LookupType DEF TypeInv
    <1>4. name \in AllNames
        BY DEF AllNames
    <1>5. o \in Nat \ {0}
        <2>1. PartType(part) \in Nat \ {0} /\ Len(types) \in Nat
            BY LookupType, ObjectsAre DEF TypeInv, PartType, Fresh, NewReference, NULL
        <2> QED
            BY <2>1 DEF NewType, Added_Objects
    <1>6. typenames' = IF HasBinding(names, name) THEN names ELSE add(names, name, o)
        BY <1>1 DEF Declare
    <1> HIDE DEF names, o
    <1>7. HasBinding(names, name) <=> Awaited(name, part)
        BY <1>3 DEF HasBinding, BoundInLastLayer, LastLayer, Awaited
    <1>8. ASSUME Awaited(name, part)
          PROVE  lookup(names, name, NULL) =
                    IF name \in DOMAIN typenames[Here] THEN typenames[Here][name] ELSE NewReference
        <2>1. Innermost(names, name, Here)
            BY <1>2, <1>3, <1>8 DEF Innermost, Awaited
        <2>2. lookup(names, name, NULL) = names[Here][name]
            BY <1>3, <2>1, LookupFinds
        <2> QED
            BY <1>3, <1>8, <2>2 DEF Awaited
    <1>9. CASE Awaited(name, part)
        <2>1. typenames' = names
            BY <1>6, <1>7, <1>9
        <2>2. name \in DOMAIN names[Here]
            BY <1>3, <1>9 DEF Awaited
        <2>3. Here' = Here
            BY <1>3, <2>1 DEF Here
        <2> QED
            BY <1>3, <1>7, <1>8, <1>9, <2>1, <2>2, <2>3 DEF names
    <1>10. CASE ~ Awaited(name, part)
        <2>1. typenames' = add(names, name, o)
            BY <1>6, <1>7, <1>10
        <2>2. name \notin DOMAIN names[Here]
            BY <1>3, <1>10 DEF Awaited
        <2>3. /\ typenames' \in Maps /\ Len(typenames') = Here
              /\ \A k \in 1 .. Here - 1 : typenames'[k] = names[k]
              /\ DOMAIN typenames'[Here] = DOMAIN names[Here] \cup {name}
              /\ typenames'[Here][name] = o
              /\ \A x \in DOMAIN names[Here] : typenames'[Here][x] = names[Here][x]
            BY <1>3, <1>4, <1>5, <2>1, <2>2, Added
        <2>4. Here' = Here
            BY <2>3 DEF Here
        <2> QED
            BY <1>3, <1>7, <1>10, <2>3, <2>4 DEF names, o
    <1> QED
        BY <1>9, <1>10

WithMeaning(object, type) == [object EXCEPT !.meaning = type]

LEMMA DeclaredTypes ==
    ASSUME TypeInv, NEW name \in TypeIds, NEW kind \in {"name", "complex"}, NEW part \in AllNames,
           Declare(name, kind, part)
    PROVE  /\ types' \in Seq(TypeObjects)
           /\ Len(types') = Len(types) + Added_Objects(kind, part)
           /\ \A t \in Objects : types'[t] =
                IF name \in DOMAIN typenames[Here] /\ typenames[Here][name] = t /\ Undefined(t)
                THEN WithMeaning(types[t], NewType(kind, part))
                ELSE types[t]
           /\ Fresh(part) => types'[NewReference] =
                WithMeaning(Object("reference", <<>>, <<>>), IF name = part THEN NewType(kind, part) ELSE NULL)
           /\ kind = "complex" =>
                types'[NewType(kind, part)] = Object("complex", <<part>>, <<PartType(part)>>)
    <1> PICK n \in Nat : n = Len(types)
        BY ObjectsAre DEF TypeInv
    <1> DEFINE D == Defined(kind, part)
               o == NewType(kind, part)
               e == lookup(D.names, name, NULL)
               more == Added_Objects(kind, part)
               meant == Meant(e, o, D.types)
    <1>1. /\ D.types \in Seq(TypeObjects) /\ Len(D.types) = n + more
          /\ \A t \in Objects : D.types[t] = types[t]
          /\ Fresh(part) => D.types[NewReference] = Object("reference", <<>>, <<>>)
          /\ kind = "complex" => D.types[o] = Object("complex", <<part>>, <<PartType(part)>>)
          /\ D.type = o
        BY DefinedIs
    <1>2. types' = IF Awaited(name, part) THEN meant ELSE D.types
        <2>1. types' = IF HasBinding(D.names, name) THEN Meant(e, D.type, D.types) ELSE D.types
            BY DEF Declare
        <2> QED
            BY <1>1, <2>1, DeclaredNames
    <1>3. Awaited(name, part) =>
             e = IF name \in DOMAIN typenames[Here] THEN typenames[Here][name] ELSE NewReference
        BY DeclaredNames
    <1>4. /\ more \in Nat /\ Objects = 1 .. n /\ NewReference = n + 1
          /\ Fresh(part) => more >= 1
          /\ kind = "complex" => o = n + more /\ more >= 1 /\ (Fresh(part) => more = 2)
          /\ o \in Nat
        <2>1. PartType(part) \in Nat
            BY LookupType, ObjectsAre DEF TypeInv, PartType, Fresh, NewReference
        <2> QED
            BY <2>1 DEF Added_Objects, NewType, Objects, NewReference
    <1>5. name \in DOMAIN typenames[Here] => typenames[Here][name] \in Objects
        BY MapType DEF TypeInv, NamesInv, Here
    <1>6. Fresh(part) => part \notin DOMAIN typenames[Here]
        BY LookupType DEF TypeInv
    <1> HIDE DEF D, o, e, more
    <1>7. CASE Awaited(name, part)
        <2>1. e \in 1 .. n + more
            BY <1>3, <1>4, <1>5, <1>7 DEF Awaited
        <2>2. DOMAIN D.types = 1 .. n + more /\ \A t \in 1 .. n + more : D.types[t] \in TypeObjects
            BY <1>1, <1>4
        <2>3. WithMeaning(D.types[e], o) \in TypeObjects
            BY <1>4, <2>1, <2>2 DEF TypeObjects, WithMeaning
        <2>4. /\ meant \in Seq(TypeObjects) /\ Len(meant) = n + more
              /\ \A t \in 1 .. n + more : meant[t] =
                    IF t = e /\ D.types[e].kind = "reference" /\ D.types[e].meaning = NULL
                    THEN WithMeaning(D.types[e], o) ELSE D.types[t]
            BY <1>1, <1>4, <2>1, <2>2, <2>3 DEF Meant, WithMeaning
        <2> HIDE DEF meant
        <2>5. types' = meant
            BY <1>2, <1>7
        <2>6. \A t \in Objects : t \in 1 .. n + more /\ t # NewReference
            BY <1>4
        <2>7. Fresh(part) => NewReference \in 1 .. n + more
            BY <1>4
        <2>8. \A t \in Objects : types'[t] =
                IF name \in DOMAIN typenames[Here] /\ typenames[Here][name] = t /\ Undefined(t)
                THEN WithMeaning(types[t], o)
                ELSE types[t]
            BY <1>1, <1>3, <1>5, <1>7, <2>4, <2>5, <2>6 DEF Undefined, IsReference, Awaited
        <2>9. Fresh(part) => types'[NewReference] =
                WithMeaning(Object("reference", <<>>, <<>>), IF name = part THEN o ELSE NULL)
            <3> SUFFICES ASSUME Fresh(part) PROVE types'[NewReference] =
                WithMeaning(Object("reference", <<>>, <<>>), IF name = part THEN o ELSE NULL)
                OBVIOUS
            <3>1. CASE name = part
                <4>1. e = NewReference
                    BY <1>3, <1>6, <1>7, <3>1
                <4>2. /\ D.types[NewReference] = Object("reference", <<>>, <<>>)
                      /\ D.types[NewReference].kind = "reference"
                      /\ D.types[NewReference].meaning = NULL
                    BY <1>1 DEF Object
                <4>3. meant[NewReference] = WithMeaning(D.types[NewReference], o)
                    BY <2>4, <2>7, <4>1, <4>2
                <4> QED
                    BY <2>5, <3>1, <4>2, <4>3
            <3>2. CASE name # part
                <4>1. e # NewReference
                    BY <1>3, <1>5, <1>7, <2>6, <3>2 DEF Awaited
                <4>2. types'[NewReference] = Object("reference", <<>>, <<>>)
                    BY <1>1, <2>4, <2>5, <2>7, <4>1
                <4>3. WithMeaning(Object("reference", <<>>, <<>>), NULL) = Object("reference", <<>>, <<>>)
                    BY DEF Object, WithMeaning
                <4> QED
                    BY <3>2, <4>2, <4>3
            <3> QED
                BY <3>1, <3>2
        <2>10. kind = "complex" => types'[o] = Object("complex", <<part>>, <<PartType(part)>>)
            <3> SUFFICES ASSUME kind = "complex"
                         PROVE  types'[o] = Object("complex", <<part>>, <<PartType(part)>>)
                OBVIOUS
            <3>1. o \in 1 .. n + more /\ D.types[o].kind = "complex"
                BY <1>1, <1>4 DEF Object
            <3> QED
                BY <1>1, <2>4, <2>5, <3>1
        <2> QED
            BY <1>1, <2>4, <2>5, <2>8, <2>9, <2>10 DEF o, more
    <1>8. CASE ~ Awaited(name, part)
        <2>1. types' = D.types
            BY <1>2, <1>8
        <2>2. name \notin DOMAIN typenames[Here] /\ (Fresh(part) => name # part)
            BY <1>8 DEF Awaited
        <2>3. WithMeaning(Object("reference", <<>>, <<>>), NULL) = Object("reference", <<>>, <<>>)
            BY DEF Object, WithMeaning
        <2> QED
            BY <1>1, <2>1, <2>2, <2>3 DEF o, more
    <1> QED
        BY <1>7, <1>8

LEMMA DeclareExtends ==
    ASSUME TypeInv, NEW name \in TypeIds, NEW kind \in {"name", "complex"}, NEW part \in AllNames,
           Declare(name, kind, part)
    PROVE  /\ TypesInv' /\ Extends(types, types') /\ Objects \subseteq Objects'
           /\ PartType(part) \in Objects' /\ NewType(kind, part) \in Objects'
           /\ Fresh(part) => NewReference \in Objects' \ Objects
           /\ kind = "complex" =>
                /\ NewType(kind, part) \in Objects' \ Objects
                /\ NewType(kind, part) # NewReference \/ ~ Fresh(part)
           /\ \A t \in Objects' \ Objects :
                \/ Fresh(part) /\ t = NewReference
                \/ kind = "complex" /\ t = NewType(kind, part)
    <1> PICK n \in Nat : n = Len(types)
        BY ObjectsAre DEF TypeInv
    <1> DEFINE o == NewType(kind, part)
               p == PartType(part)
               more == Added_Objects(kind, part)
    <1>1. /\ types' \in Seq(TypeObjects)
          /\ Len(types') = Len(types) + more
          /\ \A t \in Objects : types'[t] =
                IF name \in DOMAIN typenames[Here] /\ typenames[Here][name] = t /\ Undefined(t)
                THEN WithMeaning(types[t], o)
                ELSE types[t]
          /\ Fresh(part) => types'[NewReference] =
                WithMeaning(Object("reference", <<>>, <<>>), IF name = part THEN o ELSE NULL)
          /\ kind = "complex" => types'[o] = Object("complex", <<part>>, <<p>>)
        BY DeclaredTypes, Zenon
    <1>2. /\ Objects = 1 .. n /\ NewReference = n + 1 /\ n >= 2
          /\ p \in Objects \/ (p = NewReference /\ Fresh(part))
          /\ more = (IF Fresh(part) THEN 1 ELSE 0) + (IF kind = "name" THEN 0 ELSE 1)
          /\ o = IF kind = "name" THEN p ELSE n + more
        BY LookupType DEF TypeInv, TypesInv, Objects, NewReference, PartType, Fresh, NewType, Added_Objects
    <1>3. Objects' = 1 .. n + more /\ DOMAIN types' = Objects'
        BY <1>1, <1>2 DEF Objects
    <1> HIDE DEF o, p, more
    <1>4. /\ Objects \subseteq Objects' /\ p \in Objects' /\ o \in Objects'
          /\ Fresh(part) => NewReference \in Objects' \ Objects
          /\ kind = "complex" => o \in Objects' \ Objects /\ (o # NewReference \/ ~ Fresh(part))
          /\ \A t \in Objects' \ Objects :
                (Fresh(part) /\ t = NewReference) \/ (kind = "complex" /\ t = o)
        BY <1>2, <1>3
    <1>5. DOMAIN types = Objects /\ \A t \in Objects : types[t] \in TypeObjects
        BY ObjectsAre DEF TypeInv
    <1>6. Extends(types, types')
        <2>1. \A t \in Objects :
                /\ types'[t].kind = types[t].kind /\ types'[t].part_types = types[t].part_types
                /\ types'[t].meaning = types[t].meaning \/ (types[t].kind = "reference" /\ types[t].meaning = NULL)
            BY <1>1, <1>5 DEF Undefined, IsReference, TypeObjects, WithMeaning
        <2> QED
            BY <1>3, <1>4, <1>5, <2>1 DEF Extends
    <1>7. \A t \in Objects' :
            /\ types'[t].meaning \in Objects' \cup {NULL}
            /\ \A k \in DOMAIN types'[t].part_types : types'[t].part_types[k] \in Objects'
        <2> SUFFICES ASSUME NEW t \in Objects'
                     PROVE  /\ types'[t].meaning \in Objects' \cup {NULL}
                            /\ \A k \in DOMAIN types'[t].part_types : types'[t].part_types[k] \in Objects'
            OBVIOUS
        <2>1. CASE t \in Objects
            <3>1. /\ types[t].meaning \in Objects \cup {NULL}
                  /\ \A k \in DOMAIN types[t].part_types : types[t].part_types[k] \in Objects
                BY <2>1 DEF TypeInv, TypesInv
            <3>2. types'[t].meaning = types[t].meaning \/ types'[t].meaning = o
                BY <1>1, <1>5, <2>1 DEF TypeObjects, WithMeaning
            <3>3. types'[t].part_types = types[t].part_types
                BY <1>5, <1>6, <2>1 DEF Extends
            <3> QED
                BY <1>4, <3>1, <3>2, <3>3
        <2>2. CASE Fresh(part) /\ t = NewReference
            <3>1. types'[t].meaning \in {o, NULL} /\ types'[t].part_types = <<>>
                BY <1>1, <2>2 DEF Object, WithMeaning
            <3> QED
                BY <1>4, <3>1
        <2>3. CASE kind = "complex" /\ t = o
            <3>1. types'[t].meaning = NULL /\ types'[t].part_types = <<p>>
                BY <1>1, <2>3 DEF Object
            <3> QED
                BY <1>4, <3>1
        <2> QED
            BY <1>4, <2>1, <2>2, <2>3
    <1>8. TypesInv'
        <2>1. types[int_type].kind = "int" /\ types[error_type].kind = "error"
            BY DEF TypeInv, TypesInv
        <2>2. int_type \in Objects /\ error_type \in Objects
            BY ObjectsAre DEF TypeInv
        <2>3. types'[int_type].kind = "int" /\ types'[error_type].kind = "error"
            BY <1>5, <1>6, <2>1, <2>2 DEF Extends
        <2>4. Len(types') >= 2
            BY <1>1, <1>2
        <2> QED
            BY <1>1, <1>7, <2>3, <2>4 DEF TypesInv
    <1> QED
        BY <1>4, <1>6, <1>8 DEF o, p

LEMMA TypeInit == Init => TypeInv
    <1> SUFFICES ASSUME Init PROVE TypeInv
        OBVIOUS
    <1>1. TypesInv
        <2>1. Object("int", <<>>, <<>>) \in TypeObjects /\ Object("error", <<>>, <<>>) \in TypeObjects
            BY DEF Object, TypeObjects, Kinds, NULL
        <2>2. /\ types = <<Object("int", <<>>, <<>>), Object("error", <<>>, <<>>)>>
              /\ Len(types) = 2 /\ Objects = 1 .. 2
            BY DEF Init, Objects
        <2>3. \A t \in Objects : types[t].meaning = NULL /\ types[t].part_types = <<>>
            BY <2>2 DEF Object
        <2>4. types \in Seq(TypeObjects)
            BY <2>1, <2>2
        <2>5. types[int_type].kind = "int" /\ types[error_type].kind = "error"
            BY <2>2 DEF Object, int_type, error_type
        <2> QED
            BY <2>2, <2>3, <2>4, <2>5 DEF TypesInv
    <1>2. NamesInv
        <2>1. EmptyMap \in Maps /\ Len(EmptyMap) = 1 /\ EmptyMap[1] = <<>>
            BY EmptyLayer DEF EmptyMap, Maps
        <2>2. IntName \in AllNames /\ int_type \in Nat \ {0}
            BY DEF AllNames, int_type
        <2> DEFINE m == add(EmptyMap, IntName, int_type)
        <2>3. /\ m \in Maps /\ Len(m) = 1 /\ DOMAIN m[1] = {IntName} /\ m[1][IntName] = int_type
            BY <2>1, <2>2, EmptyLayer, Added
        <2>4. typenames = m /\ env = m
            BY DEF Init
        <2> HIDE DEF m
        <2>5. int_type \in Objects
            BY <1>1, ObjectsAre
        <2>6. \A k \in 1 .. Len(m) : \A x \in DOMAIN m[k] : m[k][x] \in Objects
            BY <2>3, <2>5
        <2> QED
            BY <2>3, <2>4, <2>6 DEF NamesInv
    <1>3. BatchInv
        BY DEF Init, BatchInv
    <1>4. LoopInv
        <2>1. unknown_types \in Seq(Objects) /\ DOMAIN unknown_types = {} /\ unknown_types = <<>>
            BY DEF Init
        <2>2. pc = "declare" /\ errors = FALSE /\ rejected = FALSE
            BY DEF Init
        <2> QED
            BY <2>1, <2>2 DEF LoopInv
    <1> QED
        BY <1>1, <1>2, <1>3, <1>4 DEF TypeInv
-----------------------------------------------------------------------------
(* What the names mean by the rules of the language. *)

LEMMA BatchType ==
    ASSUME BatchInv
    PROVE  /\ Len(batch) \in Nat /\ DOMAIN batch = 1 .. Len(batch)
           /\ \A i \in DOMAIN batch :
                /\ batch[i].name \in TypeIds /\ batch[i].name \in AllNames /\ batch[i].part \in AllNames
                /\ batch[i].kind \in {"name", "complex"}
                /\ batch[i].object \in Nat \ {0} /\ batch[i].object \in Objects
    <1>1. Len(batch) \in Nat /\ DOMAIN batch = 1 .. Len(batch)
        BY DEF BatchInv
    <1>2. \A i \in DOMAIN batch : batch[i] \in BatchEntries /\ batch[i].object \in Objects
        BY DEF BatchInv
    <1>3. \A b \in BatchEntries :
             /\ b.name \in TypeIds /\ b.name \in AllNames /\ b.part \in AllNames
             /\ b.kind \in {"name", "complex"} /\ b.object \in Nat \ {0}
        BY DEF BatchEntries, AllNames
    <1> QED
        BY <1>1, <1>2, <1>3

LEMMA FirstIs ==
    ASSUME BatchInv, NEW x, InBatch(x)
    PROVE  /\ First(x) \in DOMAIN batch /\ batch[First(x)].name = x
           /\ \A j \in DOMAIN batch : batch[j].name = x => First(x) <= j
    <1> DEFINE S == {i \in DOMAIN batch : batch[i].name = x}
    <1>1. S \in SUBSET Nat /\ S # {}
        BY BatchType DEF InBatch
    <1>2. \E i \in S : \A j \in S : i <= j
        <2> HIDE DEF S
        <2> QED
            BY <1>1, LeastNatural
    <1>3. \E i \in DOMAIN batch :
             batch[i].name = x /\ \A j \in DOMAIN batch : batch[j].name = x => i <= j
        BY <1>2
    <1> QED
        BY <1>3 DEF First

\* A name of the batch that stands for another one of it.
Through(x) == Declares(x) /\ batch[First(x)].kind = "name" /\ ~ KnownBefore(First(x))

Directly(x) ==
    IF ~ Declares(x) THEN lookup(env, x, error_type)
    ELSE IF batch[First(x)].kind # "name" THEN batch[First(x)].object
    ELSE lookup(env, batch[First(x)].part, error_type)

MeantBy(g) ==
    [x \in AllNames |-> IF Through(x) THEN g[batch[First(x)].part] ELSE Directly(x)]

LEMMA EnvType ==
    ASSUME NamesInv, NEW x
    PROVE  lookup(env, x, error_type) \in Nat \ {0}
    <1>1. CASE \E i \in 1 .. Len(env) : x \in DOMAIN env[i]
        <2>1. PICK i : Innermost(env, x, i)
            BY <1>1, InnermostExists DEF NamesInv
        <2>2. env[i][x] \in Nat \ {0}
            BY <2>1, MapType, LayerType DEF Innermost, NamesInv
        <2> QED
            BY <2>1, <2>2, LookupFinds DEF NamesInv
    <1>2. CASE ~ \E i \in 1 .. Len(env) : x \in DOMAIN env[i]
        BY <1>2, LookupFindsNone DEF NamesInv, error_type
    <1> QED
        BY <1>1, <1>2

LEMMA MeaningsSteps ==
    ASSUME NamesInv, BatchInv
    PROVE  \E f \in [Nat -> [AllNames -> Nat \ {0}]] :
              /\ \A n \in Nat : Meanings[n] = f[n]
              /\ f[0] = MeantBy([x \in AllNames |-> error_type])
              /\ \A n \in Nat : f[n + 1] = MeantBy(f[n])
    <1> DEFINE X == [AllNames -> Nat \ {0}]
               Defines(g) == g = [n \in Nat |->
                    [x \in TypeIds \cup {IntName} |->
                        IF ~ Declares(x) THEN lookup(env, x, error_type)
                        ELSE LET i == First(x) IN
                             IF batch[i].kind # "name" THEN batch[i].object
                             ELSE IF KnownBefore(i) THEN lookup(env, batch[i].part, error_type)
                             ELSE IF n = 0 THEN error_type
                             ELSE g[n - 1][batch[i].part]]]
               g0 == CHOOSE g : Defines(g)
               F == [g \in X |-> MeantBy(g)]
               none == [x \in AllNames |-> error_type]
               start == MeantBy(none)
    <1>1. \A x \in AllNames : InBatch(x) =>
             /\ First(x) \in DOMAIN batch /\ batch[First(x)].part \in AllNames
             /\ batch[First(x)].object \in Nat \ {0}
        BY FirstIs, BatchType
    <1>2. \A g \in X : MeantBy(g) \in X
        BY <1>1, EnvType DEF MeantBy, Through, Directly, Declares
    <1>3. start \in X
        <2>1. none \in X
            BY DEF error_type
        <2> HIDE DEF X, none
        <2> QED
            BY <1>2, <2>1
    <1>4. PICK f \in [Nat -> X] : f[0] = start /\ \A n \in Nat : f[n + 1] = F[f[n]]
        <2>1. F \in [X -> X]
            BY <1>2
        <2> HIDE DEF X, F, start
        <2> QED
            BY <1>3, <2>1, Iteration
    <1>5. \A n \in Nat : f[n + 1] = MeantBy(f[n])
        BY <1>4
    <1>6. \A x \in AllNames : Through(x) => none[batch[First(x)].part] = error_type
        BY <1>1 DEF Through, Declares
    <1>7. Defines(f)
        <2> SUFFICES ASSUME NEW n \in Nat
                     PROVE  f[n] = [x \in AllNames |->
                        IF ~ Declares(x) THEN lookup(env, x, error_type)
                        ELSE LET i == First(x) IN
                             IF batch[i].kind # "name" THEN batch[i].object
                             ELSE IF KnownBefore(i) THEN lookup(env, batch[i].part, error_type)
                             ELSE IF n = 0 THEN error_type
                             ELSE f[n - 1][batch[i].part]]
            BY <1>4 DEF AllNames
        <2> SUFFICES f[n] = [x \in AllNames |->
                                IF ~ Through(x) THEN Directly(x)
                                ELSE IF n = 0 THEN error_type
                                ELSE f[n - 1][batch[First(x)].part]]
            BY DEF Through, Directly
        <2> HIDE DEF none
        <2>1. CASE n = 0
            BY <1>4, <1>6, <2>1 DEF MeantBy
        <2>2. CASE n # 0
            <3>1. n - 1 \in Nat /\ (n - 1) + 1 = n
                BY <2>2
            <3>2. f[n] = MeantBy(f[n - 1])
                BY <1>5, <3>1
            <3> QED
                BY <2>2, <3>2 DEF MeantBy
        <2> QED
            BY <2>1, <2>2
    <1>8. Defines(g0)
        <2> HIDE DEF Defines
        <2> QED
            BY <1>7
    <1>9. Meanings = g0
        BY DEF Meanings
    <1>10. g0[0] = start /\ \A n \in Nat : g0[n + 1] = MeantBy(g0[n])
        <2> HIDE DEF g0, none
        <2>1. g0[0] = start
            BY <1>6, <1>8 DEF MeantBy, AllNames, Through, Directly
        <2>2. ASSUME NEW n \in Nat
              PROVE  g0[n + 1] = MeantBy(g0[n])
            <3>1. n + 1 \in Nat /\ n + 1 # 0 /\ (n + 1) - 1 = n
                OBVIOUS
            <3>2. g0[n + 1] = [x \in AllNames |->
                                IF ~ Through(x) THEN Directly(x)
                                ELSE IF n + 1 = 0 THEN error_type
                                ELSE g0[(n + 1) - 1][batch[First(x)].part]]
                BY <1>8, <3>1 DEF AllNames, Through, Directly
            <3> QED
                BY <3>1, <3>2 DEF MeantBy
        <2> QED
            BY <2>1, <2>2
    <1>11. \A n \in Nat : g0[n] = f[n]
        <2> DEFINE S == {n \in Nat : g0[n] = f[n]}
        <2>1. 0 \in S /\ \A n \in Nat : n \in S => n + 1 \in S
            <3> HIDE DEF g0, start
            <3> QED
                BY <1>4, <1>5, <1>10
        <2>2. Nat \subseteq S
            <3> HIDE DEF S
            <3> QED
                BY <2>1, SetInduction
        <2> QED
            BY <2>2
    <1> HIDE DEF g0, F
    <1> QED
        BY <1>4, <1>5, <1>9, <1>11

LEMMA MeaningsFacts ==
    ASSUME NamesInv, BatchInv
    PROVE  \A n \in Nat : \A x \in AllNames :
              /\ Meanings[n][x] \in Nat \ {0}
              /\ ~ Through(x) => Meanings[n][x] = Directly(x)
              /\ Through(x) =>
                    /\ Meanings[0][x] = error_type
                    /\ Meanings[n + 1][x] = Meanings[n][batch[First(x)].part]
    <1>1. PICK f \in [Nat -> [AllNames -> Nat \ {0}]] :
              /\ \A n \in Nat : Meanings[n] = f[n]
              /\ f[0] = MeantBy([x \in AllNames |-> error_type])
              /\ \A n \in Nat : f[n + 1] = MeantBy(f[n])
        BY MeaningsSteps
    <1> DEFINE none == [x \in AllNames |-> error_type]
    <1>2. \A x \in AllNames : Through(x) => none[batch[First(x)].part] = error_type
        BY FirstIs, BatchType DEF Through, Declares
    <1>3. Meanings[0] = MeantBy(none) /\ \A n \in Nat : Meanings[n + 1] = MeantBy(Meanings[n])
        BY <1>1
    <1>4. \A n \in Nat : Meanings[n] \in [AllNames -> Nat \ {0}]
        BY <1>1
    <1> HIDE DEF none
    <1>5. \A g : \A x \in AllNames :
              MeantBy(g)[x] = IF Through(x) THEN g[batch[First(x)].part] ELSE Directly(x)
        BY DEF MeantBy
    <1> SUFFICES ASSUME NEW n \in Nat, NEW x \in AllNames
                 PROVE  /\ Meanings[n][x] \in Nat \ {0}
                        /\ ~ Through(x) => Meanings[n][x] = Directly(x)
                        /\ Through(x) =>
                              /\ Meanings[0][x] = error_type
                              /\ Meanings[n + 1][x] = Meanings[n][batch[First(x)].part]
        OBVIOUS
    <1>6. \E g : Meanings[n] = MeantBy(g)
        <2>1. CASE n = 0
            BY <1>3, <2>1, Zenon
        <2>2. CASE n # 0
            <3>1. n - 1 \in Nat /\ (n - 1) + 1 = n
                BY <2>2
            <3>2. Meanings[n] = MeantBy(Meanings[n - 1])
                BY <1>3, <3>1
            <3> QED
                BY <3>2
        <2> QED
            BY <2>1, <2>2
    <1>7. PICK g : Meanings[n] = MeantBy(g)
        BY <1>6
    <1>8. ~ Through(x) => Meanings[n][x] = Directly(x)
        BY <1>5, <1>7
    <1>9. ASSUME Through(x)
          PROVE  /\ Meanings[0][x] = error_type
                 /\ Meanings[n + 1][x] = Meanings[n][batch[First(x)].part]
        <2>1. MeantBy(none)[x] = none[batch[First(x)].part]
            BY <1>5, <1>9
        <2>2. MeantBy(Meanings[n])[x] = Meanings[n][batch[First(x)].part]
            BY <1>5, <1>9
        <2>3. none[batch[First(x)].part] = error_type
            BY <1>2, <1>9
        <2>4. Meanings[0] = MeantBy(none) /\ Meanings[n + 1] = MeantBy(Meanings[n])
            BY <1>3
        <2> QED
            BY <2>1, <2>2, <2>3, <2>4
    <1> QED
        BY <1>4, <1>8, <1>9
-----------------------------------------------------------------------------
(* The types of all variables. *)

\* At the end of a batch its names get their meanings.
LEMMA EnvDone ==
    ASSUME NamesInv, BatchInv, BatchDone
    PROVE  /\ env' \in Maps /\ Len(env') = Len(env)
           /\ \A k \in 1 .. Len(env) - 1 : env'[k] = env[k]
           /\ \A x : x \in DOMAIN env'[Len(env)] <=> x \in DOMAIN env[Len(env)] \/ InBatch(x)
           /\ \A x \in DOMAIN env'[Len(env)] :
                env'[Len(env)][x] = IF Declares(x) THEN Meaning(x) ELSE env[Len(env)][x]
    <1> DEFINE old == env[Len(env)]
               D == DOMAIN old \cup {batch[i].name : i \in DOMAIN batch}
               new == [x \in D |-> IF Declares(x) THEN Meaning(x) ELSE old[x]]
    <1>1. /\ Len(env) \in Nat \ {0} /\ env \in Seq(Layers) /\ old \in Layers
          /\ DOMAIN env = 1 .. Len(env)
        BY MapType DEF NamesInv
    <1>2. env' = [env EXCEPT ![Len(env)] = new]
        BY DEF BatchDone
    <1>3. \A x : x \in D <=> x \in DOMAIN old \/ InBatch(x)
        BY DEF InBatch
    <1>4. \A x : InBatch(x) => x \in AllNames
        BY BatchType DEF InBatch
    <1>5. D \in SUBSET AllNames
        BY <1>1, <1>3, <1>4, LayerType
    <1>6. \A x \in D : new[x] \in Nat \ {0}
        <2>1. Len(batch) \in Nat
            BY BatchType
        <2>2. \A x \in AllNames : Meaning(x) \in Nat \ {0}
            BY <2>1, MeaningsFacts DEF Meaning
        <2>3. \A x \in DOMAIN old : old[x] \in Nat \ {0}
            BY <1>1, LayerType
        <2> QED
            BY <1>3, <1>4, <2>2, <2>3 DEF Declares, LastLayer
    <1>7. new \in Layers
        <2>1. new \in [D -> Nat \ {0}]
            BY <1>6
        <2> HIDE DEF D, new
        <2> QED
            BY <1>5, <2>1 DEF Layers
    <1>8. DOMAIN new = D /\ \A x \in D : new[x] = IF Declares(x) THEN Meaning(x) ELSE old[x]
        OBVIOUS
    <1> HIDE DEF new, D
    <1>9. /\ env' \in Seq(Layers) /\ Len(env') = Len(env) /\ env'[Len(env)] = new
          /\ \A k \in 1 .. Len(env) - 1 : env'[k] = env[k]
        <2> PICK n \in Nat \ {0} : n = Len(env)
            BY <1>1
        <2>1. env' = [k \in 1 .. n |-> IF k = n THEN new ELSE env[k]]
            BY <1>1, <1>2
        <2>2. \A k \in 1 .. n : env[k] \in Layers
            BY <1>1
        <2>3. env' \in Seq(Layers) /\ Len(env') = n
            BY <1>7, <2>1, <2>2
        <2>4. env'[n] = new /\ \A k \in 1 .. n - 1 : env'[k] = env[k]
            BY <2>1
        <2> QED
            BY <2>3, <2>4
    <1>10. env' \in Maps
        BY <1>1, <1>9 DEF Maps
    <1> QED
        BY <1>3, <1>8, <1>9, <1>10

LEMMA TypesKept ==
    ASSUME TypeInv, UNCHANGED types
    PROVE  TypesInv' /\ Objects' = Objects /\ \A t : IsReference(t)' <=> IsReference(t)
    BY DEF TypeInv, TypesInv, Objects, IsReference

LEMMA NamesKept ==
    ASSUME TypeInv, UNCHANGED <<typenames, env>>, Objects \subseteq Objects'
    PROVE  NamesInv'
    BY DEF TypeInv, NamesInv

LEMMA BatchKept ==
    ASSUME TypeInv, UNCHANGED batch, Objects \subseteq Objects'
    PROVE  BatchInv'
    BY DEF TypeInv, BatchInv

LEMMA WithMeaningIs ==
    ASSUME NEW o \in TypeObjects, NEW v \in Nat
    PROVE  LET w == WithMeaning(o, v)
           IN  w \in TypeObjects /\ w.kind = o.kind /\ w.part_types = o.part_types /\ w.meaning = v
    BY DEF WithMeaning, TypeObjects

\* A reference loses its meaning, or gets one.
LEMMA MeaningChanged ==
    ASSUME TypeInv, NEW T \in SUBSET Objects, NEW v \in Objects, \A t \in T : IsReference(t),
           types' = [t \in DOMAIN types |-> IF t \in T THEN [types[t] EXCEPT !.meaning = v] ELSE types[t]]
    PROVE  /\ TypesInv' /\ Objects' = Objects
           /\ \A t \in Objects :
                /\ IsReference(t)' <=> IsReference(t)
                /\ types'[t].kind = types[t].kind /\ types'[t].part_types = types[t].part_types
                /\ types'[t].meaning = IF t \in T THEN v ELSE types[t].meaning
    <1> PICK n \in Nat : n = Len(types)
        BY ObjectsAre DEF TypeInv
    <1>1. /\ DOMAIN types = 1 .. n /\ Objects = 1 .. n
          /\ \A t \in Objects : types[t] \in TypeObjects
          /\ n >= 2
          /\ int_type \in Objects /\ error_type \in Objects
        BY ObjectsAre DEF TypeInv, TypesInv
    <1>2. \A t \in 1 .. n :
             /\ types'[t].kind = types[t].kind /\ types'[t].part_types = types[t].part_types
             /\ types'[t].meaning = IF t \in T THEN v ELSE types[t].meaning
             /\ types'[t] \in TypeObjects
        <2> SUFFICES ASSUME NEW t \in 1 .. n
                     PROVE  /\ types'[t].kind = types[t].kind /\ types'[t].part_types = types[t].part_types
                            /\ types'[t].meaning = IF t \in T THEN v ELSE types[t].meaning
                            /\ types'[t] \in TypeObjects
            OBVIOUS
        <2>1. types'[t] = IF t \in T THEN [types[t] EXCEPT !.meaning = v] ELSE types[t]
            BY <1>1
        <2>2. types[t] \in TypeObjects /\ v \in Nat
            BY <1>1
        <2> DEFINE w == WithMeaning(types[t], v)
        <2>3. w \in TypeObjects /\ w.kind = types[t].kind /\ w.part_types = types[t].part_types /\ w.meaning = v
            BY <2>2, WithMeaningIs
        <2>4. types'[t] = IF t \in T THEN w ELSE types[t]
            BY <2>1 DEF WithMeaning
        <2> HIDE DEF w
        <2> QED
            BY <2>2, <2>3, <2>4
    <1>3. types' \in Seq(TypeObjects) /\ Len(types') = n
        BY <1>1, <1>2
    <1>4. Objects' = Objects
        BY <1>1, <1>3 DEF Objects
    <1>5. TypesInv'
        <2>1. types'[int_type].kind = "int" /\ types'[error_type].kind = "error"
            BY <1>1, <1>2 DEF TypeInv, TypesInv
        <2>2. \A t \in Objects :
                 /\ types[t].meaning \in Objects \cup {NULL}
                 /\ \A k \in DOMAIN types[t].part_types : types[t].part_types[k] \in Objects
            BY DEF TypeInv, TypesInv
        <2> QED
            BY <1>1, <1>2, <1>3, <1>4, <2>1, <2>2 DEF TypesInv
    <1> QED
        BY <1>1, <1>2, <1>4, <1>5 DEF IsReference

\* The entry of the batch for a declaration.
Entry(name, kind, part) ==
    [name |-> name, kind |-> kind, part |-> part, object |-> NewType(kind, part)]

LEMMA DeclareRest ==
    ASSUME TypeInv, NEW name \in TypeIds, NEW kind \in {"name", "complex"}, NEW part \in AllNames,
           Declare(name, kind, part)
    PROVE  /\ batch' = Append(batch, Entry(name, kind, part))
           /\ Len(batch') = Len(batch) + 1 /\ batch'[Len(batch) + 1] = Entry(name, kind, part)
           /\ \A i \in DOMAIN batch : batch'[i] = batch[i]
           /\ DOMAIN batch' = DOMAIN batch \cup {Len(batch) + 1}
           /\ unknown_types' = IF Fresh(part) THEN Append(unknown_types, NewReference) ELSE unknown_types
           /\ Unknown' = Unknown \cup (IF Fresh(part) THEN {NewReference} ELSE {})
           /\ errors' = (errors \/ InBatch(name))
           /\ pc = "declare" /\ UNCHANGED <<pc, current, visited_types, rejected, env>>
    <1>1. /\ batch' = Append(batch, Entry(name, kind, part))
          /\ unknown_types' = Defined(kind, part).unknown
        BY DefinedIs DEF Declare, Entry
    <1>2. unknown_types' = IF Fresh(part) THEN Append(unknown_types, NewReference) ELSE unknown_types
        BY <1>1, DefinedIs, NamedIs
    <1>3. Unknown' = Unknown \cup (IF Fresh(part) THEN {NewReference} ELSE {})
        <2>1. unknown_types \in Seq(Objects)
            BY DEF TypeInv, LoopInv
        <2>2. CASE Fresh(part)
            <3> PICK n \in Nat : n = Len(unknown_types)
                BY <2>1
            <3>1. /\ DOMAIN unknown_types = 1 .. n /\ DOMAIN unknown_types' = 1 .. n + 1
                  /\ \A i \in 1 .. n : unknown_types'[i] = unknown_types[i]
                  /\ unknown_types'[n + 1] = NewReference
                BY <1>2, <2>1, <2>2
            <3>2. \A i \in 1 .. n + 1 : i \in 1 .. n \/ i = n + 1
                OBVIOUS
            <3> QED
                BY <2>2, <3>1, <3>2 DEF Unknown
        <2>3. CASE ~ Fresh(part)
            BY <1>2, <2>3 DEF Unknown
        <2> QED
            BY <2>2, <2>3
    <1>4. /\ Len(batch') = Len(batch) + 1 /\ batch'[Len(batch) + 1] = Entry(name, kind, part)
          /\ \A i \in DOMAIN batch : batch'[i] = batch[i]
          /\ DOMAIN batch' = DOMAIN batch \cup {Len(batch) + 1}
        <2>1. batch \in Seq(BatchEntries)
            BY DEF TypeInv, BatchInv
        <2> DEFINE e == Entry(name, kind, part)
        <2> HIDE DEF e
        <2> PICK n \in Nat : n = Len(batch)
            BY <2>1
        <2>2. DOMAIN batch = 1 .. n /\ batch' = Append(batch, e)
            BY <1>1, <2>1 DEF e
        <2>3. /\ Len(batch') = n + 1 /\ batch'[n + 1] = e /\ DOMAIN batch' = 1 .. n + 1
              /\ \A i \in 1 .. n : batch'[i] = batch[i]
            BY <2>1, <2>2
        <2>4. 1 .. n + 1 = (1 .. n) \cup {n + 1}
            OBVIOUS
        <2> QED
            BY <2>2, <2>3, <2>4 DEF e
    <1> QED
        BY <1>1, <1>2, <1>3, <1>4 DEF Declare

LEMMA TypeDeclare ==
    ASSUME TypeInv, NEW name \in TypeIds, NEW kind \in {"name", "complex"}, NEW part \in AllNames,
           Declare(name, kind, part)
    PROVE  TypeInv'
    <1>1. /\ TypesInv' /\ Extends(types, types') /\ Objects \subseteq Objects'
          /\ NewType(kind, part) \in Objects' /\ PartType(part) \in Objects'
          /\ Fresh(part) => NewReference \in Objects' \ Objects
        BY DeclareExtends
    <1>2. NamesInv'
        <2>1. /\ typenames' \in Maps /\ Here' = Here
              /\ \A k \in 1 .. Here - 1 : typenames'[k] = typenames[k]
              /\ DOMAIN typenames'[Here] =
                   DOMAIN typenames[Here] \cup {name} \cup (IF Fresh(part) THEN {part} ELSE {})
              /\ \A x \in DOMAIN typenames[Here] : typenames'[Here][x] = typenames[Here][x]
              /\ Fresh(part) => typenames'[Here][part] = NewReference
              /\ ~ Awaited(name, part) => typenames'[Here][name] = NewType(kind, part)
            BY DeclaredNames
        <2>2. /\ Here \in Nat \ {0} /\ Here = Len(typenames) /\ env' = env
              /\ env \in Maps /\ Len(env) = Here
            BY MapType, DeclareRest DEF TypeInv, NamesInv, Here
        <2>3. \A k \in 1 .. Here : \A x \in DOMAIN typenames[k] : typenames[k][x] \in Objects'
            BY <1>1 DEF TypeInv, NamesInv, Here
        <2>4. \A x \in DOMAIN typenames'[Here] : typenames'[Here][x] \in Objects'
            BY <1>1, <2>1, <2>2, <2>3 DEF Awaited
        <2>5. \A k \in 1 .. Here : k = Here \/ k \in 1 .. Here - 1
            BY <2>2
        <2>6. \A k \in 1 .. Here : \A x \in DOMAIN typenames'[k] : typenames'[k][x] \in Objects'
            <3> SUFFICES ASSUME NEW k \in 1 .. Here, NEW x \in DOMAIN typenames'[k]
                         PROVE  typenames'[k][x] \in Objects'
                OBVIOUS
            <3>1. CASE k = Here
                BY <2>4, <3>1
            <3>2. CASE k \in 1 .. Here - 1
                BY <2>1, <2>3, <3>2
            <3> QED
                BY <2>5, <3>1, <3>2
        <2>7. Len(typenames') = Here
            BY <2>1 DEF Here
        <2> QED
            BY <2>1, <2>2, <2>6, <2>7 DEF NamesInv
    <1>3. BatchInv'
        <2>1. Entry(name, kind, part) \in BatchEntries
            <3>1. NewType(kind, part) \in Nat \ {0}
                BY <1>1 DEF Objects
            <3> QED
                BY <3>1 DEF Entry, BatchEntries
        <2>2. batch' \in Seq(BatchEntries)
            BY <2>1, DeclareRest DEF TypeInv, BatchInv
        <2>3. \A i \in DOMAIN batch' : batch'[i].object \in Objects'
            <3>1. \A i \in DOMAIN batch : batch[i].object \in Objects'
                BY <1>1 DEF TypeInv, BatchInv
            <3>2. Entry(name, kind, part).object \in Objects'
                BY <1>1 DEF Entry
            <3> QED
                BY <3>1, <3>2, DeclareRest
        <2> QED
            BY <2>2, <2>3 DEF BatchInv
    <1>4. LoopInv'
        <2>1. unknown_types \in Seq(Objects) /\ \A i \in DOMAIN unknown_types : IsReference(unknown_types[i])
            BY DEF TypeInv, LoopInv
        <2>2. unknown_types' \in Seq(Objects')
            <3>1. unknown_types \in Seq(Objects')
                BY <1>1, <2>1
            <3>2. Fresh(part) => Append(unknown_types, NewReference) \in Seq(Objects')
                BY <1>1, <3>1
            <3> QED
                BY <3>1, <3>2, DeclareRest
        <2>3. \A t \in Unknown' : types'[t].kind = "reference"
            <3>1. \A t \in Unknown : t \in Objects /\ types[t].kind = "reference"
                BY <2>1 DEF Unknown, IsReference
            <3>2. \A t \in Unknown : types'[t].kind = "reference"
                BY <1>1, <3>1, ObjectsAre DEF Extends, TypeInv
            <3>3. Fresh(part) => types'[NewReference].kind = "reference"
                <4>1. Fresh(part) => types'[NewReference] =
                         WithMeaning(Object("reference", <<>>, <<>>), IF name = part THEN NewType(kind, part) ELSE NULL)
                    BY DeclaredTypes
                <4> QED
                    BY <4>1 DEF Object, WithMeaning
            <3> QED
                BY <3>2, <3>3, DeclareRest
        <2>4. \A i \in DOMAIN unknown_types' : unknown_types'[i] \in Unknown'
            BY DEF Unknown
        <2>5. batch' # <<>>
            BY DeclareRest, BatchType DEF TypeInv
        <2>6. pc' = "declare" /\ rejected' = rejected /\ errors' \in BOOLEAN
            BY DeclareRest DEF InBatch, TypeInv, LoopInv
        <2> QED
            BY <2>2, <2>3, <2>4, <2>5, <2>6 DEF LoopInv, IsReference, BetweenBatches, TypeInv
    <1> QED
        BY <1>1, <1>2, <1>3, <1>4 DEF TypeInv

LEMMA CircleBrokenIs ==
    ASSUME TypeInv, pc = "walk"
    PROVE  CircleBroken = [t \in DOMAIN types |->
              IF t \in {current} THEN [types[t] EXCEPT !.meaning = error_type] ELSE types[t]]
    BY DEF CircleBroken

LEMMA WalkMeets ==
    ASSUME TypeInv, ResolveInv, pc = "walk"
    PROVE  /\ current \in Objects /\ IsReference(current)
           /\ types[current].meaning \in Objects
    BY ObjectsAre DEF TypeInv, LoopInv, ResolveInv, Undefined

LEMMA TypeLoops ==
    ASSUME TypeInv, ResolveInv, RejectUndefined \/ StartWalk \/ WalkOn \/ WalkEnds
    PROVE  TypeInv' /\ Objects' = Objects /\ \A t \in Objects : IsReference(t)' <=> IsReference(t)
    <1>1. /\ unknown_types \in Seq(Objects) /\ \A i \in DOMAIN unknown_types : IsReference(unknown_types[i])
          /\ error_type \in Objects /\ pc \in {"declare", "undefined", "circular", "walk"}
          /\ errors \in BOOLEAN /\ rejected \in BOOLEAN
        BY ObjectsAre DEF TypeInv, LoopInv
    <1>2. Unknown \subseteq Objects /\ \A t \in Unknown : IsReference(t)
        BY <1>1 DEF Unknown
    <1>3. UNCHANGED <<typenames, batch, env>>
        BY DEF RejectUndefined, StartWalk, WalkOn, WalkEnds
    <1>4. SUFFICES /\ TypesInv' /\ Objects' = Objects /\ \A t \in Objects : IsReference(t)' <=> IsReference(t)
                   /\ LoopInv'
        BY <1>3, NamesKept, BatchKept DEF TypeInv
    <1>5. CASE RejectUndefined
        <2> DEFINE T == {t \in Unknown : Undefined(t)}
        <2>1. types' = [t \in DOMAIN types |->
                  IF t \in T THEN [types[t] EXCEPT !.meaning = error_type] ELSE types[t]]
            BY <1>5 DEF RejectUndefined
        <2>2. T \in SUBSET Objects /\ \A t \in T : IsReference(t)
            BY <1>2
        <2> HIDE DEF T
        <2>3. TypesInv' /\ Objects' = Objects /\ \A t \in Objects : IsReference(t)' <=> IsReference(t)
            BY <1>1, <2>1, <2>2, MeaningChanged
        <2>4. LoopInv'
            <3>1. UNCHANGED <<unknown_types, rejected>> /\ pc' = "circular" /\ errors' \in BOOLEAN
                BY <1>1, <1>5 DEF RejectUndefined
            <3>2. \A i \in DOMAIN unknown_types : unknown_types[i] \in Objects
                BY <1>1
            <3> QED
                BY <1>1, <2>3, <3>1, <3>2 DEF LoopInv, BetweenBatches
        <2> QED
            BY <2>3, <2>4
    <1>6. CASE StartWalk
        <2>1. UNCHANGED <<types, errors, rejected>> /\ pc' = "walk" /\ current' = Head(unknown_types)
              /\ unknown_types' = Tail(unknown_types) /\ unknown_types # <<>>
            BY <1>6 DEF StartWalk
        <2>2. TypesInv' /\ Objects' = Objects /\ \A t : IsReference(t)' <=> IsReference(t)
            BY <2>1, TypesKept
        <2>3. /\ Tail(unknown_types) \in Seq(Objects) /\ Head(unknown_types) = unknown_types[1]
              /\ 1 \in DOMAIN unknown_types
              /\ \A i \in DOMAIN Tail(unknown_types) :
                    i + 1 \in DOMAIN unknown_types /\ Tail(unknown_types)[i] = unknown_types[i + 1]
            BY <1>1, <2>1
        <2>4. current' \in Objects /\ IsReference(current')
            BY <1>1, <2>1, <2>3
        <2>5. LoopInv'
            BY <1>1, <2>1, <2>2, <2>3, <2>4 DEF LoopInv, BetweenBatches, IsReference
        <2> QED
            BY <2>2, <2>5
    <1>7. CASE WalkOn
        <2>1. pc = "walk" /\ UNCHANGED <<unknown_types, rejected>>
            BY <1>7 DEF WalkOn
        <2>2. /\ current \in Objects /\ IsReference(current) /\ types[current].meaning \in Objects
            BY <2>1, WalkMeets
        <2>3. CASE types' = CircleBroken /\ errors' = TRUE /\ pc' = "circular"
            <3>1. TypesInv' /\ Objects' = Objects /\ \A t \in Objects : IsReference(t)' <=> IsReference(t)
                <4>1. /\ {current} \in SUBSET Objects
                      /\ \A t \in {current} : IsReference(t)
                    BY <2>2
                <4>2. types' = [t \in DOMAIN types |->
                          IF t \in {current} THEN [types[t] EXCEPT !.meaning = error_type] ELSE types[t]]
                    BY <2>1, <2>3, CircleBrokenIs
                <4> QED
                    BY <1>1, <4>1, <4>2, MeaningChanged
            <3>2. LoopInv'
                <4>1. \A i \in DOMAIN unknown_types : unknown_types[i] \in Objects
                    BY <1>1
                <4> QED
                    BY <1>1, <2>1, <2>3, <3>1, <4>1 DEF LoopInv, BetweenBatches
            <3> QED
                BY <3>1, <3>2
        <2>4. CASE current' = types[current].meaning /\ UNCHANGED <<types, errors, pc>>
            <3>1. TypesInv' /\ Objects' = Objects /\ \A t : IsReference(t)' <=> IsReference(t)
                BY <2>4, TypesKept
            <3>2. IsReference(types[current].meaning)
                BY <1>7 DEF WalkOn
            <3>3. LoopInv'
                BY <1>1, <2>1, <2>2, <2>4, <3>1, <3>2 DEF LoopInv, BetweenBatches, IsReference
            <3> QED
                BY <3>1, <3>3
        <2> QED
            BY <1>7, <2>3, <2>4 DEF WalkOn
    <1>8. CASE WalkEnds
        <2>1. UNCHANGED <<types, unknown_types, errors, rejected>> /\ pc' = "circular"
            BY <1>8 DEF WalkEnds
        <2>2. TypesInv' /\ Objects' = Objects /\ \A t : IsReference(t)' <=> IsReference(t)
            BY <2>1, TypesKept
        <2>3. LoopInv'
            BY <1>1, <2>1, <2>2 DEF LoopInv, BetweenBatches, IsReference
        <2> QED
            BY <2>2, <2>3
    <1> QED
        BY <1>5, <1>6, <1>7, <1>8

LEMMA TypeRest ==
    ASSUME TypeInv, BatchEnds \/ BatchDone \/ NewLayer \/ RemoveLayer \/ UNCHANGED vars
    PROVE  TypeInv'
    <1>1. UNCHANGED <<types, unknown_types>>
        BY DEF BatchEnds, BatchDone, NewLayer, RemoveLayer, vars
    <1>2. TypesInv' /\ Objects' = Objects /\ \A t : IsReference(t)' <=> IsReference(t)
        BY <1>1, TypesKept
    <1>3. NamesInv /\ BatchInv /\ LoopInv
        BY DEF TypeInv
    <1>4. Len(typenames) \in Nat \ {0} /\ Len(env) = Len(typenames) /\ Len(env) \in Nat
        BY <1>3, MapType DEF NamesInv
    <1>5. NamesInv'
        <2>1. CASE UNCHANGED <<typenames, env>>
            BY <1>2, <2>1, NamesKept
        <2>2. CASE BatchDone
            <3>1. env' \in Maps /\ Len(env') = Len(env)
                BY <1>3, <2>2, EnvDone
            <3>2. typenames' = typenames
                BY <2>2 DEF BatchDone
            <3> QED
                BY <1>2, <1>3, <3>1, <3>2 DEF NamesInv
        <2>3. CASE NewLayer
            <3>1. typenames' = newLayer(typenames) /\ env' = newLayer(env)
                BY <2>3 DEF NewLayer
            <3>2. /\ typenames' \in Maps /\ env' \in Maps /\ Len(typenames') = Len(typenames) + 1
                  /\ Len(env') = Len(env) + 1
                  /\ \A k \in 1 .. Len(typenames) : typenames'[k] = typenames[k]
                  /\ DOMAIN typenames'[Len(typenames) + 1] = {}
                BY <1>3, <3>1, LayerAdded, EmptyLayer DEF NamesInv
            <3>3. \A k \in 1 .. Len(typenames) + 1 : k \in 1 .. Len(typenames) \/ k = Len(typenames) + 1
                BY <1>4
            <3> QED
                BY <1>2, <1>3, <1>4, <3>2, <3>3 DEF NamesInv
        <2>4. CASE RemoveLayer
            <3>1. typenames' = removeLastLayer(typenames) /\ env' = removeLastLayer(env) /\ Len(env) > 1
                BY <2>4 DEF RemoveLayer
            <3>2. /\ typenames' \in Maps /\ env' \in Maps /\ Len(typenames') = Len(typenames) - 1
                  /\ Len(env') = Len(env) - 1
                  /\ \A k \in 1 .. Len(typenames) - 1 : typenames'[k] = typenames[k]
                BY <1>3, <1>4, <3>1, LayerRemoved DEF NamesInv
            <3>3. \A k \in 1 .. Len(typenames) - 1 : k \in 1 .. Len(typenames)
                BY <1>4
            <3> QED
                BY <1>2, <1>3, <1>4, <3>2, <3>3 DEF NamesInv
        <2> QED
            BY <2>1, <2>2, <2>3, <2>4 DEF BatchEnds, vars
    <1>6. BatchInv'
        <2>1. CASE UNCHANGED batch
            BY <1>2, <2>1, BatchKept
        <2>2. CASE batch' = <<>>
            BY <2>2 DEF BatchInv
        <2> QED
            BY <2>1, <2>2 DEF BatchEnds, BatchDone, NewLayer, RemoveLayer, vars
    <1>7. LoopInv'
        <2>1. UNCHANGED rejected \/ rejected' \in BOOLEAN
            BY DEF BatchEnds, BatchDone, NewLayer, RemoveLayer, vars
        <2>2. CASE BatchEnds
            BY <1>1, <1>2, <1>3, <2>2 DEF BatchEnds, LoopInv, BetweenBatches, IsReference
        <2>3. CASE BatchDone
            <3>1. pc' = "declare" /\ errors' = FALSE /\ unknown_types = <<>> /\ rejected' = (rejected \/ errors)
                BY <2>3 DEF BatchDone
            <3>2. rejected' \in BOOLEAN
                BY <1>3, <3>1 DEF LoopInv
            <3> QED
                BY <1>1, <1>2, <1>3, <3>1, <3>2 DEF LoopInv, BetweenBatches, IsReference
        <2>4. CASE NewLayer \/ RemoveLayer
            <3>1. pc' = "declare" /\ BetweenBatches /\ UNCHANGED <<batch, errors, rejected, current>>
                BY <2>4 DEF NewLayer, RemoveLayer, BetweenBatches
            <3> QED
                BY <1>1, <1>2, <1>3, <3>1 DEF LoopInv, BetweenBatches, IsReference
        <2>5. CASE UNCHANGED vars
            BY <1>1, <1>2, <1>3, <2>5 DEF LoopInv, BetweenBatches, IsReference, vars
        <2> QED
            BY <2>2, <2>3, <2>4, <2>5
    <1> QED
        BY <1>2, <1>5, <1>6, <1>7 DEF TypeInv

LEMMA TypeNext == TypeInv /\ ResolveInv /\ [Next]_vars => TypeInv'
    <1> SUFFICES ASSUME TypeInv, ResolveInv, [Next]_vars PROVE TypeInv'
        OBVIOUS
    <1>1. ASSUME NEW name \in TypeIds, NEW kind \in {"name", "complex"}, NEW part \in TypeIds \cup {IntName},
                 Declare(name, kind, part)
          PROVE  TypeInv'
        BY <1>1, TypeDeclare DEF AllNames
    <1>2. CASE RejectUndefined \/ StartWalk \/ WalkOn \/ WalkEnds
        BY <1>2, TypeLoops
    <1>3. CASE BatchEnds \/ BatchDone \/ NewLayer \/ RemoveLayer \/ UNCHANGED vars
        BY <1>3, TypeRest
    <1> QED
        BY <1>1, <1>2, <1>3 DEF Next
-----------------------------------------------------------------------------
(* Every reference leads to a type. *)

LEMMA ResolveInit == Init => ResolveInv
    <1> SUFFICES ASSUME Init PROVE ResolveInv
        OBVIOUS
    <1>1. TypeInv
        BY TypeInit
    <1>2. pc = "declare" /\ \A t \in Objects : ~ IsReference(t)
        <2>1. Objects = 1 .. 2 /\ types[1].kind = "int" /\ types[2].kind = "error" /\ pc = "declare"
            BY DEF Init, Objects, Object
        <2> QED
            BY <2>1 DEF IsReference
    <1>3. Objects \subseteq Plain(types) /\ Plain(types) \in SUBSET DOMAIN types
        BY <1>1, <1>2, ObjectsAre DEF TypeInv
    <1> QED
        BY <1>2, <1>3, BackClosed DEF ResolveInv, Begun, Undefined

LEMMA ResolveDeclare ==
    ASSUME TypeInv, ResolveInv, NEW name \in TypeIds, NEW kind \in {"name", "complex"},
           NEW part \in AllNames, Declare(name, kind, part)
    PROVE  ResolveInv'
    <1>1. /\ TypesInv' /\ Extends(types, types') /\ Objects \subseteq Objects'
          /\ \A t \in Objects' \ Objects :
                \/ Fresh(part) /\ t = NewReference
                \/ kind = "complex" /\ t = NewType(kind, part)
        BY DeclareExtends
    <1>2. Unknown' = Unknown \cup (IF Fresh(part) THEN {NewReference} ELSE {}) /\ pc = "declare" /\ pc' = "declare"
        BY DeclareRest
    <1>3. kind = "complex" => types'[NewType(kind, part)].kind = "complex"
        <2>1. kind = "complex" =>
                 types'[NewType(kind, part)] = Object("complex", <<part>>, <<PartType(part)>>)
            BY DeclaredTypes
        <2> QED
            BY <2>1 DEF Object
    <1>4. DOMAIN types = Objects /\ NULL \notin DOMAIN types
        BY ObjectsAre DEF TypeInv
    <1>5. DOMAIN types' = Objects'
        BY <1>1 DEF TypesInv, Objects
    <1>6. \A t \in Objects' : types'[t].kind = "reference" /\ types'[t].meaning = NULL => t \in Unknown'
        <2> SUFFICES ASSUME NEW t \in Objects', types'[t].kind = "reference", types'[t].meaning = NULL
                     PROVE  t \in Unknown'
            OBVIOUS
        <2>1. CASE t \in Objects
            <3>1. types[t].kind = "reference" /\ types[t].meaning = NULL
                BY <1>1, <1>4, <2>1 DEF Extends
            <3> QED
                BY <1>2, <2>1, <3>1 DEF ResolveInv, Undefined, IsReference
        <2>2. CASE t \notin Objects
            BY <1>1, <1>2, <1>3, <2>2
        <2> QED
            BY <2>1, <2>2
    <1>7. Objects' \ Unknown' \subseteq Back(types', Plain(types'))
        <2>1. Objects \ Unknown \subseteq Back(types, Plain(types))
            BY <1>2 DEF ResolveInv, Begun
        <2>2. /\ Plain(types) \in SUBSET DOMAIN types /\ Plain(types') \in SUBSET DOMAIN types'
              /\ Plain(types) \subseteq Plain(types')
            BY <1>1, PlainGrows DEF Plain
        <2>3. Back(types, Plain(types)) \subseteq Back(types', Plain(types'))
            BY <1>1, <1>4, <2>2, BackGrows
        <2>4. kind = "complex" /\ NewType(kind, part) \in Objects' => NewType(kind, part) \in Plain(types')
            BY <1>3, <1>5 DEF Plain
        <2>5. Plain(types') \subseteq Back(types', Plain(types'))
            BY <2>2, BackClosed
        <2> QED
            BY <1>1, <1>2, <2>1, <2>3, <2>4, <2>5
    <1> QED
        BY <1>2, <1>6, <1>7 DEF ResolveInv, Begun, Undefined, IsReference

LEMMA ResolveLoops ==
    ASSUME TypeInv, ResolveInv, RejectUndefined \/ StartWalk \/ WalkOn \/ WalkEnds
    PROVE  ResolveInv'
    <1>1. /\ DOMAIN types = Objects /\ NULL \notin Objects /\ error_type \in Objects
          /\ error_type \in Plain(types) /\ Plain(types) = {t \in Objects : ~ IsReference(t)}
        BY ObjectsAre DEF TypeInv
    <1>2. /\ TypesInv' /\ Objects' = Objects
          /\ \A t \in Objects : IsReference(t)' <=> IsReference(t)
        BY TypeLoops DEF TypeInv
    <1>3. DOMAIN types' = Objects
        BY <1>2 DEF TypesInv, Objects
    <1>4. Plain(types') = Plain(types)
        BY <1>1, <1>2, <1>3 DEF Plain, IsReference
    <1>5. Plain(types) \in SUBSET DOMAIN types
        BY <1>1
    <1>6. pc = "walk" => current \in Objects
        BY DEF TypeInv, LoopInv
    <1>7. unknown_types \in Seq(Objects)
        BY DEF TypeInv, LoopInv
    <1>8. CASE RejectUndefined
        <2> DEFINE T == {t \in Unknown : Undefined(t)}
        <2>1. /\ pc = "undefined" /\ pc' = "circular" /\ Unknown' = Unknown
              /\ types' = [t \in DOMAIN types |->
                  IF t \in T THEN [types[t] EXCEPT !.meaning = error_type] ELSE types[t]]
            BY <1>8 DEF RejectUndefined, Unknown
        <2>2. T \in SUBSET Objects /\ \A t \in T : IsReference(t)
            BY <1>7 DEF Unknown, Undefined
        <2>3. \A t \in Objects : Undefined(t) => t \in T
            BY <2>1 DEF ResolveInv
        <2> HIDE DEF T
        <2>4. \A t \in Objects :
                /\ types'[t].kind = types[t].kind /\ types'[t].part_types = types[t].part_types
                /\ types'[t].meaning = IF t \in T THEN error_type ELSE types[t].meaning
            BY <1>1, <2>1, <2>2, MeaningChanged
        <2>5. \A t \in T : types[t].kind = "reference" /\ types[t].meaning = NULL
            BY DEF T, Undefined, IsReference
        <2>6. Extends(types, types')
            BY <1>1, <1>3, <2>4, <2>5 DEF Extends
        <2>7. Back(types, Plain(types)) \subseteq Back(types', Plain(types'))
            BY <1>1, <1>3, <1>4, <1>5, <2>6, BackGrows
        <2>8. \A t \in Objects : types'[t].kind = "reference" => types'[t].meaning # NULL
            BY <1>1, <2>3, <2>4 DEF Undefined, IsReference
        <2> QED
            BY <1>2, <2>1, <2>7, <2>8 DEF ResolveInv, Begun, Undefined, IsReference
    <1>9. CASE StartWalk
        <2>1. /\ pc = "circular" /\ pc' = "walk" /\ types' = types
              /\ current' = Head(unknown_types) /\ unknown_types' = Tail(unknown_types)
              /\ unknown_types # <<>>
            BY <1>9 DEF StartWalk
        <2>2. Unknown = Unknown' \cup {current'} /\ current' \in Objects
            <3> PICK n \in Nat : n = Len(unknown_types)
                BY <1>7
            <3>1. /\ n >= 1 /\ DOMAIN unknown_types = 1 .. n /\ current' = unknown_types[1]
                  /\ DOMAIN unknown_types' = 1 .. n - 1
                  /\ \A i \in 1 .. n - 1 : unknown_types'[i] = unknown_types[i + 1]
                BY <1>7, <2>1
            <3>2. \A i \in 1 .. n : i = 1 \/ (i - 1 \in 1 .. n - 1 /\ (i - 1) + 1 = i)
                OBVIOUS
            <3>3. \A i \in 1 .. n - 1 : i + 1 \in 1 .. n
                OBVIOUS
            <3>4. 1 \in 1 .. n
                BY <3>1
            <3>5. Unknown \subseteq Unknown' \cup {current'}
                <4> SUFFICES ASSUME NEW i \in 1 .. n
                             PROVE  unknown_types[i] \in Unknown' \cup {current'}
                    BY <3>1 DEF Unknown
                <4>1. CASE i = 1
                    BY <3>1, <4>1
                <4>2. CASE i # 1
                    <5> PICK j \in 1 .. n - 1 : j + 1 = i
                        BY <3>2, <4>2
                    <5>1. unknown_types'[j] = unknown_types[i] /\ j \in DOMAIN unknown_types'
                        BY <3>1
                    <5> QED
                        BY <5>1 DEF Unknown
                <4> QED
                    BY <4>1, <4>2
            <3>6. Unknown' \cup {current'} \subseteq Unknown
                BY <3>1, <3>3, <3>4 DEF Unknown
            <3> QED
                BY <1>7, <3>1, <3>4, <3>5, <3>6
        <2>3. Objects \ Unknown \subseteq Back(types, Plain(types))
            BY <2>1 DEF ResolveInv, Begun
        <2> DEFINE B == Plain(types) \cup {current'}
        <2>4. B \in SUBSET DOMAIN types /\ Plain(types) \subseteq B /\ current' \in B
            BY <1>1, <1>5, <2>2
        <2> HIDE DEF B
        <2>5. B \subseteq Back(types, B) /\ Back(types, Plain(types)) \subseteq Back(types, B)
            <3>1. B \subseteq Back(types, B)
                BY <2>4, BackClosed
            <3> QED
                BY <1>5, <2>4, <3>1, BackWithin
        <2>6. Objects \ Unknown' \subseteq Back(types, B)
            BY <2>2, <2>3, <2>4, <2>5
        <2>7. Begun' = B
            BY <2>1 DEF Begun, B
        <2>8. \A t \in Objects : ~ Undefined(t)
            BY <2>1 DEF ResolveInv
        <2> QED
            BY <1>2, <2>1, <2>6, <2>7, <2>8 DEF ResolveInv, Undefined, IsReference
    <1>10. CASE WalkOn \/ WalkEnds
        <2>1. pc = "walk" /\ Unknown' = Unknown
            BY <1>10 DEF WalkOn, WalkEnds, Unknown
        <2>2. /\ current \in Objects /\ IsReference(current) /\ types[current].meaning \in Objects
            BY <2>1, WalkMeets
        <2> DEFINE B == Plain(types) \cup {current}
                   next == types[current].meaning
        <2>3. /\ Objects \ Unknown \subseteq Back(types, B) /\ B \in SUBSET DOMAIN types
              /\ \A t \in Objects : ~ Undefined(t)
            BY <1>1, <1>5, <2>1, <2>2 DEF ResolveInv, Begun
        <2>4. \A C \in SUBSET DOMAIN types : Plain(types) \subseteq C /\ next \in Back(types, C) =>
                  Back(types, B) \subseteq Back(types, C)
            <3> SUFFICES ASSUME NEW C \in SUBSET DOMAIN types, Plain(types) \subseteq C,
                                next \in Back(types, C)
                         PROVE  B \subseteq Back(types, C)
                BY <2>3, BackWithin
            <3>1. C \subseteq Back(types, C) /\ Closed(types, Back(types, C))
                BY BackClosed
            <3>2. current \in Back(types, C)
                BY <1>1, <2>2, <3>1 DEF Closed, IsReference
            <3> QED
                BY <3>1, <3>2
        <2>5. CASE WalkOn /\ types' = CircleBroken /\ pc' = "circular"
            <3>1. /\ {current} \in SUBSET Objects /\ \A t \in {current} : IsReference(t)
                  /\ types' = [t \in DOMAIN types |->
                        IF t \in {current} THEN [types[t] EXCEPT !.meaning = error_type] ELSE types[t]]
                BY <2>1, <2>2, <2>5, CircleBrokenIs
            <3>2. \A t \in Objects :
                    /\ types'[t].kind = types[t].kind
                    /\ types'[t].meaning = IF t = current THEN error_type ELSE types[t].meaning
                BY <1>1, <3>1, MeaningChanged
            <3>3. Back(types, B) \subseteq Back(types', Plain(types'))
                <4> DEFINE S == Back(types', Plain(types'))
                <4>1. S \in SUBSET Objects /\ Plain(types) \subseteq S /\ Closed(types', S)
                    BY <1>3, <1>4, <1>5, <1>1, BackClosed
                <4> HIDE DEF S
                <4>2. current \in S
                    <5>1. error_type \in S
                        BY <1>1, <4>1
                    <5>2. types'[current].kind = "reference" /\ types'[current].meaning = error_type
                        BY <2>2, <3>2 DEF IsReference
                    <5> QED
                        BY <1>3, <2>2, <4>1, <5>1, <5>2 DEF Closed
                <4>3. Closed(types, S)
                    BY <1>1, <1>3, <3>2, <4>1, <4>2 DEF Closed
                <4>4. B \subseteq S
                    BY <4>1, <4>2
                <4> QED
                    BY <1>1, <2>3, <4>1, <4>3, <4>4, BackClosed DEF S
            <3>4. \A t \in Objects : types'[t].kind = "reference" => types'[t].meaning # NULL
                BY <1>1, <2>3, <3>2 DEF Undefined, IsReference
            <3>5. Begun' = Plain(types')
                BY <2>5 DEF Begun
            <3> QED
                BY <1>2, <2>1, <2>3, <2>5, <3>3, <3>4, <3>5 DEF ResolveInv, Undefined, IsReference
        <2>6. CASE WalkOn /\ current' = next /\ UNCHANGED <<types, pc>>
            <3> DEFINE C == Plain(types) \cup {next}
            <3>1. C \in SUBSET DOMAIN types /\ next \in C /\ Plain(types) \subseteq C
                BY <1>1, <1>5, <2>2
            <3> HIDE DEF C
            <3>2. next \in Back(types, C)
                BY <3>1, BackClosed
            <3>3. Objects \ Unknown \subseteq Back(types, C)
                BY <2>3, <2>4, <3>1, <3>2
            <3>4. Begun' = C
                BY <2>1, <2>6 DEF Begun, C
            <3> QED
                BY <1>2, <2>1, <2>3, <2>6, <3>3, <3>4 DEF ResolveInv, Undefined, IsReference
        <2>7. CASE WalkEnds
            <3>1. types' = types /\ pc' = "circular" /\ ~ IsReference(next)
                BY <2>7 DEF WalkEnds
            <3>2. next \in Plain(types)
                BY <1>1, <2>2, <3>1
            <3>3. next \in Back(types, Plain(types))
                BY <1>5, <3>2, BackClosed
            <3>4. Objects \ Unknown \subseteq Back(types, Plain(types))
                BY <1>5, <2>3, <2>4, <3>3
            <3> QED
                BY <1>2, <2>1, <2>3, <3>1, <3>4 DEF ResolveInv, Begun, Undefined, IsReference
        <2> QED
            BY <1>10, <2>5, <2>6, <2>7 DEF WalkOn
    <1> QED
        BY <1>8, <1>9, <1>10

LEMMA ResolveRest ==
    ASSUME TypeInv, ResolveInv, BatchEnds \/ BatchDone \/ NewLayer \/ RemoveLayer \/ UNCHANGED vars
    PROVE  ResolveInv'
    <1>1. UNCHANGED <<types, unknown_types>>
        BY DEF BatchEnds, BatchDone, NewLayer, RemoveLayer, vars
    <1>2. /\ Objects' = Objects /\ Unknown' = Unknown
          /\ \A t : Undefined(t)' <=> Undefined(t)
        BY <1>1 DEF Objects, Unknown, Undefined, IsReference
    <1>3. CASE UNCHANGED <<pc, current>>
        <2>1. Begun' = Begun
            BY <1>1, <1>3 DEF Begun
        <2> QED
            BY <1>1, <1>2, <1>3, <2>1 DEF ResolveInv
    <1>4. CASE BatchEnds
        <2>1. pc = "declare" /\ pc' = "undefined"
            BY <1>4 DEF BatchEnds
        <2>2. Begun' = Begun
            BY <1>1, <2>1 DEF Begun
        <2> QED
            BY <1>1, <1>2, <2>1, <2>2 DEF ResolveInv
    <1>5. CASE BatchDone
        <2>1. pc = "circular" /\ pc' = "declare"
            BY <1>5 DEF BatchDone
        <2>2. Begun' = Begun
            BY <1>1, <2>1 DEF Begun
        <2> QED
            BY <1>1, <1>2, <2>1, <2>2 DEF ResolveInv
    <1> QED
        BY <1>3, <1>4, <1>5 DEF NewLayer, RemoveLayer, vars

LEMMA ResolveNext == TypeInv /\ ResolveInv /\ [Next]_vars => ResolveInv'
    <1> SUFFICES ASSUME TypeInv, ResolveInv, [Next]_vars PROVE ResolveInv'
        OBVIOUS
    <1>1. ASSUME NEW name \in TypeIds, NEW kind \in {"name", "complex"}, NEW part \in TypeIds \cup {IntName},
                 Declare(name, kind, part)
          PROVE  ResolveInv'
        BY <1>1, ResolveDeclare DEF AllNames
    <1>2. CASE RejectUndefined \/ StartWalk \/ WalkOn \/ WalkEnds
        BY <1>2, ResolveLoops
    <1>3. CASE BatchEnds \/ BatchDone \/ NewLayer \/ RemoveLayer \/ UNCHANGED vars
        BY <1>3, ResolveRest
    <1> QED
        BY <1>1, <1>2, <1>3 DEF Next

LEMMA AlwaysResolve == Spec => [](TypeInv /\ ResolveInv)
    <1>1. Init => TypeInv /\ ResolveInv
        BY TypeInit, ResolveInit
    <1>2. (TypeInv /\ ResolveInv) /\ [Next]_vars => (TypeInv /\ ResolveInv)'
        BY TypeNext, ResolveNext
    <1> QED
        BY <1>1, <1>2, PTL DEF Spec

\* Objects, maps and the state of the loops have their types: nothing refers
\* to an object that does not exist, and the two maps have the same layers.
THEOREM TypeCorrect == Spec => []TypeOK
    <1>1. TypeInv => TypeOK
        <2> SUFFICES ASSUME TypeInv PROVE TypeOK
            OBVIOUS
        <2>1. \A t \in Objects :
                 /\ types[t].kind \in {"int", "error", "reference", "complex"}
                 /\ types[t].meaning \in Objects \cup {NULL}
                 /\ \A k \in DOMAIN types[t].part_types : types[t].part_types[k] \in Objects
            BY ObjectsAre DEF TypeInv, TypesInv, TypeObjects, Kinds
        <2>2. /\ \A k \in DOMAIN typenames : \A x \in DOMAIN typenames[k] : typenames[k][x] \in Objects
              /\ Len(env) = Len(typenames)
            BY MapType DEF TypeInv, NamesInv
        <2>3. Unknown \subseteq Objects /\ pc \in {"declare", "undefined", "circular", "walk"}
            BY DEF TypeInv, LoopInv, Unknown
        <2> QED
            BY <2>1, <2>2, <2>3 DEF TypeOK
    <1> QED
        BY <1>1, AlwaysResolve, PTL

\* Between batches every reference leads to a type, in wrong programs too:
\* resolve (types.cpp) never meets a reference without a meaning and never
\* runs in a circle.
THEOREM ReferencesResolve == Spec => []EverythingResolves
    <1>1. TypeInv /\ ResolveInv => EverythingResolves
        <2> SUFFICES ASSUME TypeInv, ResolveInv, BetweenBatches, NEW t \in Objects
                     PROVE  Resolved(t) # NULL
            BY DEF EverythingResolves
        <2>1. pc = "declare" /\ unknown_types = <<>>
            BY DEF TypeInv, LoopInv, BetweenBatches
        <2>2. Unknown = {}
            BY <2>1 DEF Unknown
        <2>3. t \in Back(types, Plain(types))
            BY <2>1, <2>2 DEF ResolveInv, Begun
        <2> QED
            BY <2>3, ResolvedPlain DEF TypeInv
    <1> QED
        BY <1>1, AlwaysResolve, PTL
-----------------------------------------------------------------------------
(* Names of a batch without errors. *)

NamesMean == OldNames /\ NewNames /\ \A i \in DOMAIN batch : Declared(i)

LEMMA HereIs ==
    ASSUME TypeInv
    PROVE  /\ Here \in Nat \ {0} /\ Here = Len(typenames) /\ Here = Len(env)
           /\ typenames \in Maps /\ env \in Maps
           /\ \A k \in 1 .. Here : typenames[k] \in Layers /\ env[k] \in Layers
           /\ \A k \in 1 .. Here : DOMAIN typenames[k] \subseteq AllNames /\ DOMAIN env[k] \subseteq AllNames
           /\ \A k \in 1 .. Here : \A x \in DOMAIN typenames[k] : typenames[k][x] \in Objects
    <1>1. /\ Here \in Nat \ {0} /\ Here = Len(typenames) /\ Here = Len(env)
          /\ typenames \in Maps /\ env \in Maps
          /\ \A k \in 1 .. Here : typenames[k] \in Layers /\ env[k] \in Layers
        BY MapType DEF TypeInv, NamesInv, Here
    <1>2. \A k \in 1 .. Here : DOMAIN typenames[k] \subseteq AllNames /\ DOMAIN env[k] \subseteq AllNames
        BY <1>1, LayerType
    <1> QED
        BY <1>1, <1>2 DEF TypeInv, NamesInv

\* A name that neither gets its meaning in the batch nor waits is found where it
\* was declared.
LEMMA FoundOutside ==
    ASSUME TypeInv, NamesMean, NEW x \in AllNames, ~ Declares(x), ~ Waits(x),
           lookup(typenames, x, NULL) # NULL
    PROVE  \E k \in 1 .. Here :
              /\ Innermost(env, x, k) /\ x \in DOMAIN typenames[k]
              /\ lookup(typenames, x, NULL) = typenames[k][x]
              /\ \A none : lookup(env, x, none) = env[k][x]
    <1>1. PICK k : Innermost(typenames, x, k) /\ lookup(typenames, x, NULL) = typenames[k][x]
        BY LookupCases, HereIs
    <1>2. k \in 1 .. Here /\ x \in DOMAIN typenames[k] /\ \A j \in k + 1 .. Here : x \notin DOMAIN typenames[j]
        BY <1>1, HereIs DEF Innermost
    <1>3. x \in DOMAIN env[k]
        <2>1. CASE k = Here
            BY <1>2, <2>1, HereIs DEF Waits, Declares, LastLayer
        <2>2. CASE k # Here
            <3>1. k \in 1 .. Here - 1
                BY <1>2, <2>2, HereIs
            <3> QED
                BY <1>2, <3>1 DEF NamesMean, NewNames
        <2> QED
            BY <2>1, <2>2
    <1>4. \A j \in k + 1 .. Here : x \notin DOMAIN env[j]
        <2>1. \A j \in k + 1 .. Here : j \in 1 .. Here
            BY <1>2, HereIs
        <2> QED
            BY <1>2, <2>1, HereIs DEF NamesMean, OldNames
    <1>5. Innermost(env, x, k)
        BY <1>2, <1>3, <1>4, HereIs DEF Innermost
    <1> QED
        BY <1>1, <1>2, <1>5, HereIs, LookupFinds

LEMMA WaitingNames ==
    ASSUME TypeInv, NamesMean, NEW x \in AllNames, Waits(x)
    PROVE  /\ \A none : lookup(env, x, none) = none
           /\ Undefined(typenames[Here][x]) /\ UsedInBatch(x)
           /\ lookup(typenames, x, NULL) = typenames[Here][x]
    <1>1. \A k \in 1 .. Len(env) : x \notin DOMAIN env[k]
        BY DEF NamesMean, NewNames
    <1>2. x \in DOMAIN typenames[Here]
        BY DEF Waits
    <1> QED
        BY <1>1, <1>2, HereIs, LookupFindsNone, LookupType DEF NamesMean, NewNames, TypeInv

\* What earlier batches declared.
LEMMA EnvFinds ==
    ASSUME TypeInv, NamesMean, NEW x
    PROVE  /\ lookup(env, x, NULL) # NULL =>
                /\ lookup(env, x, error_type) = lookup(env, x, NULL)
                /\ lookup(env, x, error_type) \in Plain(types)
                /\ lookup(env, x, error_type) # error_type
           /\ lookup(env, x, NULL) = NULL =>
                /\ \A k \in 1 .. Here : x \notin DOMAIN env[k]
                /\ \A none : lookup(env, x, none) = none
    <1>1. env \in Maps /\ Len(env) = Here
        BY HereIs
    <1>2. CASE \E i : Innermost(env, x, i) /\ lookup(env, x, NULL) = env[i][x]
        <2>1. PICK i : Innermost(env, x, i)
            BY <1>2
        <2>2. i \in 1 .. Len(env) /\ x \in DOMAIN env[i] /\ \A none : lookup(env, x, none) = env[i][x]
            BY <1>1, <2>1, LookupFinds DEF Innermost
        <2>3. env[i][x] \in Plain(types) /\ env[i][x] # error_type
            BY <2>2 DEF NamesMean, OldNames
        <2>4. env[i][x] # NULL
            <3>1. DOMAIN types = Objects
                BY ObjectsAre DEF TypeInv
            <3> QED
                BY <2>3, <3>1 DEF Plain, Objects, NULL
        <2> QED
            BY <2>2, <2>3, <2>4
    <1>3. CASE /\ \A i \in 1 .. Len(env) : x \notin DOMAIN env[i]
               /\ lookup(env, x, NULL) = NULL
        BY <1>1, <1>3, LookupFindsNone
    <1> QED
        BY <1>1, <1>2, <1>3, LookupCases

\* A name that no earlier batch declared, or that has been given its meaning in
\* this one, is in the innermost scope.
LEMMA FoundHere ==
    ASSUME TypeInv, NamesMean, NEW x, lookup(typenames, x, NULL) # NULL,
           lookup(env, x, NULL) = NULL \/ Declares(x)
    PROVE  x \in DOMAIN typenames[Here] /\ lookup(typenames, x, NULL) = typenames[Here][x]
    <1>1. CASE Declares(x)
        <2>1. PICK i \in DOMAIN batch : batch[i].name = x
            BY <1>1 DEF Declares, InBatch
        <2>2. x \in DOMAIN typenames[Here]
            BY <2>1 DEF NamesMean, Declared
        <2> QED
            BY <2>2, LookupType DEF TypeInv
    <1>2. CASE lookup(env, x, NULL) = NULL
        <2>1. PICK k : Innermost(typenames, x, k)
            BY LookupCases, HereIs
        <2>2. k \in 1 .. Here /\ x \in DOMAIN typenames[k]
            BY <2>1, HereIs DEF Innermost
        <2>3. \A j \in 1 .. Here : x \notin DOMAIN env[j]
            BY <1>2, EnvFinds
        <2>4. k = Here
            <3> SUFFICES ASSUME k # Here PROVE FALSE
                OBVIOUS
            <3>1. k \in 1 .. Here - 1
                BY <2>2, HereIs
            <3> QED
                BY <2>2, <2>3, <3>1 DEF NamesMean, NewNames
        <2> QED
            BY <2>2, <2>4, LookupType DEF TypeInv
    <1> QED
        BY <1>1, <1>2

\* A name that is declared again keeps its meaning.
LEMMA DeclaredBefore ==
    ASSUME TypeInv, NamesMean, NEW x, InBatch(x), ~ Declares(x)
    PROVE  lookup(env, x, error_type) # error_type
    <1>1. x \in DOMAIN env[Here] /\ Here \in 1 .. Here
        BY HereIs DEF Declares, LastLayer
    <1>2. lookup(env, x, NULL) # NULL
        BY <1>1, EnvFinds
    <1> QED
        BY <1>2, EnvFinds

LEMMA FirstOnly ==
    ASSUME BatchInv, ~ Twice
    PROVE  \A i \in DOMAIN batch : InBatch(batch[i].name) /\ First(batch[i].name) = i
    BY FirstIs DEF Twice, InBatch

LEMMA LeadsBack ==
    ASSUME TypesInv, NEW t \in Objects, NEW o, Leads(t, o),
           NEW B \in SUBSET Objects, o \in Back(types, B)
    PROVE  t \in Back(types, B)
    <1>1. DOMAIN types = Objects
        BY ObjectsAre
    <1> QED
        BY <1>1, BackClosed DEF Leads, Closed, IsReference

\* What a name means by the rules of the language is where its references lead.
LEMMA MeaningsLead ==
    ASSUME TypeInv, NamesMean, ~ Twice
    PROVE  \A n \in Nat : \A x \in AllNames :
              lookup(typenames, x, NULL) # NULL /\ Meanings[n][x] # error_type =>
                  /\ Meanings[n][x] \in Plain(types)
                  /\ lookup(typenames, x, NULL) \in Back(types, {Meanings[n][x]})
    <1> DEFINE Right(n, x) ==
                  lookup(typenames, x, NULL) # NULL /\ Meanings[n][x] # error_type =>
                      /\ Meanings[n][x] \in Plain(types)
                      /\ lookup(typenames, x, NULL) \in Back(types, {Meanings[n][x]})
               S == {n \in Nat : \A x \in AllNames : Right(n, x)}
    <1>1. /\ DOMAIN types = Objects /\ Plain(types) = {t \in Objects : ~ IsReference(t)}
          /\ NamesInv /\ BatchInv /\ TypesInv
        BY ObjectsAre DEF TypeInv
    <1>2. ASSUME NEW n \in Nat, NEW x \in AllNames, ~ Declares(x)
          PROVE  Right(n, x)
        <2> SUFFICES ASSUME lookup(typenames, x, NULL) # NULL, Meanings[n][x] # error_type
                     PROVE  /\ Meanings[n][x] \in Plain(types)
                            /\ lookup(typenames, x, NULL) \in Back(types, {Meanings[n][x]})
            OBVIOUS
        <2>1. Meanings[n][x] = lookup(env, x, error_type)
            BY <1>1, <1>2, MeaningsFacts DEF Through, Directly
        <2>2. ~ Waits(x)
            BY <2>1, WaitingNames
        <2>3. PICK k \in 1 .. Here : /\ Innermost(env, x, k)
                                     /\ lookup(typenames, x, NULL) = typenames[k][x]
                                     /\ lookup(env, x, error_type) = env[k][x]
            BY <1>2, <2>2, FoundOutside
        <2>4. k \in 1 .. Len(env) /\ x \in DOMAIN env[k]
            BY <2>3 DEF Innermost
        <2> QED
            BY <2>1, <2>3, <2>4 DEF NamesMean, OldNames
    <1>3. ASSUME NEW x \in AllNames, Declares(x)
          PROVE  LET b == batch[First(x)] IN
                 /\ Declared(First(x)) /\ First(x) \in DOMAIN batch /\ b.name = x
                 /\ b.part \in AllNames /\ b.object \in Objects
                 /\ lookup(typenames, x, NULL) \in Objects
                 /\ Leads(lookup(typenames, x, NULL), b.object)
        <2>1. First(x) \in DOMAIN batch /\ batch[First(x)].name = x
            BY <1>1, <1>3, FirstIs DEF Declares
        <2>2. Declared(First(x))
            BY <2>1 DEF NamesMean
        <2>3. x \in DOMAIN typenames[Here] /\ Leads(typenames[Here][x], batch[First(x)].object)
            BY <1>3, <2>1, <2>2 DEF Declared
        <2>4. typenames[Here][x] \in Objects /\ lookup(typenames, x, NULL) = typenames[Here][x]
            BY <1>1, <2>3, LookupType, HereIs
        <2> QED
            BY <1>1, <2>1, <2>2, <2>3, <2>4, BatchType
    <1>4. ASSUME NEW n \in Nat, NEW x \in AllNames, Declares(x), ~ Through(x)
          PROVE  Right(n, x)
        <2> SUFFICES ASSUME Meanings[n][x] # error_type
                     PROVE  /\ Meanings[n][x] \in Plain(types)
                            /\ lookup(typenames, x, NULL) \in Back(types, {Meanings[n][x]})
            OBVIOUS
        <2> DEFINE o == batch[First(x)].object
                   m == Directly(x)
        <2>1. Meanings[n][x] = m
            BY <1>1, <1>4, MeaningsFacts
        <2>2. m \in Plain(types) /\ o \in Back(types, {m})
            <3>1. CASE batch[First(x)].kind # "name"
                <4>1. m = o /\ batch[First(x)].kind = "complex"
                    BY <1>1, <1>3, <1>4, <3>1, BatchType DEF Directly
                <4>2. o \in Plain(types)
                    BY <1>1, <1>3, <1>4, <4>1 DEF Declared
                <4>3. {o} \in SUBSET DOMAIN types
                    BY <1>1, <4>2
                <4> HIDE DEF o, m
                <4> QED
                    BY <4>1, <4>2, <4>3, BackClosed
            <3>2. CASE batch[First(x)].kind = "name"
                <4>1. KnownBefore(First(x)) /\ m = lookup(env, batch[First(x)].part, error_type)
                    BY <1>4, <3>2 DEF Directly, Through
                <4>2. o \in Back(types, {m})
                    BY <1>3, <1>4, <3>2, <4>1 DEF Declared, PartFound, PartObject
                <4>3. m \in Plain(types)
                    BY <4>1, EnvFinds DEF KnownBefore
                <4> QED
                    BY <4>2, <4>3
            <3> QED
                BY <3>1, <3>2
        <2>3. {m} \in SUBSET Objects
            BY <1>1, <2>2
        <2>4. lookup(typenames, x, NULL) \in Objects /\ Leads(lookup(typenames, x, NULL), o)
            BY <1>3, <1>4
        <2> HIDE DEF o, m
        <2>5. lookup(typenames, x, NULL) \in Back(types, {m})
            BY <1>1, <2>2, <2>3, <2>4, LeadsBack
        <2> QED
            BY <2>1, <2>2, <2>5
    <1>5. 0 \in S
        <2>1. \A x \in AllNames : Through(x) => Meanings[0][x] = error_type
            BY <1>1, MeaningsFacts
        <2> QED
            BY <1>2, <1>4, <2>1
    <1>6. ASSUME NEW n \in Nat, n \in S
          PROVE  n + 1 \in S
        <2> SUFFICES ASSUME NEW x \in AllNames, Through(x)
                     PROVE  Right(n + 1, x)
            BY <1>2, <1>4
        <2> SUFFICES ASSUME Meanings[n + 1][x] # error_type
                     PROVE  /\ Meanings[n + 1][x] \in Plain(types)
                            /\ lookup(typenames, x, NULL) \in Back(types, {Meanings[n + 1][x]})
            OBVIOUS
        <2> DEFINE p == batch[First(x)].part
        <2>1. Meanings[n + 1][x] = Meanings[n][p] /\ Declares(x)
            BY <1>1, MeaningsFacts DEF Through
        <2>2. p \in AllNames /\ lookup(typenames, p, NULL) # NULL /\ batch[First(x)].object = lookup(typenames, p, NULL)
            BY <1>3, <2>1 DEF Declared, PartFound, PartObject, Through
        <2>3. Meanings[n][p] \in Plain(types) /\ lookup(typenames, p, NULL) \in Back(types, {Meanings[n][p]})
            BY <1>6, <2>1, <2>2
        <2>4. {Meanings[n][p]} \in SUBSET Objects
            BY <1>1, <2>3
        <2> HIDE DEF p
        <2>5. lookup(typenames, x, NULL) \in Back(types, {Meanings[n][p]})
            BY <1>1, <1>3, <2>1, <2>2, <2>3, <2>4, LeadsBack
        <2> QED
            BY <2>1, <2>3, <2>5
    <1>7. Nat \subseteq S
        <2> HIDE DEF S
        <2> QED
            BY <1>5, <1>6, SetInduction
    <1> QED
        BY <1>7

LEMMA MeaningsStay ==
    ASSUME NamesInv, BatchInv
    PROVE  \A n \in Nat : \A x \in AllNames :
              Meanings[n][x] # error_type => Meanings[n + 1][x] = Meanings[n][x]
    <1> DEFINE S == {n \in Nat : \A x \in AllNames :
                        Meanings[n][x] # error_type => Meanings[n + 1][x] = Meanings[n][x]}
    <1>1. \A n \in Nat : \A x \in AllNames :
             ~ Through(x) => Meanings[n + 1][x] = Meanings[n][x]
        BY MeaningsFacts
    <1>2. 0 \in S
        BY <1>1, MeaningsFacts
    <1>3. ASSUME NEW n \in Nat, n \in S
          PROVE  n + 1 \in S
        <2> SUFFICES ASSUME NEW x \in AllNames, Through(x),
                            Meanings[n + 1][x] # error_type
                     PROVE  Meanings[(n + 1) + 1][x] = Meanings[n + 1][x]
            BY <1>1
        <2> DEFINE p == batch[First(x)].part
        <2>1. Meanings[n + 1][x] = Meanings[n][p] /\ Meanings[(n + 1) + 1][x] = Meanings[n + 1][p]
            BY MeaningsFacts
        <2>2. p \in AllNames
            BY FirstIs, BatchType DEF Through, Declares
        <2> QED
            BY <1>3, <2>1, <2>2
    <1>4. Nat \subseteq S
        <2> HIDE DEF S
        <2> QED
            BY <1>2, <1>3, SetInduction
    <1> QED
        BY <1>4

\* When the loops have found no error every name of the batch has a meaning.
LEMMA AllMean ==
    ASSUME TypeInv, ResolveInv, LoopsDone, NamesMean, InOrder, ~ Twice
    PROVE  \A i \in DOMAIN batch :
              Meaning(batch[i].name) # error_type /\ PartMeaning(i) # error_type
    <1> PICK n \in Nat : n = Len(batch)
        BY BatchType DEF TypeInv
    <1> DEFINE D == DOMAIN batch
               ok(k) == {i \in D : Meanings[k][batch[i].name] # error_type}
               f == [k \in Nat |-> ok(k)]
               Then(A) == {i \in D :
                              \/ ~ Through(batch[i].name)
                              \/ ~ InBatch(batch[i].part) /\ lookup(env, batch[i].part, error_type) # error_type
                              \/ \E j \in A : batch[j].name = batch[i].part}
               G == [A \in SUBSET D |-> A \cup Then(A)]
    <1>1. /\ DOMAIN types = Objects /\ Plain(types) = {t \in Objects : ~ IsReference(t)}
          /\ NamesInv /\ BatchInv /\ TypesInv
        BY ObjectsAre DEF TypeInv
    <1>2. /\ \A t \in Objects : ~ Undefined(t)
          /\ Objects \subseteq Back(types, Plain(types))
        <2>1. pc = "circular" /\ Unknown = {}
            BY DEF LoopsDone, Unknown
        <2> QED
            BY <2>1 DEF ResolveInv, Begun
    <1>3. \A x \in AllNames : ~ Waits(x)
        <2> SUFFICES ASSUME NEW x \in AllNames, Waits(x) PROVE FALSE
            OBVIOUS
        <2>1. Undefined(typenames[Here][x]) /\ typenames[Here][x] \in Objects
            BY WaitingNames, HereIs DEF Waits
        <2> QED
            BY <1>2, <2>1
    <1>4. \A i \in D :
             /\ batch[i].name \in AllNames /\ batch[i].part \in AllNames /\ batch[i].object \in Objects
             /\ batch[i].kind \in {"name", "complex"}
             /\ InBatch(batch[i].name) /\ First(batch[i].name) = i
             /\ Declared(i)
        BY <1>1, BatchType, FirstOnly DEF NamesMean
    <1>5. \A x : InBatch(x) => \E j \in D : batch[j].name = x
        BY DEF InBatch
    <1>6. \A i \in D : ~ InBatch(batch[i].part) => lookup(env, batch[i].part, error_type) # error_type
        <2> SUFFICES ASSUME NEW i \in D, ~ InBatch(batch[i].part)
                     PROVE  lookup(env, batch[i].part, error_type) # error_type
            OBVIOUS
        <2>1. CASE KnownBefore(i)
            BY <2>1, EnvFinds DEF KnownBefore
        <2>2. CASE ~ KnownBefore(i)
            <3>1. lookup(typenames, batch[i].part, NULL) # NULL
                BY <1>4, <2>2 DEF Declared, PartFound
            <3>2. PICK k \in 1 .. Here : /\ Innermost(env, batch[i].part, k)
                                         /\ lookup(env, batch[i].part, error_type) = env[k][batch[i].part]
                BY <1>3, <1>4, <3>1, FoundOutside DEF Declares
            <3> QED
                BY <3>2 DEF Innermost, NamesMean, OldNames
        <2> QED
            BY <2>1, <2>2
    <1>7. G[ok(n)] = ok(n)
        <2>1. Grows(G, D)
            BY DEF Grows
        <2>2. ASSUME NEW k \in Nat
              PROVE  ok(k + 1) = ok(k) \cup Then(ok(k))
            <3>1. ok(k) \subseteq ok(k + 1)
                BY <1>1, <1>4, MeaningsStay
            <3>2. ASSUME NEW i \in D, ~ Through(batch[i].name)
                  PROVE  i \in ok(k + 1)
                <4>1. Meanings[k + 1][batch[i].name] = Directly(batch[i].name)
                    BY <1>1, <1>4, <3>2, MeaningsFacts
                <4>2. Directly(batch[i].name) # error_type
                    <5>1. CASE ~ Declares(batch[i].name)
                        BY <1>4, <5>1, DeclaredBefore DEF Directly
                    <5>2. CASE Declares(batch[i].name) /\ batch[i].kind = "complex"
                        BY <1>4, <5>2 DEF Declared, Directly
                    <5>3. CASE Declares(batch[i].name) /\ batch[i].kind = "name"
                        <6>1. KnownBefore(i) /\ Directly(batch[i].name) = lookup(env, batch[i].part, error_type)
                            BY <1>4, <3>2, <5>3 DEF Through, Directly
                        <6> QED
                            BY <6>1, EnvFinds DEF KnownBefore
                    <5> QED
                        BY <1>4, <5>1, <5>2, <5>3
                <4> QED
                    BY <4>1, <4>2
            <3>3. ASSUME NEW i \in D, Through(batch[i].name)
                  PROVE  i \in ok(k + 1) <=> i \in Then(ok(k))
                <4>1. Meanings[k + 1][batch[i].name] = Meanings[k][batch[i].part]
                    <5>1. batch[i].name \in AllNames /\ First(batch[i].name) = i
                        BY <1>4, <3>3
                    <5>2. \A x \in AllNames : Through(x) =>
                              Meanings[k + 1][x] = Meanings[k][batch[First(x)].part]
                        BY <1>1, MeaningsFacts
                    <5> QED
                        BY <3>3, <5>1, <5>2
                <4>2. ~ InBatch(batch[i].part) =>
                          Meanings[k][batch[i].part] = lookup(env, batch[i].part, error_type)
                    BY <1>1, <1>4, MeaningsFacts DEF Through, Directly, Declares
                <4>3. \A j \in D : batch[j].name = batch[i].part =>
                          (j \in ok(k) <=> Meanings[k][batch[i].part] # error_type)
                    OBVIOUS
                <4>4. ok(k) \subseteq D
                    OBVIOUS
                <4>5. i \in ok(k + 1) <=> Meanings[k][batch[i].part] # error_type
                    BY <4>1
                <4>6. i \in Then(ok(k)) <=>
                          \/ ~ InBatch(batch[i].part) /\ lookup(env, batch[i].part, error_type) # error_type
                          \/ \E j \in ok(k) : batch[j].name = batch[i].part
                    BY <3>3
                <4> HIDE DEF ok, Then
                <4>7. CASE InBatch(batch[i].part)
                    <5>1. PICK j \in D : batch[j].name = batch[i].part
                        BY <1>5, <4>7
                    <5> QED
                        BY <4>3, <4>4, <4>5, <4>6, <4>7, <5>1
                <4>8. CASE ~ InBatch(batch[i].part)
                    <5>1. \A j \in D : batch[j].name # batch[i].part
                        BY <4>8 DEF InBatch
                    <5> QED
                        BY <4>2, <4>4, <4>5, <4>6, <4>8, <5>1
                <4> QED
                    BY <4>7, <4>8
            <3>4. ok(k + 1) \subseteq D /\ Then(ok(k)) \subseteq D
                OBVIOUS
            <3>5. \A i \in D : ~ Through(batch[i].name) => i \in Then(ok(k))
                OBVIOUS
            <3>6. \A i \in D : i \in ok(k + 1) <=> i \in Then(ok(k))
                <4> HIDE DEF ok, Then, D
                <4> QED
                    BY <1>4, <3>2, <3>3, <3>5
            <3> HIDE DEF ok, Then, D
            <3> QED
                BY <3>1, <3>4, <3>6
        <2>3. Orbit(f, G, SUBSET D)
            <3>1. f \in [Nat -> SUBSET D]
                OBVIOUS
            <3>2. \A k \in Nat : ok(k) \in SUBSET D
                OBVIOUS
            <3>3. \A A \in SUBSET D : G[A] = A \cup Then(A)
                OBVIOUS
            <3>4. \A k \in Nat : f[k] = ok(k) /\ f[k + 1] = ok(k + 1)
                OBVIOUS
            <3> HIDE DEF ok, Then, G, D, f
            <3>5. ASSUME NEW k \in Nat
                  PROVE  f[k + 1] = G[f[k]]
                <4>1. G[ok(k)] = ok(k) \cup Then(ok(k))
                    BY <3>2, <3>3
                <4> QED
                    BY <2>2, <3>4, <4>1
            <3> QED
                BY <3>1, <3>5 DEF Orbit
        <2>4. IsFiniteSet(D) /\ Cardinality(D) = n
            <3>1. D = 1 .. n
                BY <1>1, BatchType
            <3>2. IsFiniteSet(1 .. n) /\ Cardinality(1 .. n) = n
                <4>1. 1 \in Int /\ n \in Int
                    OBVIOUS
                <4>2. IsFiniteSet(1 .. n) /\ Cardinality(1 .. n) = IF 1 > n THEN 0 ELSE n - 1 + 1
                    BY <4>1, FS_Interval, Zenon
                <4> QED
                    BY <4>2
            <3> QED
                BY <3>1, <3>2
        <2>5. G[f[n]] = f[n]
            <3> HIDE DEF G, f, D
            <3> QED
                BY <2>1, <2>3, <2>4, GrowthStops
        <2> QED
            BY <2>5
    <1> DEFINE W == ok(n)
    <1>8. /\ W \in SUBSET D
          /\ \A i \in D : ~ Through(batch[i].name) => i \in W
          /\ \A i \in D : ~ InBatch(batch[i].part) => i \in W
          /\ \A i \in D : \A j \in W : batch[j].name = batch[i].part => i \in W
          /\ \A i \in D : i \in W <=> Meanings[n][batch[i].name] # error_type
        <2>1. W \in SUBSET D /\ \A i \in D : i \in W <=> Meanings[n][batch[i].name] # error_type
            OBVIOUS
        <2>2. \A A \in SUBSET D : G[A] = A \cup Then(A)
            OBVIOUS
        <2>3. Then(W) \subseteq W
            <3> HIDE DEF ok, G, Then, D
            <3> QED
                BY <1>7, <2>1, <2>2
        <2> HIDE DEF ok
        <2> QED
            BY <1>6, <2>1, <2>3
    <1> HIDE DEF ok, G, f, W
    <1> DEFINE S == {t \in Objects : \A i \in D :
                        typenames[Here][batch[i].name] = t \/ batch[i].object = t => i \in W}
    <1>9. ASSUME NEW t \in Objects, ~ IsReference(t) \/ types[t].meaning \in S
          PROVE  t \in S
        <2>1. \A j \in D : IsReference(t) /\ types[t].meaning = batch[j].object => j \in W
            BY <1>9
        <2> HIDE DEF S
        <2>2. \A i \in D : batch[i].object = t => i \in W
            <3> DEFINE bad == {i \in D : batch[i].object = t /\ i \notin W}
            <3> SUFFICES ASSUME bad # {} PROVE FALSE
                OBVIOUS
            <3>1. bad \in SUBSET Nat
                BY <1>1, BatchType
            <3>2. PICK i \in bad : \A j \in bad : i <= j
                <4> HIDE DEF bad
                <4> QED
                    BY <3>1, LeastNatural
            <3>3. /\ i \in D /\ Through(batch[i].name) /\ InBatch(batch[i].part)
                  /\ batch[i].object = t /\ i \notin W
                BY <1>4, <1>8, <3>2
            <3>10. batch[i].kind = "name" /\ ~ KnownBefore(i)
                BY <1>4, <3>3 DEF Through
            <3>4. PICK j \in D : batch[j].name = batch[i].part
                BY <1>5, <3>3
            <3>5. j \notin W
                BY <1>8, <3>3, <3>4
            <3>11. Declares(batch[j].name)
                BY <1>8, <3>5 DEF Through
            <3>6. Leads(t, batch[j].object)
                <4>1. t = lookup(typenames, batch[j].name, NULL)
                    BY <1>4, <3>3, <3>4, <3>10 DEF Declared, PartFound, PartObject
                <4>2. /\ batch[j].name \in DOMAIN typenames[Here]
                      /\ Leads(typenames[Here][batch[j].name], batch[j].object)
                    BY <1>4, <3>4, <3>11 DEF Declared
                <4> QED
                    BY <1>1, <4>1, <4>2, LookupType
            <3>7. t = batch[j].object
                BY <2>1, <3>4, <3>5, <3>6 DEF Leads
            <3>8. j < i
                BY <2>1, <3>3, <3>4, <3>5, <3>10 DEF InOrder
            <3>9. j \in bad /\ i \in Nat /\ j \in Nat
                BY <1>1, <3>3, <3>4, <3>5, <3>7, BatchType
            <3> QED
                BY <3>2, <3>8, <3>9
        <2>3. \A i \in D : typenames[Here][batch[i].name] = t => i \in W
            <3> SUFFICES ASSUME NEW i \in D, typenames[Here][batch[i].name] = t PROVE i \in W
                OBVIOUS
            <3>1. CASE Declares(batch[i].name)
                <4>1. Leads(t, batch[i].object)
                    BY <1>4, <3>1 DEF Declared
                <4> QED
                    BY <2>1, <2>2, <4>1 DEF Leads
            <3>2. CASE ~ Declares(batch[i].name)
                BY <1>8, <3>2 DEF Through
            <3> QED
                BY <3>1, <3>2
        <2> QED
            BY <2>2, <2>3 DEF S
    <1>10. \A i \in D : i \in W
        <2>1. S \in SUBSET DOMAIN types /\ Plain(types) \subseteq S /\ Closed(types, S)
            <3> S \in SUBSET Objects
                OBVIOUS
            <3> HIDE DEF S
            <3> QED
                BY <1>1, <1>9 DEF Closed, IsReference
        <2>2. Objects \subseteq S
            <3>1. Plain(types) \in SUBSET DOMAIN types
                BY <1>1
            <3> HIDE DEF S
            <3> QED
                BY <1>2, <2>1, <3>1, BackClosed
        <2> QED
            BY <1>4, <2>2
    <1>11. ASSUME NEW i \in D
           PROVE  /\ Meanings[n][batch[i].name] # error_type
                  /\ ~ KnownBefore(i) => Meanings[n][batch[i].part] # error_type
        <2>1. Meanings[n][batch[i].name] # error_type
            BY <1>8, <1>10
        <2>2. CASE InBatch(batch[i].part)
            <3>1. PICK j \in D : batch[j].name = batch[i].part
                BY <1>5, <2>2
            <3> QED
                BY <1>8, <1>10, <2>1, <3>1
        <2>3. CASE ~ InBatch(batch[i].part)
            <3>1. Meanings[n][batch[i].part] = lookup(env, batch[i].part, error_type)
                BY <1>1, <1>4, <2>3, MeaningsFacts DEF Through, Directly, Declares
            <3> QED
                BY <1>6, <2>1, <2>3, <3>1
        <2> QED
            BY <2>1, <2>2, <2>3
    <1>12. \A i \in D : KnownBefore(i) => lookup(env, batch[i].part, error_type) # error_type
        BY EnvFinds DEF KnownBefore
    <1> QED
        BY <1>11, <1>12 DEF Meaning, PartMeaning

\* A name that nothing declares makes a batch wrong.
LEMMA UndefinedIsWrong ==
    ASSUME TypeInv, NamesMean, UnknownNames, NEW t \in Objects, Undefined(t)
    PROVE  BatchIsWrong
    <1>1. PICK x \in AllNames : Waits(x)
        BY DEF UnknownNames
    <1>2. /\ UsedInBatch(x) /\ lookup(env, x, error_type) = error_type
          /\ lookup(env, x, NULL) = NULL /\ ~ InBatch(x)
        BY <1>1, WaitingNames DEF Waits
    <1>3. PICK i \in DOMAIN batch : batch[i].part = x
        BY <1>2 DEF UsedInBatch
    <1>4. Meaning(x) = error_type
        <2>1. Len(batch) \in Nat
            BY BatchType DEF TypeInv
        <2> QED
            BY <1>2, <2>1, MeaningsFacts DEF Meaning, TypeInv, Through, Directly, Declares
    <1> QED
        BY <1>2, <1>3, <1>4 DEF BatchIsWrong, PartMeaning, KnownBefore

\* References that lead to each other do not lead to a type.
LEMMA CirclesLeadNowhere ==
    ASSUME TypesInv, NEW V \in SUBSET Objects,
           \A t \in V : IsReference(t) /\ types[t].meaning \in V,
           NEW B \in SUBSET Objects, B \cap V = {}
    PROVE  Back(types, B) \cap V = {}
    <1> DEFINE S == Objects \ V
    <1>1. DOMAIN types = Objects
        BY ObjectsAre
    <1>2. Closed(types, S)
        BY <1>1 DEF Closed
    <1>3. B \subseteq S /\ S \in SUBSET DOMAIN types
        BY <1>1
    <1> HIDE DEF S
    <1>4. Back(types, B) \subseteq S
        BY <1>1, <1>2, <1>3, BackClosed
    <1> QED
        BY <1>4 DEF S

\* A circle among the references comes from names that are defined by themselves.
LEMMA CircleIsWrong ==
    ASSUME TypeInv, NamesMean, NewReferences, ~ Twice, \A t \in Objects : ~ Undefined(t),
           NEW V \in SUBSET Objects, V # {},
           \A t \in V : IsReference(t) /\ types[t].meaning \in V
    PROVE  BatchIsWrong
    <1>1. /\ DOMAIN types = Objects /\ Plain(types) = {t \in Objects : ~ IsReference(t)}
          /\ NamesInv /\ BatchInv /\ TypesInv
        BY ObjectsAre DEF TypeInv
    <1>2. \A x \in AllNames : ~ Waits(x)
        <2> SUFFICES ASSUME NEW x \in AllNames, Waits(x) PROVE FALSE
            OBVIOUS
        <2>1. Undefined(typenames[Here][x]) /\ typenames[Here][x] \in Objects
            BY WaitingNames, HereIs DEF Waits
        <2> QED
            BY <2>1
    <1>3. \A B \in SUBSET Plain(types) : Back(types, B) \cap V = {}
        <2> SUFFICES ASSUME NEW B \in SUBSET Plain(types) PROVE Back(types, B) \cap V = {}
            OBVIOUS
        <2>1. B \in SUBSET Objects /\ B \cap V = {}
            BY <1>1
        <2> QED
            BY <1>1, <2>1, CirclesLeadNowhere
    <1> DEFINE C == {x \in AllNames : Declares(x) /\ lookup(typenames, x, NULL) \in V}
    <1>4. ASSUME NEW x \in C
          PROVE  Through(x) /\ batch[First(x)].part \in C
        <2> DEFINE b == batch[First(x)]
        <2>1. First(x) \in DOMAIN batch /\ b.name = x
            BY <1>1, FirstIs DEF Declares
        <2>2. Declared(First(x)) /\ b.kind \in {"name", "complex"} /\ b.part \in AllNames
            BY <1>1, <2>1, BatchType DEF NamesMean
        <2>3. lookup(typenames, x, NULL) = typenames[Here][x] /\ Leads(typenames[Here][x], b.object)
            BY <1>1, <2>1, <2>2, LookupType DEF Declared
        <2>4. b.object \in V
            BY <2>3 DEF Leads
        <2>7. b.kind = "name" /\ b.object = PartObject(First(x))
            BY <2>2, <2>4 DEF Declared, PartObject
        <2>8. ~ KnownBefore(First(x))
            <3> SUFFICES ASSUME KnownBefore(First(x)) PROVE FALSE
                OBVIOUS
            <3> DEFINE m == lookup(env, b.part, error_type)
            <3>1. b.object \in Back(types, {m})
                BY <2>2, <2>7 DEF Declared, PartFound
            <3>2. m \in Plain(types)
                BY EnvFinds DEF KnownBefore
            <3> HIDE DEF m, b
            <3>3. {m} \in SUBSET Plain(types)
                BY <3>2
            <3> QED
                BY <1>3, <2>4, <3>1, <3>3
        <2>5. Through(x) /\ lookup(typenames, b.part, NULL) \in V /\ lookup(typenames, b.part, NULL) # NULL
            BY <2>2, <2>4, <2>7, <2>8 DEF Declared, PartFound, Through
        <2>6. Declares(b.part)
            <3> SUFFICES ASSUME ~ Declares(b.part) PROVE FALSE
                OBVIOUS
            <3> HIDE DEF b
            <3>1. PICK k \in 1 .. Here : /\ Innermost(env, b.part, k)
                                         /\ lookup(typenames, b.part, NULL) = typenames[k][b.part]
                BY <1>2, <2>2, <2>5, FoundOutside
            <3>2. k \in 1 .. Len(env) /\ b.part \in DOMAIN env[k]
                BY <3>1 DEF Innermost
            <3>3. typenames[k][b.part] \in Back(types, {env[k][b.part]}) /\ {env[k][b.part]} \in SUBSET Plain(types)
                BY <3>2 DEF NamesMean, OldNames
            <3> QED
                BY <1>3, <2>5, <3>1, <3>3
        <2> QED
            BY <2>2, <2>5, <2>6
    <1>5. C # {}
        <2>1. PICK t \in V : TRUE
            OBVIOUS
        <2>2. t \notin Back(types, Plain(types))
            BY <1>3
        <2>3. PICK x \in DOMAIN typenames[Here] : x \notin DOMAIN env[Here] /\ typenames[Here][x] = t
            BY <2>2 DEF NewReferences
        <2>4. x \in AllNames
            BY <2>3, HereIs
        <2>5. Declares(x)
            BY <1>2, <2>3, <2>4, HereIs DEF Waits, Declares, LastLayer
        <2>6. lookup(typenames, x, NULL) = t
            BY <1>1, <2>3, LookupType
        <2> QED
            BY <2>4, <2>5, <2>6
    <1>6. \A x \in C : x \in AllNames /\ InBatch(x)
        BY DEF Declares
    <1> HIDE DEF C
    <1> DEFINE S == {n \in Nat : \A x \in C : Meanings[n][x] = error_type}
    <1>7. 0 \in S
        BY <1>1, <1>4, <1>6, MeaningsFacts
    <1>8. ASSUME NEW n \in Nat, n \in S
          PROVE  n + 1 \in S
        <2> SUFFICES ASSUME NEW x \in C PROVE Meanings[n + 1][x] = error_type
            OBVIOUS
        <2>1. Meanings[n + 1][x] = Meanings[n][batch[First(x)].part]
            BY <1>1, <1>4, <1>6, MeaningsFacts
        <2> QED
            BY <1>4, <1>8, <2>1
    <1>9. Nat \subseteq S
        <2> HIDE DEF S
        <2> QED
            BY <1>7, <1>8, SetInduction
    <1>10. PICK x \in C : TRUE
        BY <1>5
    <1>11. Meaning(x) = error_type
        <2>1. Len(batch) \in Nat
            BY <1>1, BatchType
        <2> QED
            BY <1>9, <2>1 DEF Meaning
    <1>12. First(x) \in DOMAIN batch /\ batch[First(x)].name = x
        BY <1>1, <1>6, FirstIs
    <1> QED
        BY <1>11, <1>12 DEF BatchIsWrong

LEMMA WrongStays ==
    ASSUME UNCHANGED <<batch, env>>
    PROVE  (BatchIsWrong' <=> BatchIsWrong) /\ (Twice' <=> Twice)
    <1>1. Meanings' = Meanings
        BY DEF Meanings, Declares, KnownBefore, InBatch, First
    <1>2. \A x : Meaning(x)' = Meaning(x)
        BY <1>1 DEF Meaning
    <1> QED
        BY <1>2 DEF BatchIsWrong, Twice, PartMeaning, KnownBefore, Declares, InBatch, First
-----------------------------------------------------------------------------
(* The declarations of a batch keep its names in order. *)

LEMMA NameInit == Init => NameInv
    <1> SUFFICES ASSUME Init PROVE NameInv
        OBVIOUS
    <1>1. TypeInv
        BY TypeInit
    <1>2. /\ DOMAIN types = Objects /\ int_type \in Plain(types)
          /\ \A t \in Objects : ~ IsReference(t)
        <2>1. Objects = 1 .. 2 /\ types[1].kind = "int" /\ types[2].kind = "error"
            BY DEF Init, Objects, Object
        <2> QED
            BY <1>1, <2>1, ObjectsAre DEF IsReference, TypeInv
    <1>3. /\ typenames = env /\ Len(env) = 1 /\ Here = 1
          /\ DOMAIN env[1] = {IntName} /\ env[1][IntName] = int_type
        <2>1. EmptyMap \in Maps /\ Len(EmptyMap) = 1 /\ EmptyMap[1] = <<>>
            BY EmptyLayer DEF EmptyMap, Maps
        <2>2. IntName \in AllNames /\ int_type \in Nat \ {0}
            BY DEF AllNames, int_type
        <2> DEFINE m == add(EmptyMap, IntName, int_type)
        <2>3. /\ m \in Maps /\ Len(m) = 1 /\ DOMAIN m[1] = {IntName} /\ m[1][IntName] = int_type
            BY <2>1, <2>2, EmptyLayer, Added
        <2>4. typenames = m /\ env = m
            BY DEF Init
        <2> HIDE DEF m
        <2> QED
            BY <2>3, <2>4 DEF Here
    <1>4. batch = <<>> /\ DOMAIN batch = {} /\ errors = FALSE /\ pc = "declare"
        BY DEF Init
    <1>5. OldNames
        <2>1. {int_type} \in SUBSET DOMAIN types
            BY <1>2 DEF Plain
        <2>2. int_type \in Back(types, {int_type})
            BY <2>1, BackClosed
        <2>3. int_type # error_type
            BY DEF int_type, error_type
        <2>4. \A k \in 1 .. Len(env) : k = 1
            BY <1>3
        <2> QED
            BY <1>2, <1>3, <2>2, <2>3, <2>4 DEF OldNames
    <1>6. NewNames
        <2>1. \A x : ~ Waits(x)
            BY <1>3 DEF Waits
        <2>2. 1 .. Here - 1 = {}
            BY <1>3
        <2> QED
            BY <2>1, <2>2 DEF NewNames
    <1>7. UnknownNames /\ NewReferences
        <2>1. \A t \in Objects : t \in Plain(types)
            BY <1>2 DEF Plain, IsReference
        <2>2. Plain(types) \in SUBSET DOMAIN types
            BY DEF Plain
        <2> QED
            BY <1>2, <2>1, <2>2, BackClosed DEF UnknownNames, NewReferences, Undefined
    <1>8. InOrder /\ WalkInv /\ ~ Twice
        BY <1>4 DEF InOrder, WalkInv, Twice
    <1> QED
        BY <1>4, <1>5, <1>6, <1>7, <1>8 DEF NameInv, ErrorsInv, MeaningInv

LEMMA LookupKept ==
    ASSUME TypeInv, NEW name \in TypeIds, NEW kind \in {"name", "complex"},
           NEW part \in AllNames, Declare(name, kind, part),
           NEW x \in DOMAIN typenames[Here]
    PROVE  lookup(typenames', x, NULL) = lookup(typenames, x, NULL)
    <1>1. /\ typenames' \in Maps /\ Here' = Here /\ Here \in Nat \ {0}
          /\ x \in DOMAIN typenames'[Here] /\ typenames'[Here][x] = typenames[Here][x]
        BY DeclaredNames, HereIs
    <1>2. Innermost(typenames', x, Here)
        BY <1>1 DEF Innermost, Here
    <1>3. lookup(typenames, x, NULL) = typenames[Here][x]
        BY LookupType DEF TypeInv
    <1> QED
        BY <1>1, <1>2, <1>3, LookupFinds

\* What is known when a declaration without an error is made.
LEMMA DeclareGives ==
    ASSUME TypeInv, MeaningInv, NEW name \in TypeIds, NEW kind \in {"name", "complex"},
           NEW part \in AllNames, Declare(name, kind, part), ~ InBatch(name)
    PROVE  /\ NamesMean /\ name \in AllNames
           /\ Waits(name) => Undefined(typenames[Here][name])
           /\ Waits(name) <=> name \in DOMAIN typenames[Here] /\ name \notin DOMAIN env[Here]
           /\ \A t \in Objects :
                /\ types'[t].kind = types[t].kind /\ types'[t].part_types = types[t].part_types
                /\ types'[t].meaning =
                      IF Waits(name) /\ typenames[Here][name] = t
                      THEN NewType(kind, part) ELSE types[t].meaning
           /\ Fresh(part) =>
                /\ types'[NewReference].kind = "reference"
                /\ types'[NewReference].meaning = IF name = part THEN NewType(kind, part) ELSE NULL
           /\ kind = "complex" =>
                /\ types'[NewType(kind, part)].kind = "complex"
                /\ types'[NewType(kind, part)].part_types = <<PartType(part)>>
           /\ PartType(part) # NULL /\ NewType(kind, part) # NULL
           /\ NewType(kind, part) \in Objects' /\ DOMAIN types' = Objects'
    <1>1. NamesMean /\ name \in AllNames
        BY DEF MeaningInv, NamesMean, AllNames
    <1>2. Waits(name) <=> name \in DOMAIN typenames[Here] /\ name \notin DOMAIN env[Here]
        BY DEF Waits
    <1>3. Waits(name) => Undefined(typenames[Here][name])
        BY <1>1, WaitingNames
    \* A name that was declared before leads to its type.
    <1>4. name \in DOMAIN env[Here] /\ name \in DOMAIN typenames[Here] => ~ Undefined(typenames[Here][name])
        <2> SUFFICES ASSUME name \in DOMAIN env[Here], name \in DOMAIN typenames[Here],
                            Undefined(typenames[Here][name])
                     PROVE  FALSE
            OBVIOUS
        <2> DEFINE t == typenames[Here][name]
                   B == {env[Here][name]}
                   S == Objects \ {t}
        <2>1. /\ DOMAIN types = Objects /\ NULL \notin Objects
              /\ Plain(types) = {u \in Objects : ~ IsReference(u)}
            BY ObjectsAre DEF TypeInv
        <2>2. B \in SUBSET Plain(types) /\ t \in Back(types, B) /\ t \in Objects
            <3>1. Here \in 1 .. Len(env) /\ Here \in 1 .. Here
                BY HereIs
            <3>2. env[Here][name] \in Plain(types) /\ t \in Back(types, B)
                BY <1>1, <3>1 DEF NamesMean, OldNames
            <3>3. t \in Objects
                BY <3>1, HereIs
            <3> QED
                BY <3>2, <3>3
        <2>3. B \subseteq S /\ S \in SUBSET DOMAIN types
            BY <2>1, <2>2 DEF Undefined
        <2>4. Closed(types, S)
            BY <2>1 DEF Closed, Undefined
        <2>5. t \notin S
            OBVIOUS
        <2> HIDE DEF t, B, S
        <2> QED
            BY <2>1, <2>2, <2>3, <2>4, <2>5, BackClosed
    <1>5. /\ types' \in Seq(TypeObjects)
          /\ Len(types') = Len(types) + Added_Objects(kind, part)
          /\ \A t \in Objects : types'[t] =
                IF name \in DOMAIN typenames[Here] /\ typenames[Here][name] = t /\ Undefined(t)
                THEN WithMeaning(types[t], NewType(kind, part))
                ELSE types[t]
          /\ Fresh(part) => types'[NewReference] =
                WithMeaning(Object("reference", <<>>, <<>>), IF name = part THEN NewType(kind, part) ELSE NULL)
          /\ kind = "complex" =>
                types'[NewType(kind, part)] = Object("complex", <<part>>, <<PartType(part)>>)
        BY DeclaredTypes, ZenonT(60)
    <1>6. \A t \in Objects :
                /\ types'[t].kind = types[t].kind /\ types'[t].part_types = types[t].part_types
                /\ types'[t].meaning =
                      IF Waits(name) /\ typenames[Here][name] = t
                      THEN NewType(kind, part) ELSE types[t].meaning
        <2> SUFFICES ASSUME NEW t \in Objects
                     PROVE  /\ types'[t].kind = types[t].kind /\ types'[t].part_types = types[t].part_types
                            /\ types'[t].meaning =
                                  IF Waits(name) /\ typenames[Here][name] = t
                                  THEN NewType(kind, part) ELSE types[t].meaning
            OBVIOUS
        <2>1. types'[t] = IF Waits(name) /\ typenames[Here][name] = t
                          THEN WithMeaning(types[t], NewType(kind, part)) ELSE types[t]
            <3>1. types'[t] = IF name \in DOMAIN typenames[Here] /\ typenames[Here][name] = t /\ Undefined(t)
                              THEN WithMeaning(types[t], NewType(kind, part)) ELSE types[t]
                BY <1>5, Zenon
            <3>2. Waits(name) /\ typenames[Here][name] = t <=>
                     name \in DOMAIN typenames[Here] /\ typenames[Here][name] = t /\ Undefined(t)
                BY <1>2, <1>3, <1>4
            <3> QED
                BY <3>1, <3>2
        <2>2. types[t] \in TypeObjects
            BY ObjectsAre DEF TypeInv
        <2> QED
            BY <2>1, <2>2 DEF WithMeaning, TypeObjects
    <1>7. Fresh(part) =>
                /\ types'[NewReference].kind = "reference"
                /\ types'[NewReference].meaning = IF name = part THEN NewType(kind, part) ELSE NULL
        <2>1. Fresh(part) => types'[NewReference] =
                WithMeaning(Object("reference", <<>>, <<>>), IF name = part THEN NewType(kind, part) ELSE NULL)
            BY <1>5
        <2> QED
            BY <2>1 DEF WithMeaning, Object
    <1>8. kind = "complex" =>
                /\ types'[NewType(kind, part)].kind = "complex"
                /\ types'[NewType(kind, part)].part_types = <<PartType(part)>>
        <2>1. kind = "complex" =>
                 types'[NewType(kind, part)] = Object("complex", <<part>>, <<PartType(part)>>)
            BY <1>5
        <2> QED
            BY <2>1 DEF Object
    <1>9. PartType(part) # NULL /\ NewType(kind, part) # NULL
        <2>1. PartType(part) \in Objects' /\ NewType(kind, part) \in Objects'
            BY DeclareExtends
        <2> QED
            BY <2>1 DEF Objects, NULL
    <1>10. NewType(kind, part) \in Objects' /\ DOMAIN types' = Objects'
        BY DeclareExtends DEF TypesInv, Objects
    <1> QED
        BY <1>1, <1>2, <1>3, <1>6, <1>7, <1>8, <1>9, <1>10

LEMMA DeclareOldNames ==
    ASSUME TypeInv, MeaningInv, NEW name \in TypeIds, NEW kind \in {"name", "complex"},
           NEW part \in AllNames, Declare(name, kind, part)
    PROVE  OldNames'
    <1>1. OldNames
        BY DEF MeaningInv
    <1>2. env' = env /\ Here' = Here /\ Len(env) = Here /\ Here \in Nat
        BY DeclareRest, DeclaredNames, HereIs
    <1>3. /\ Extends(types, types') /\ DOMAIN types = Objects /\ NULL \notin DOMAIN types
          /\ Plain(types) \subseteq Plain(types') /\ Plain(types) \subseteq Objects
          /\ Plain(types') \subseteq DOMAIN types'
        BY DeclareExtends, ObjectsAre, PlainGrows DEF TypeInv, Plain
    <1>4. ASSUME NEW k \in 1 .. Here, NEW x \in DOMAIN env[k]
          PROVE  /\ env[k][x] \in Plain(types') /\ env[k][x] # error_type
                 /\ x \in DOMAIN typenames'[k]
                 /\ typenames'[k][x] \in Back(types', {env[k][x]})
        <2>1. /\ env[k][x] \in Plain(types) /\ env[k][x] # error_type
              /\ x \in DOMAIN typenames[k]
              /\ typenames[k][x] \in Back(types, {env[k][x]})
            BY <1>1, <1>2 DEF OldNames
        <2>2. x \in DOMAIN typenames'[k] /\ typenames'[k][x] = typenames[k][x]
            <3>1. CASE k = Here
                BY <2>1, <3>1, DeclaredNames
            <3>2. CASE k # Here
                <4>1. k \in 1 .. Here - 1
                    BY <1>2, <3>2
                <4> QED
                    BY <2>1, <4>1, DeclaredNames
            <3> QED
                BY <3>1, <3>2
        <2> DEFINE B == {env[k][x]}
        <2>3. B \in SUBSET DOMAIN types /\ B \in SUBSET DOMAIN types'
            BY <1>3, <2>1
        <2> HIDE DEF B
        <2>4. Back(types, B) \subseteq Back(types', B)
            BY <1>3, <2>3, BackGrows
        <2> QED
            BY <1>3, <2>1, <2>2, <2>4 DEF B
    <1> QED
        BY <1>2, <1>4 DEF OldNames

\* Who waits after a declaration.
LEMMA DeclareWaits ==
    ASSUME TypeInv, MeaningInv, NEW name \in TypeIds, NEW kind \in {"name", "complex"},
           NEW part \in AllNames, Declare(name, kind, part), ~ InBatch(name)
    PROVE  /\ \A x : InBatch(x)' <=> InBatch(x) \/ x = name
           /\ \A x : UsedInBatch(x)' <=> UsedInBatch(x) \/ x = part
           /\ Fresh(part) => ~ InBatch(part) /\ \A k \in 1 .. Here : part \notin DOMAIN env[k]
           /\ \A x : Waits(x)' <=> x # name /\ (Waits(x) \/ (Fresh(part) /\ x = part))
    <1> DEFINE e == Entry(name, kind, part)
               last == Len(batch) + 1
    <1>0. /\ DOMAIN batch' = DOMAIN batch \cup {last} /\ batch'[last] = e
          /\ \A i \in DOMAIN batch : batch'[i] = batch[i]
          /\ e.name = name /\ e.part = part
        BY DeclareRest DEF Entry
    <1> HIDE DEF e, last
    <1>1. \A x : InBatch(x)' <=> InBatch(x) \/ x = name
        BY <1>0 DEF InBatch
    <1>2. \A x : UsedInBatch(x)' <=> UsedInBatch(x) \/ x = part
        BY <1>0 DEF UsedInBatch
    <1>3. ASSUME Fresh(part)
          PROVE  /\ ~ InBatch(part)
                 /\ \A k \in 1 .. Here : part \notin DOMAIN env[k]
                 /\ part \notin DOMAIN typenames[Here]
        <2>1. \A k \in 1 .. Here : part \notin DOMAIN typenames[k]
            BY <1>3, LookupCases, HereIs DEF Fresh, Innermost
        <2>2. Here \in 1 .. Here /\ Here = Len(env)
            BY HereIs
        <2>3. ~ InBatch(part)
            BY <2>1, <2>2 DEF InBatch, MeaningInv, Declared
        <2>4. \A k \in 1 .. Here : part \notin DOMAIN env[k]
            BY <2>1, <2>2 DEF MeaningInv, OldNames
        <2> QED
            BY <2>1, <2>2, <2>3, <2>4
    <1>4. \A x : Waits(x)' <=> x # name /\ (Waits(x) \/ (Fresh(part) /\ x = part))
        <2> SUFFICES ASSUME NEW x
                     PROVE  Waits(x)' <=> x # name /\ (Waits(x) \/ (Fresh(part) /\ x = part))
            OBVIOUS
        <2>1. Waits(x)' <=> x \in DOMAIN typenames'[Here] /\ x \notin DOMAIN env[Here] /\ ~ InBatch(x)'
            BY DeclaredNames, DeclareRest DEF Waits
        <2>2. x \in DOMAIN typenames'[Here] <=>
                 x \in DOMAIN typenames[Here] \/ x = name \/ (Fresh(part) /\ x = part)
            BY DeclaredNames
        <2>3. Fresh(part) /\ x = part => x \notin DOMAIN env[Here] /\ ~ InBatch(x)
            BY <1>3, HereIs
        <2> QED
            BY <1>1, <2>1, <2>2, <2>3 DEF Waits
    <1> QED
        BY <1>1, <1>2, <1>3, <1>4

LEMMA DeclareNewNames ==
    ASSUME TypeInv, MeaningInv, NEW name \in TypeIds, NEW kind \in {"name", "complex"},
           NEW part \in AllNames, Declare(name, kind, part), ~ InBatch(name)
    PROVE  NewNames'
    <1>1. NewNames /\ env' = env /\ Here' = Here /\ Len(env) = Here /\ Here \in Nat \ {0}
        BY DeclareRest, DeclaredNames, HereIs DEF MeaningInv
    <1>2. \A k \in 1 .. Here - 1 : DOMAIN typenames'[k] \subseteq DOMAIN env[k]
        BY <1>1, DeclaredNames DEF NewNames
    <1>3. ASSUME NEW x \in AllNames, Waits(x)'
          PROVE  /\ Waits(x) => typenames'[Here][x] = typenames[Here][x] /\ typenames[Here][x] \in Objects
                 /\ ~ Waits(x) => typenames'[Here][x] = NewReference /\ x = part /\ Fresh(part)
        <2>1. x # name /\ (Waits(x) \/ (Fresh(part) /\ x = part))
            BY <1>3, DeclareWaits
        <2> QED
            BY <2>1, DeclaredNames, HereIs DEF Waits
    <1>4. ASSUME NEW x \in AllNames, Waits(x)'
          PROVE  /\ types'[typenames'[Here][x]].kind = "reference"
                 /\ types'[typenames'[Here][x]].meaning = NULL
                 /\ \A k \in 1 .. Here : x \notin DOMAIN env[k]
                 /\ UsedInBatch(x)'
        <2>1. x # name /\ (Waits(x) \/ (Fresh(part) /\ x = part))
            BY <1>4, DeclareWaits
        <2>2. CASE Waits(x)
            <3> DEFINE t == typenames[Here][x]
            <3>1. /\ Undefined(t) /\ UsedInBatch(x) /\ \A k \in 1 .. Here : x \notin DOMAIN env[k]
                BY <1>1, <2>2 DEF NewNames
            <3>2. t \in Objects /\ typenames'[Here][x] = t
                BY <1>3, <1>4, <2>2
            <3>3. ~ (Waits(name) /\ typenames[Here][name] = t)
                BY <1>1, <2>1, <2>2, DeclareGives DEF NewNames
            <3> HIDE DEF t
            <3>4. types'[t].kind = types[t].kind /\ types'[t].meaning = types[t].meaning
                BY <3>2, <3>3, DeclareGives
            <3> QED
                BY <3>1, <3>2, <3>4, DeclareWaits DEF Undefined, IsReference
        <2>3. CASE ~ Waits(x)
            <3>1. Fresh(part) /\ x = part /\ typenames'[Here][x] = NewReference /\ name # part
                BY <1>3, <1>4, <2>1, <2>3
            <3>2. types'[NewReference].kind = "reference" /\ types'[NewReference].meaning = NULL
                BY <3>1, DeclareGives
            <3> QED
                BY <3>1, <3>2, DeclareWaits
        <2> QED
            BY <2>2, <2>3
    <1>5. ASSUME NEW x \in AllNames, NEW y \in AllNames, Waits(x)', Waits(y)',
                 typenames'[Here][x] = typenames'[Here][y]
          PROVE  x = y
        <2>1. NewReference \notin Objects
            BY ObjectsAre DEF NewReference, TypeInv
        <2>2. CASE Waits(x) /\ Waits(y)
            BY <1>1, <1>3, <1>5, <2>2 DEF NewNames
        <2>3. CASE ~ Waits(x) \/ ~ Waits(y)
            BY <1>3, <1>5, <2>1, <2>3
        <2> QED
            BY <2>2, <2>3
    <1> QED
        BY <1>1, <1>2, <1>4, <1>5 DEF NewNames, Undefined, IsReference

LEMMA DeclareUnknownNames ==
    ASSUME TypeInv, MeaningInv, NEW name \in TypeIds, NEW kind \in {"name", "complex"},
           NEW part \in AllNames, Declare(name, kind, part), ~ InBatch(name)
    PROVE  UnknownNames'
    <1> SUFFICES ASSUME NEW t \in Objects', types'[t].kind = "reference", types'[t].meaning = NULL
                 PROVE  \E x \in AllNames : Waits(x)' /\ typenames'[Here][x] = t
        <2>1. Here' = Here
            BY DeclaredNames
        <2> QED
            BY <2>1 DEF UnknownNames, Undefined, IsReference
    <1>1. CASE t \in Objects
        <2>1. ~ (Waits(name) /\ typenames[Here][name] = t)
            BY <1>1, DeclareGives
        <2>2. types[t].kind = "reference" /\ types[t].meaning = NULL
            BY <1>1, <2>1, DeclareGives
        <2>3. PICK x \in AllNames : Waits(x) /\ typenames[Here][x] = t
            BY <1>1, <2>2 DEF MeaningInv, UnknownNames, Undefined, IsReference
        <2>4. x \in DOMAIN typenames[Here] /\ x # name
            BY <2>1, <2>3 DEF Waits
        <2>5. Waits(x)'
            BY <2>3, <2>4, DeclareWaits
        <2>6. typenames'[Here][x] = t
            BY <2>3, <2>4, DeclaredNames
        <2> QED
            BY <2>5, <2>6
    <1>2. CASE t \notin Objects
        <2>1. \/ Fresh(part) /\ t = NewReference
              \/ kind = "complex" /\ t = NewType(kind, part)
            BY <1>2, DeclareExtends
        <2>2. ~ (kind = "complex" /\ t = NewType(kind, part))
            BY DeclareGives
        <2>3. Fresh(part) /\ t = NewReference /\ name # part
            BY <2>1, <2>2, DeclareGives
        <2>4. Waits(part)' /\ typenames'[Here][part] = t
            BY <2>3, DeclareWaits, DeclaredNames
        <2> QED
            BY <2>4
    <1> QED
        BY <1>1, <1>2

LEMMA DeclareNewReferences ==
    ASSUME TypeInv, MeaningInv, NEW name \in TypeIds, NEW kind \in {"name", "complex"},
           NEW part \in AllNames, Declare(name, kind, part), ~ InBatch(name)
    PROVE  NewReferences'
    <1>1. env' = env /\ Here' = Here /\ Here \in 1 .. Here
        BY DeclareRest, DeclaredNames, HereIs
    <1> SUFFICES ASSUME NEW t \in Objects'
                 PROVE  \/ t \in Back(types', Plain(types'))
                        \/ \E x \in DOMAIN typenames'[Here] : x \notin DOMAIN env[Here] /\ typenames'[Here][x] = t
        BY <1>1 DEF NewReferences
    <1>2. /\ Extends(types, types') /\ DOMAIN types = Objects /\ NULL \notin DOMAIN types
          /\ Plain(types) \subseteq Plain(types') /\ Plain(types) \in SUBSET DOMAIN types
          /\ Plain(types') \in SUBSET DOMAIN types' /\ DOMAIN types' = Objects'
        BY DeclareExtends, DeclareGives, ObjectsAre, PlainGrows DEF TypeInv, Plain
    <1>3. CASE t \in Objects
        <2>1. CASE t \in Back(types, Plain(types))
            BY <1>2, <2>1, BackGrows
        <2>2. CASE t \notin Back(types, Plain(types))
            <3>1. PICK x \in DOMAIN typenames[Here] : x \notin DOMAIN env[Here] /\ typenames[Here][x] = t
                BY <1>3, <2>2 DEF MeaningInv, NewReferences
            <3>2. x \in DOMAIN typenames'[Here] /\ typenames'[Here][x] = t
                BY <3>1, DeclaredNames
            <3> QED
                BY <3>1, <3>2
        <2> QED
            BY <2>1, <2>2
    <1>4. CASE t \notin Objects
        <2>1. \/ Fresh(part) /\ t = NewReference
              \/ kind = "complex" /\ t = NewType(kind, part)
            BY <1>4, DeclareExtends
        <2>2. CASE kind = "complex" /\ t = NewType(kind, part)
            <3>1. t \in Plain(types')
                BY <1>2, <2>2, DeclareGives DEF Plain
            <3> QED
                BY <1>2, <3>1, BackClosed
        <2>3. CASE Fresh(part) /\ t = NewReference
            <3>1. part \in DOMAIN typenames'[Here] /\ typenames'[Here][part] = t
                BY <2>3, DeclaredNames
            <3>2. part \notin DOMAIN env[Here]
                BY <1>1, <2>3, DeclareWaits
            <3> QED
                BY <3>1, <3>2
        <2> QED
            BY <2>1, <2>2, <2>3
    <1> QED
        BY <1>3, <1>4

\* References that have a meaning keep it.
LEMMA DeclareKeeps ==
    ASSUME TypeInv, MeaningInv, NEW name \in TypeIds, NEW kind \in {"name", "complex"},
           NEW part \in AllNames, Declare(name, kind, part), ~ InBatch(name),
           NEW t \in Objects, types[t].meaning # NULL
    PROVE  types'[t].meaning = types[t].meaning
    <1>1. ~ (Waits(name) /\ typenames[Here][name] = t)
        BY DeclareGives DEF Undefined
    <1> QED
        BY <1>1, DeclareGives

\* What was known before a declaration, and what is known with it.
LEMMA DeclareKnown ==
    ASSUME TypeInv, MeaningInv, NEW name \in TypeIds, NEW kind \in {"name", "complex"},
           NEW part \in AllNames, Declare(name, kind, part), ~ InBatch(name)
    PROVE  /\ \A x : Declares(x)' <=> Declares(x) \/ (x = name /\ name \notin DOMAIN env[Here])
           /\ \A i \in DOMAIN batch : KnownBefore(i)' <=> KnownBefore(i)
           /\ \A last : last = Len(batch) + 1 =>
                (KnownBefore(last)' <=> lookup(env, part, NULL) # NULL /\ ~ Declares(part))
    <1> DEFINE e == Entry(name, kind, part)
    <1> PICK last : last = Len(batch) + 1
        OBVIOUS
    <1>1. /\ DOMAIN batch' = DOMAIN batch \cup {last} /\ batch'[last] = e
          /\ \A i \in DOMAIN batch : batch'[i] = batch[i]
          /\ e.name = name /\ e.part = part
        BY DeclareRest DEF Entry
    <1>2. /\ Len(batch) \in Nat /\ DOMAIN batch = 1 .. Len(batch) /\ last \in Nat
          /\ \A i \in DOMAIN batch : i < last
        BY BatchType DEF TypeInv
    <1>3. env' = env
        BY DeclareRest
    <1> HIDE DEF e
    <1>4. \A x : InBatch(x)' <=> InBatch(x) \/ x = name
        BY DeclareWaits
    <1>5. \A x : Declares(x)' <=> Declares(x) \/ (x = name /\ name \notin DOMAIN env[Here])
        BY <1>3, <1>4, HereIs DEF Declares, LastLayer
    <1>6. ASSUME NEW x, InBatch(x)
          PROVE  First(x)' = First(x) /\ First(x) < last
        <2> DEFINE f == First(x)
        <2>1. /\ f \in DOMAIN batch /\ batch[f].name = x
              /\ \A j \in DOMAIN batch : batch[j].name = x => f <= j
            BY <1>6, FirstIs DEF TypeInv
        <2>2. f \in DOMAIN batch' /\ batch'[f].name = x
            BY <1>1, <2>1
        <2>3. \A j \in DOMAIN batch' : batch'[j].name = x => f <= j
            BY <1>1, <1>2, <2>1
        <2>4. \A i \in DOMAIN batch' :
                 batch'[i].name = x /\ (\A j \in DOMAIN batch' : batch'[j].name = x => i <= j) => i = f
            <3> HIDE DEF f
            <3>1. \A i \in DOMAIN batch' : i \in Nat
                BY <1>1, <1>2
            <3> QED
                BY <2>2, <2>3, <3>1
        <2>5. First(x)' = CHOOSE i \in DOMAIN batch' :
                 batch'[i].name = x /\ \A j \in DOMAIN batch' : batch'[j].name = x => i <= j
            BY DEF First
        <2> HIDE DEF f
        <2>6. First(x)' = f
            BY <2>2, <2>3, <2>4, <2>5
        <2> QED
            BY <1>2, <2>1, <2>6 DEF f
    <1>7. First(name)' = last
        <2>1. \A i \in DOMAIN batch' : batch'[i].name = name <=> i = last
            BY <1>1 DEF InBatch
        <2>2. last \in DOMAIN batch' /\ last <= last
            BY <1>1, <1>2
        <2> QED
            BY <2>1, <2>2 DEF First
    <1>8. ASSUME NEW i \in DOMAIN batch
          PROVE  KnownBefore(i)' <=> KnownBefore(i)
        <2> PICK p : p = batch[i].part
            OBVIOUS
        <2>1. batch'[i].part = p
            BY <1>1
        <2>2. Declares(p)' /\ First(p)' < i <=> Declares(p) /\ First(p) < i
            <3>1. CASE p = name
                <4>1. ~ Declares(p) /\ ~ (last < i)
                    BY <1>2, <3>1 DEF Declares
                <4>2. First(p)' = last
                    BY <1>7, <3>1
                <4> QED
                    BY <4>1, <4>2
            <3>2. CASE p # name
                <4>1. Declares(p)' <=> Declares(p)
                    BY <1>5, <3>2
                <4>2. Declares(p) => First(p)' = First(p)
                    BY <1>6 DEF Declares
                <4> QED
                    BY <4>1, <4>2
            <3> QED
                BY <3>1, <3>2
        <2> QED
            BY <1>3, <2>1, <2>2 DEF KnownBefore
    <1>9. KnownBefore(last)' <=> lookup(env, part, NULL) # NULL /\ ~ Declares(part)
        <2>1. Declares(part)' /\ First(part)' < last <=> Declares(part)
            <3>1. CASE part = name
                <4>1. ~ Declares(part) /\ ~ (last < last) /\ First(part)' = last
                    BY <1>2, <1>7, <3>1 DEF Declares
                <4> QED
                    BY <4>1
            <3>2. CASE part # name
                <4>1. Declares(part)' <=> Declares(part)
                    BY <1>5, <3>2
                <4>2. Declares(part) => First(part)' = First(part) /\ First(part) < last
                    BY <1>6 DEF Declares
                <4> QED
                    BY <4>1, <4>2
            <3> QED
                BY <3>1, <3>2
        <2>2. batch'[last].part = part
            BY <1>1
        <2> QED
            BY <1>3, <2>1, <2>2 DEF KnownBefore
    <1> QED
        BY <1>5, <1>8, <1>9

\* What getType gives for the name in a declaration.
LEMMA DeclarePart ==
    ASSUME TypeInv, MeaningInv, NEW name \in TypeIds, NEW kind \in {"name", "complex"},
           NEW part \in AllNames, Declare(name, kind, part), ~ InBatch(name)
    PROVE  IF lookup(env, part, NULL) # NULL /\ ~ Declares(part)
           THEN PartType(part) \in Back(types, {lookup(env, part, error_type)})
           ELSE lookup(typenames', part, NULL) = PartType(part)
    <1>1. NamesMean
        BY DeclareGives
    <1>2. ASSUME lookup(env, part, NULL) # NULL, ~ Declares(part)
          PROVE  PartType(part) \in Back(types, {lookup(env, part, error_type)})
        <2>1. PICK k \in 1 .. Here : Innermost(env, part, k)
            BY <1>2, LookupCases, HereIs DEF Innermost
        <2>2. k \in 1 .. Len(env) /\ part \in DOMAIN env[k]
            BY <2>1 DEF Innermost
        <2>3. part \in DOMAIN typenames[k]
            BY <1>1, <2>2 DEF NamesMean, OldNames
        <2>4. ~ Fresh(part) /\ lookup(typenames, part, NULL) # NULL
            BY <2>1, <2>3, LookupCases, HereIs DEF Fresh
        <2>5. ~ Waits(part)
            BY <1>1, <1>2, WaitingNames
        <2>6. PICK l \in 1 .. Here : /\ Innermost(env, part, l)
                                     /\ lookup(typenames, part, NULL) = typenames[l][part]
                                     /\ lookup(env, part, error_type) = env[l][part]
            BY <1>1, <1>2, <2>4, <2>5, FoundOutside
        <2>7. l \in 1 .. Len(env) /\ part \in DOMAIN env[l]
            BY <2>6 DEF Innermost
        <2> QED
            BY <1>1, <2>4, <2>6, <2>7 DEF NamesMean, OldNames, PartType
    <1>3. CASE Fresh(part)
        <2>1. /\ typenames' \in Maps /\ Here' = Here /\ Here \in Nat \ {0}
              /\ part \in DOMAIN typenames'[Here] /\ typenames'[Here][part] = NewReference
            BY <1>3, DeclaredNames, HereIs
        <2>2. Innermost(typenames', part, Here)
            BY <2>1 DEF Innermost, Here
        <2>3. lookup(typenames', part, NULL) = typenames'[Here][part]
            BY <2>1, <2>2, LookupFinds
        <2> QED
            BY <1>2, <1>3, <2>1, <2>3 DEF PartType
    <1>4. CASE ~ Fresh(part) /\ (lookup(env, part, NULL) = NULL \/ Declares(part))
        <2>1. part \in DOMAIN typenames[Here]
            BY <1>1, <1>4, FoundHere DEF Fresh
        <2> QED
            BY <1>4, <2>1, LookupKept DEF PartType
    <1> QED
        BY <1>2, <1>3, <1>4

\* A name that is declared for the first time leads to its type.
LEMMA DeclareLeads ==
    ASSUME TypeInv, MeaningInv, NEW name \in TypeIds, NEW kind \in {"name", "complex"},
           NEW part \in AllNames, Declare(name, kind, part), ~ InBatch(name)
    PROVE  /\ name \in DOMAIN typenames'[Here]
           /\ name \notin DOMAIN env[Here] =>
                LET t == typenames'[Here][name] IN
                 \/ t = NewType(kind, part)
                 \/ types'[t].kind = "reference" /\ types'[t].meaning = NewType(kind, part)
    <1>1. name \in DOMAIN typenames'[Here] /\ name \in AllNames
        BY DeclaredNames, DeclareGives
    <1> DEFINE t == typenames'[Here][name]
    <1> SUFFICES ASSUME name \notin DOMAIN env[Here]
                 PROVE  t = NewType(kind, part) \/ (types'[t].kind = "reference" /\ types'[t].meaning = NewType(kind, part))
        BY <1>1
    <1>2. CASE name \in DOMAIN typenames[Here]
        <2>1. t = typenames[Here][name] /\ t \in Objects
            BY <1>2, DeclaredNames, HereIs
        <2>2. Waits(name) /\ types[t].kind = "reference"
            BY <1>2, <2>1, DeclareGives DEF Undefined, IsReference
        <2> QED
            BY <1>2, <2>1, <2>2, DeclareGives
    <1>3. CASE name \notin DOMAIN typenames[Here] /\ Fresh(part) /\ name = part
        <2>1. t = NewReference
            BY <1>3, DeclaredNames
        <2> QED
            BY <1>3, <2>1, DeclareGives
    <1>4. CASE ~ Awaited(name, part)
        BY <1>4, DeclaredNames
    <1> QED
        BY <1>2, <1>3, <1>4 DEF Awaited

\* What a declaration does to those before it.
LEMMA DeclaredStays ==
    ASSUME TypeInv, MeaningInv, NEW name \in TypeIds, NEW kind \in {"name", "complex"},
           NEW part \in AllNames, Declare(name, kind, part), ~ InBatch(name),
           NEW i \in DOMAIN batch
    PROVE  Declared(i)'
    <1> DEFINE b == batch[i]
               o == PartObject(i)
    <1>1. /\ Declared(i) /\ b.object \in Objects /\ b.name \in AllNames /\ b.part \in AllNames
          /\ b.kind \in {"name", "complex"}
        BY BatchType DEF MeaningInv, TypeInv, BatchInv, AllNames
    <1>2. /\ batch'[i] = b /\ env' = env /\ Here' = Here
          /\ types'[b.object].kind = types[b.object].kind
          /\ types'[b.object].part_types = types[b.object].part_types
        BY <1>1, DeclareRest, DeclaredNames, DeclareGives
    <1>3. PartObject(i)' = o
        BY <1>2 DEF PartObject
    <1>4. PartFound(i)'
        <2>1. CASE KnownBefore(i)
            <3> DEFINE B == {lookup(env, b.part, error_type)}
            <3>1. o \in Back(types, B)
                BY <1>1, <2>1 DEF Declared, PartFound
            <3>2. /\ Extends(types, types') /\ NULL \notin DOMAIN types
                  /\ Plain(types) \subseteq DOMAIN types /\ DOMAIN types \subseteq DOMAIN types'
                BY DeclareExtends, ObjectsAre DEF TypeInv, Plain, Extends
            <3>3. B \in SUBSET DOMAIN types /\ B \in SUBSET DOMAIN types'
                <4>1. lookup(env, b.part, error_type) \in Plain(types)
                    BY <2>1, EnvFinds, DeclareGives DEF KnownBefore
                <4> QED
                    BY <3>2, <4>1
            <3> HIDE DEF B
            <3>4. o \in Back(types', B)
                BY <3>1, <3>2, <3>3, BackGrows
            <3>5. KnownBefore(i)'
                BY <2>1, DeclareKnown
            <3> HIDE DEF o, b
            <3>6. PartObject(i)' \in Back(types', B)
                BY <1>3, <3>4
            <3>7. B = {lookup(env', batch'[i].part, error_type)}
                BY <1>2 DEF B, b
            <3> QED
                BY <3>5, <3>6, <3>7 DEF PartFound
        <2>2. CASE ~ KnownBefore(i)
            <3>1. lookup(typenames, b.part, NULL) # NULL /\ o = lookup(typenames, b.part, NULL)
                BY <1>1, <2>2 DEF Declared, PartFound
            <3>2. lookup(env, b.part, NULL) = NULL \/ Declares(b.part)
                BY <2>2 DEF KnownBefore
            <3>3. NamesMean
                BY DeclareGives
            <3>4. ~ KnownBefore(i)'
                BY <2>2, DeclareKnown
            <3> HIDE DEF o, b
            <3>5. b.part \in DOMAIN typenames[Here]
                BY <3>1, <3>2, <3>3, FoundHere
            <3>6. lookup(typenames', b.part, NULL) = lookup(typenames, b.part, NULL)
                BY <3>5, LookupKept
            <3> QED
                BY <1>2, <1>3, <3>1, <3>4, <3>6 DEF PartFound
        <2> QED
            BY <2>1, <2>2
    <1>5. /\ b.name \in DOMAIN typenames[Here] /\ b.name \in DOMAIN typenames'[Here]
          /\ typenames'[Here][b.name] = typenames[Here][b.name]
          /\ typenames[Here][b.name] \in Objects
        BY <1>1, DeclaredNames, HereIs DEF Declared
    <1> PICK n : n = b.name
        OBVIOUS
    <1>6. Declares(n)' <=> Declares(n)
        <2>1. n # name
            BY DEF InBatch
        <2> QED
            BY <2>1, DeclareKnown
    <1> DEFINE t == typenames[Here][b.name]
    <1>7. ASSUME Declares(b.name)
          PROVE  t = b.object \/ (types'[t].kind = "reference" /\ types'[t].meaning = b.object)
        <2>1. CASE t = b.object
            BY <2>1
        <2>2. CASE IsReference(t) /\ types[t].meaning = b.object
            <3>1. b.object # NULL
                BY <1>1 DEF Objects, NULL
            <3> HIDE DEF b, t
            <3>2. types'[t].meaning = types[t].meaning
                BY <1>5, <2>2, <3>1, DeclareKeeps DEF t
            <3>3. types'[t].kind = types[t].kind
                BY <1>5, DeclareGives DEF t
            <3> QED
                BY <2>2, <3>2, <3>3 DEF IsReference
        <2> QED
            BY <1>1, <1>7, <2>1, <2>2 DEF Declared, Leads
    <1>8. b.kind = "complex" => ~ IsReference(b.object) /\ b.object # error_type
        BY <1>1 DEF Declared
    <1>9. batch'[i].name = n
        BY <1>2
    <1> HIDE DEF b, o
    <1>10. /\ n \in DOMAIN typenames'[Here]
           /\ Declares(n)' => \/ typenames'[Here][n] = b.object
                              \/ /\ types'[typenames'[Here][n]].kind = "reference"
                                 /\ types'[typenames'[Here][n]].meaning = b.object
        BY <1>5, <1>6, <1>7
    <1>11. b.kind = "complex" => types'[b.object].kind # "reference" /\ b.object # error_type
        BY <1>2, <1>8 DEF IsReference
    <1> QED
        BY <1>2, <1>4, <1>9, <1>10, <1>11 DEF Declared, Leads, IsReference

LEMMA DeclareDeclared ==
    ASSUME TypeInv, MeaningInv, NEW name \in TypeIds, NEW kind \in {"name", "complex"},
           NEW part \in AllNames, Declare(name, kind, part), ~ InBatch(name)
    PROVE  \A i \in DOMAIN batch' : Declared(i)'
    <1> DEFINE e == Entry(name, kind, part)
    <1> PICK last : last = Len(batch) + 1
        OBVIOUS
    <1>1. /\ DOMAIN batch' = DOMAIN batch \cup {last} /\ batch'[last] = e
          /\ e.name = name /\ e.part = part /\ e.kind = kind /\ e.object = NewType(kind, part)
        BY DeclareRest DEF Entry
    <1>2. env' = env /\ Here' = Here
        BY DeclareRest, DeclaredNames
    <1>3. KnownBefore(last)' <=> lookup(env, part, NULL) # NULL /\ ~ Declares(part)
        BY DeclareKnown
    <1> HIDE DEF e
    <1>4. kind = "complex" =>
             /\ types'[NewType(kind, part)].kind = "complex" /\ NewType(kind, part) # error_type
             /\ types'[NewType(kind, part)].part_types = <<PartType(part)>>
        <2>1. error_type \in Objects
            BY ObjectsAre DEF TypeInv
        <2>2. kind = "complex" => NewType(kind, part) \notin Objects
            BY DeclareExtends
        <2> QED
            BY <2>1, <2>2, DeclareGives
    <1>5. PartObject(last)' = PartType(part)
        <2>1. CASE kind = "name"
            BY <1>1, <2>1 DEF PartObject, NewType
        <2>2. CASE kind = "complex"
            <3>1. types'[NewType(kind, part)].part_types[1] = PartType(part)
                BY <1>4, <2>2
            <3> QED
                BY <1>1, <2>2, <3>1 DEF PartObject
        <2> QED
            BY <2>1, <2>2
    <1>6. PartFound(last)'
        <2>1. CASE lookup(env, part, NULL) # NULL /\ ~ Declares(part)
            <3> DEFINE B == {lookup(env, part, error_type)}
            <3>1. PartType(part) \in Back(types, B)
                BY <2>1, DeclarePart
            <3>2. /\ Extends(types, types') /\ NULL \notin DOMAIN types
                  /\ Plain(types) \subseteq DOMAIN types /\ DOMAIN types \subseteq DOMAIN types'
                BY DeclareExtends, ObjectsAre DEF TypeInv, Plain, Extends
            <3>3. B \in SUBSET DOMAIN types /\ B \in SUBSET DOMAIN types'
                <4>1. lookup(env, part, error_type) \in Plain(types)
                    BY <2>1, EnvFinds, DeclareGives
                <4> QED
                    BY <3>2, <4>1
            <3> HIDE DEF B
            <3>4. PartType(part) \in Back(types', B)
                BY <3>1, <3>2, <3>3, BackGrows
            <3>5. B = {lookup(env', batch'[last].part, error_type)}
                BY <1>1, <1>2 DEF B
            <3> QED
                BY <1>3, <1>5, <2>1, <3>4, <3>5 DEF PartFound
        <2>2. CASE lookup(env, part, NULL) = NULL \/ Declares(part)
            <3>1. lookup(typenames', part, NULL) = PartType(part)
                BY <2>2, DeclarePart
            <3>2. PartType(part) # NULL
                BY DeclareGives
            <3> QED
                BY <1>1, <1>3, <1>5, <2>2, <3>1, <3>2 DEF PartFound
        <2> QED
            BY <2>1, <2>2
    <1>7. /\ name \in DOMAIN typenames'[Here]
          /\ name \notin DOMAIN env[Here] =>
               LET t == typenames'[Here][name] IN
                 \/ t = NewType(kind, part)
                 \/ types'[t].kind = "reference" /\ types'[t].meaning = NewType(kind, part)
        BY DeclareLeads
    <1>8. Declares(name)' => name \notin DOMAIN env[Here]
        BY DeclareKnown DEF Declares
    <1>9. Declared(last)'
        BY <1>1, <1>2, <1>4, <1>6, <1>7, <1>8 DEF Declared, Leads, IsReference
    <1> QED
        BY <1>1, <1>9, DeclaredStays

LEMMA DeclareInOrder ==
    ASSUME TypeInv, MeaningInv, NEW name \in TypeIds, NEW kind \in {"name", "complex"},
           NEW part \in AllNames, Declare(name, kind, part), ~ InBatch(name)
    PROVE  InOrder'
    <1> DEFINE e == Entry(name, kind, part)
    <1> PICK last : last = Len(batch) + 1
        OBVIOUS
    <1>1. /\ DOMAIN batch' = DOMAIN batch \cup {last} /\ batch'[last] = e
          /\ \A i \in DOMAIN batch : batch'[i] = batch[i]
          /\ e.name = name /\ e.part = part /\ e.kind = kind /\ e.object = NewType(kind, part)
        BY DeclareRest DEF Entry
    <1>2. \A i \in DOMAIN batch : i < last
        BY BatchType DEF TypeInv
    <1>3. /\ \A i \in DOMAIN batch : KnownBefore(i)' <=> KnownBefore(i)
          /\ KnownBefore(last)' <=> lookup(env, part, NULL) # NULL /\ ~ Declares(part)
        BY DeclareKnown
    <1> HIDE DEF e
    <1>4. ~ Declares(name) /\ NamesMean
        BY DeclareGives DEF Declares
    \* What the name was known as when it was used, now means the new type.
    <1>5. ASSUME lookup(env, name, NULL) = NULL, lookup(typenames, name, NULL) # NULL
          PROVE  LET t == lookup(typenames, name, NULL)
                 IN  types'[t].kind = "reference" /\ types'[t].meaning = NewType(kind, part)
        <2> DEFINE t == lookup(typenames, name, NULL)
        <2>1. name \in DOMAIN typenames[Here] /\ t = typenames[Here][name]
            BY <1>4, <1>5, FoundHere
        <2>2. t \in Objects
            BY <2>1, HereIs
        <2>3. Waits(name)
            <3>1. name \notin DOMAIN env[Here]
                BY <1>4, <1>5, EnvFinds, HereIs
            <3> QED
                BY <2>1, <3>1, DeclareGives
        <2>4. types[t].kind = "reference"
            BY <2>1, <2>3, DeclareGives DEF Undefined, IsReference
        <2> QED
            BY <2>1, <2>2, <2>3, <2>4, DeclareGives
    <1>6. ASSUME NEW i \in DOMAIN batch', NEW j \in DOMAIN batch',
                 batch'[i].kind = "name", ~ KnownBefore(i)', batch'[i].part = batch'[j].name
          PROVE  \/ j < i
                 \/ /\ types'[batch'[i].object].kind = "reference"
                    /\ types'[batch'[i].object].meaning = batch'[j].object
        <2>1. CASE i \in DOMAIN batch /\ j \in DOMAIN batch
            <3> DEFINE o == batch[i].object
            <3>1. /\ j < i \/ (IsReference(o) /\ types[o].meaning = batch[j].object)
                  /\ batch'[i] = batch[i] /\ batch'[j] = batch[j]
                BY <1>1, <1>3, <1>6, <2>1 DEF MeaningInv, InOrder
            <3>2. o \in Objects /\ batch[j].object \in Objects
                BY <2>1 DEF TypeInv, BatchInv
            <3>3. batch[j].object # NULL
                BY <3>2 DEF Objects, NULL
            <3> HIDE DEF o
            <3>4. types[o].meaning # NULL => types'[o].meaning = types[o].meaning
                BY <3>2, DeclareKeeps
            <3>5. types'[o].kind = types[o].kind
                BY <3>2, DeclareGives
            <3> QED
                BY <3>1, <3>3, <3>4, <3>5 DEF IsReference, o
        <2>2. CASE i = last /\ j \in DOMAIN batch
            BY <1>2, <2>2
        <2>3. CASE i = last /\ j = last
            <3>1. kind = "name" /\ part = name
                BY <1>1, <1>6, <2>3
            <3>2. lookup(env, name, NULL) = NULL
                BY <1>3, <1>4, <1>6, <2>3, <3>1
            <3>3. NewType(kind, part) = PartType(part)
                BY <3>1 DEF NewType
            <3>4. CASE Fresh(part)
                <4>1. types'[NewReference].kind = "reference" /\ types'[NewReference].meaning = NewType(kind, part)
                    BY <3>1, <3>4, DeclareGives
                <4> QED
                    BY <1>1, <2>3, <3>3, <3>4, <4>1 DEF PartType
            <3>5. CASE ~ Fresh(part)
                <4>1. PartType(part) = lookup(typenames, name, NULL) /\ lookup(typenames, name, NULL) # NULL
                    BY <3>1, <3>5 DEF PartType, Fresh
                <4> QED
                    BY <1>1, <1>5, <2>3, <3>2, <3>3, <4>1
            <3> QED
                BY <3>4, <3>5
        <2>4. CASE i \in DOMAIN batch /\ j = last
            <3>1. batch'[i] = batch[i] /\ batch[i].kind = "name" /\ batch[i].part = name /\ ~ KnownBefore(i)
                BY <1>1, <1>3, <1>6, <2>4
            <3>2. lookup(env, name, NULL) = NULL
                BY <1>4, <3>1 DEF KnownBefore
            <3>3. batch[i].object = lookup(typenames, name, NULL) /\ lookup(typenames, name, NULL) # NULL
                BY <2>4, <3>1 DEF MeaningInv, Declared, PartFound, PartObject
            <3> QED
                BY <1>1, <1>5, <2>4, <3>1, <3>2, <3>3
        <2> QED
            BY <1>1, <1>6, <2>1, <2>2, <2>3, <2>4
    <1> QED
        BY <1>6 DEF InOrder, IsReference

LEMMA NameDeclare ==
    ASSUME TypeInv, NameInv, NEW name \in TypeIds, NEW kind \in {"name", "complex"},
           NEW part \in AllNames, Declare(name, kind, part)
    PROVE  NameInv'
    <1>1. /\ errors' = (errors \/ InBatch(name)) /\ pc = "declare"
          /\ UNCHANGED <<pc, current, visited_types, rejected, env>>
        BY DeclareRest
    <1>2. Twice' <=> Twice \/ InBatch(name)
        <2> DEFINE e == Entry(name, kind, part)
                   last == Len(batch) + 1
        <2>1. /\ DOMAIN batch' = DOMAIN batch \cup {last} /\ batch'[last] = e
              /\ \A i \in DOMAIN batch : batch'[i] = batch[i]
              /\ e.name = name
            BY DeclareRest DEF Entry
        <2>2. \A i \in DOMAIN batch : i # last
            BY BatchType DEF TypeInv
        <2> HIDE DEF e, last
        <2> QED
            BY <2>1, <2>2 DEF Twice, InBatch
    <1>3. Twice' => BatchIsWrong'
        BY DEF Twice, BatchIsWrong
    <1>4. ErrorsInv'
        BY <1>1, <1>2, <1>3 DEF NameInv, ErrorsInv
    <1>5. ASSUME ~ rejected', ~ errors'
          PROVE  MeaningInv'
        <2>1. MeaningInv /\ ~ InBatch(name)
            BY <1>1, <1>5 DEF NameInv
        <2>2. OldNames'
            BY <2>1, DeclareOldNames
        <2>3. NewNames'
            BY <2>1, DeclareNewNames
        <2>4. UnknownNames' /\ NewReferences'
            BY <2>1, DeclareUnknownNames, DeclareNewReferences
        <2>5. (\A i \in DOMAIN batch : Declared(i))'
            BY <2>1, DeclareDeclared
        <2>6. InOrder'
            BY <2>1, DeclareInOrder
        <2>7. WalkInv'
            BY <1>1 DEF WalkInv
        <2> QED
            BY <2>2, <2>3, <2>4, <2>5, <2>6, <2>7 DEF MeaningInv
    <1> QED
        BY <1>4, <1>5 DEF NameInv
-----------------------------------------------------------------------------
(* The loops find what is wrong and nothing else. *)

\* Nothing that names depend on has changed.
LEMMA MeaningKept ==
    ASSUME MeaningInv, UNCHANGED <<types, typenames, env, batch>>, WalkInv'
    PROVE  MeaningInv'
    <1>0. \A i : KnownBefore(i)' <=> KnownBefore(i)
        BY DEF KnownBefore, Declares, InBatch, First
    <1>1. /\ OldNames' <=> OldNames
          /\ UnknownNames' <=> UnknownNames
          /\ NewNames' <=> NewNames
          /\ NewReferences' <=> NewReferences
          /\ InOrder' <=> InOrder
        BY <1>0 DEF OldNames, UnknownNames, NewNames, NewReferences, InOrder, Undefined, IsReference, Waits,
               Here, InBatch, UsedInBatch, Objects
    <1>2. \A i : Declared(i)' <=> Declared(i)
        BY <1>0 DEF Declared, PartFound, PartObject, Declares, InBatch, Leads, Here, IsReference
    <1> QED
        BY <1>1, <1>2 DEF MeaningInv

LEMMA NameBatchEnds ==
    ASSUME TypeInv, NameInv, BatchEnds
    PROVE  NameInv'
    <1>1. UNCHANGED <<types, typenames, env, batch, errors, rejected>> /\ pc = "declare" /\ pc' = "undefined"
        BY DEF BatchEnds
    <1>2. ErrorsInv'
        BY <1>1, WrongStays DEF NameInv, ErrorsInv
    <1>3. WalkInv'
        BY <1>1 DEF WalkInv
    <1>4. MeaningInv => MeaningInv'
        BY <1>1, <1>3, MeaningKept
    <1> QED
        BY <1>1, <1>2, <1>4 DEF NameInv

LEMMA NameRejectUndefined ==
    ASSUME TypeInv, ResolveInv, NameInv, RejectUndefined
    PROVE  NameInv'
    <1>1. /\ UNCHANGED <<typenames, batch, env, rejected>> /\ pc = "undefined" /\ pc' = "circular"
          /\ errors' = (errors \/ \E t \in Unknown : Undefined(t))
          /\ types' = [t \in DOMAIN types |->
                IF t \in Unknown /\ Undefined(t)
                THEN [types[t] EXCEPT !.meaning = error_type] ELSE types[t]]
        BY DEF RejectUndefined
    <1>2. (BatchIsWrong' <=> BatchIsWrong) /\ (Twice' <=> Twice)
        BY <1>1, WrongStays
    <1>3. ASSUME ~ rejected, ~ errors, NEW t \in Unknown, Undefined(t)
          PROVE  BatchIsWrong
        <2>1. t \in Objects
            BY DEF Unknown, TypeInv, LoopInv
        <2>2. NamesMean /\ UnknownNames
            BY <1>3 DEF NameInv, MeaningInv, NamesMean
        <2> QED
            BY <1>3, <2>1, <2>2, UndefinedIsWrong
    <1>4. ErrorsInv'
        BY <1>1, <1>2, <1>3 DEF NameInv, ErrorsInv
    <1>5. ASSUME ~ rejected', ~ errors'
          PROVE  MeaningInv'
        <2>1. ~ rejected /\ ~ errors /\ \A t \in Unknown : ~ Undefined(t)
            BY <1>1, <1>5
        <2>2. types' = types
            <3>1. types \in Seq(TypeObjects)
                BY DEF TypeInv, TypesInv
            <3>2. types' = [t \in DOMAIN types |-> types[t]]
                BY <1>1, <2>1
            <3> QED
                BY <3>1, <3>2
        <2>3. WalkInv'
            BY <1>1 DEF WalkInv
        <2> QED
            BY <1>1, <2>1, <2>2, <2>3, MeaningKept DEF NameInv
    <1> QED
        BY <1>4, <1>5 DEF NameInv

LEMMA NameWalks ==
    ASSUME TypeInv, NameInv, StartWalk \/ WalkEnds
    PROVE  NameInv'
    <1>1. /\ UNCHANGED <<types, typenames, batch, env, errors, rejected>>
          /\ pc \in {"circular", "walk"} /\ pc' \in {"circular", "walk"}
          /\ pc' = "walk" => visited_types' = {}
        BY DEF StartWalk, WalkEnds
    <1>2. ErrorsInv'
        BY <1>1, WrongStays DEF NameInv, ErrorsInv
    <1>3. WalkInv'
        BY <1>1 DEF WalkInv
    <1>4. MeaningInv => MeaningInv'
        BY <1>1, <1>3, MeaningKept
    <1> QED
        BY <1>1, <1>2, <1>4 DEF NameInv

LEMMA NameWalkOn ==
    ASSUME TypeInv, ResolveInv, NameInv, WalkOn
    PROVE  NameInv'
    <1>1. /\ UNCHANGED <<typenames, batch, env, rejected>>
          /\ pc = "walk" /\ IsReference(types[current].meaning)
          /\ visited_types' = visited_types \cup {current}
        BY DEF WalkOn, Visited
    <1> DEFINE next == types[current].meaning
    <1>2. /\ next \in visited_types' => types' = CircleBroken /\ errors' = TRUE /\ pc' = "circular"
          /\ next \notin visited_types' => current' = next /\ UNCHANGED <<types, errors, pc>>
        BY DEF WalkOn
    <1>3. (BatchIsWrong' <=> BatchIsWrong) /\ (Twice' <=> Twice)
        BY <1>1, WrongStays
    <1>4. current \in Objects /\ IsReference(current)
        BY <1>1 DEF TypeInv, LoopInv
    <1>5. CASE next \in visited_types'
        <2>1. ASSUME ~ rejected, ~ errors
              PROVE  BatchIsWrong
            <3> DEFINE V == visited_types'
            <3>1. MeaningInv /\ ~ Twice
                BY <2>1 DEF NameInv, ErrorsInv
            <3>2. NamesMean /\ NewReferences /\ WalkInv
                BY <3>1 DEF MeaningInv, NamesMean
            <3>3. /\ V \in SUBSET Objects /\ V # {}
                  /\ \A t \in V : IsReference(t) /\ types[t].meaning \in V
                BY <1>1, <1>4, <1>5, <3>2 DEF WalkInv
            <3>4. \A t \in Objects : ~ Undefined(t)
                BY <1>1 DEF ResolveInv
            <3> HIDE DEF V
            <3> QED
                BY <3>1, <3>2, <3>3, <3>4, CircleIsWrong
        <2> QED
            BY <1>1, <1>2, <1>3, <1>5, <2>1 DEF NameInv, ErrorsInv
    <1>6. CASE next \notin visited_types'
        <2>1. ErrorsInv'
            BY <1>1, <1>2, <1>3, <1>6 DEF NameInv, ErrorsInv
        <2>2. MeaningInv => WalkInv'
            <3> SUFFICES ASSUME MeaningInv PROVE WalkInv'
                OBVIOUS
            <3>1. WalkInv
                BY DEF MeaningInv
            <3>2. Objects' = Objects /\ types' = types /\ current' = next
                BY <1>2, <1>6 DEF Objects
            <3>3. \A t \in visited_types : t \in Objects /\ IsReference(t)
                                           /\ types[t].meaning \in visited_types \cup {current}
                BY <1>1, <3>1 DEF WalkInv
            <3> HIDE DEF next
            <3>4. \A t \in visited_types' : t \in Objects /\ IsReference(t)
                                            /\ types[t].meaning \in visited_types' \cup {next}
                BY <1>1, <1>4, <3>3 DEF next
            <3> QED
                BY <3>2, <3>4 DEF WalkInv, IsReference
        <2>3. MeaningInv => MeaningInv'
            BY <1>1, <1>2, <1>6, <2>2, MeaningKept
        <2> QED
            BY <1>1, <1>2, <1>6, <2>1, <2>3 DEF NameInv
    <1> QED
        BY <1>5, <1>6

LEMMA NameBatchDone ==
    ASSUME TypeInv, ResolveInv, NameInv, BatchDone
    PROVE  NameInv'
    <1>1. /\ UNCHANGED <<types, typenames>> /\ batch' = <<>> /\ errors' = FALSE /\ pc' = "declare"
          /\ rejected' = (rejected \/ errors) /\ LoopsDone
        BY DEF BatchDone, LoopsDone
    <1>2. ErrorsInv'
        BY <1>1 DEF ErrorsInv, Twice
    <1>3. ASSUME ~ rejected, ~ errors
          PROVE  MeaningInv'
        <2>1. MeaningInv /\ ~ Twice
            BY <1>3 DEF NameInv, ErrorsInv
        <2>2. NamesMean /\ InOrder
            BY <2>1 DEF MeaningInv, NamesMean
        <2>3. /\ \A t \in Objects : ~ Undefined(t)
              /\ Objects \subseteq Back(types, Plain(types))
            <3>1. pc = "circular" /\ Unknown = {}
                BY <1>1 DEF LoopsDone, Unknown
            <3> QED
                BY <3>1 DEF ResolveInv, Begun
        <2>4. /\ Len(env') = Here /\ Here \in Nat \ {0} /\ Here' = Here /\ Objects' = Objects
              /\ \A k \in 1 .. Here - 1 : env'[k] = env[k]
              /\ \A x : x \in DOMAIN env'[Here] <=> x \in DOMAIN env[Here] \/ InBatch(x)
              /\ \A x \in DOMAIN env'[Here] :
                   env'[Here][x] = IF Declares(x) THEN Meaning(x) ELSE env[Here][x]
            BY <1>1, HereIs, EnvDone DEF TypeInv, Here, Objects
        <2>5. ASSUME NEW x, Declares(x)
              PROVE  /\ Meaning(x) \in Plain(types) /\ Meaning(x) # error_type
                     /\ x \in DOMAIN typenames[Here]
                     /\ typenames[Here][x] \in Back(types, {Meaning(x)})
            <3>1. PICK i \in DOMAIN batch : batch[i].name = x
                BY <2>5 DEF Declares, InBatch
            <3>2. Meaning(x) # error_type
                BY <1>1, <2>1, <2>2, <3>1, AllMean
            <3>3. x \in AllNames /\ x \in DOMAIN typenames[Here]
                BY <2>2, <3>1, BatchType DEF NamesMean, Declared, TypeInv
            <3>4. lookup(typenames, x, NULL) = typenames[Here][x] /\ typenames[Here][x] # NULL
                <4>1. lookup(typenames, x, NULL) = typenames[Here][x] /\ typenames[Here][x] \in Objects
                    BY <2>4, <3>3, LookupType, HereIs DEF TypeInv
                <4> QED
                    BY <4>1 DEF Objects, NULL
            <3>5. Len(batch) \in Nat
                BY BatchType DEF TypeInv
            <3> QED
                BY <2>1, <2>2, <3>2, <3>3, <3>4, <3>5, MeaningsLead DEF Meaning
        <2>6. OldNames'
            <3>1. ASSUME NEW k \in 1 .. Here, NEW x \in DOMAIN env'[k]
                  PROVE  /\ env'[k][x] \in Plain(types) /\ env'[k][x] # error_type
                         /\ x \in DOMAIN typenames[k]
                         /\ typenames[k][x] \in Back(types, {env'[k][x]})
                <4>1. CASE k = Here /\ Declares(x)
                    BY <2>4, <2>5, <3>1, <4>1
                <4>2. CASE k # Here \/ ~ Declares(x)
                    <5>1. k \in 1 .. Len(env) /\ x \in DOMAIN env[k] /\ env'[k][x] = env[k][x]
                        <6>1. CASE k = Here
                            BY <2>4, <3>1, <4>2, <6>1, HereIs DEF Declares, LastLayer
                        <6>2. CASE k # Here
                            <7>1. k \in 1 .. Here - 1
                                BY <2>4, <6>2
                            <7> QED
                                BY <2>4, <3>1, <7>1, HereIs
                        <6> QED
                            BY <6>1, <6>2
                    <5> QED
                        BY <2>2, <5>1 DEF NamesMean, OldNames, MeaningInv
                <4> QED
                    BY <4>1, <4>2
            <3> QED
                BY <1>1, <2>2, <2>4, <3>1 DEF OldNames
        <2>7. \A x \in AllNames : ~ Waits(x)
            <3> SUFFICES ASSUME NEW x \in AllNames, Waits(x) PROVE FALSE
                OBVIOUS
            <3>1. Undefined(typenames[Here][x]) /\ typenames[Here][x] \in Objects
                BY <2>2, WaitingNames, HereIs DEF Waits
            <3> QED
                BY <2>3, <3>1
        <2>8. \A x \in AllNames : ~ Waits(x)'
            BY <1>1, <2>4, <2>7 DEF Waits
        <2>9. NewNames'
            <3>1. \A k \in 1 .. Here - 1 : DOMAIN typenames[k] \subseteq DOMAIN env[k]
                BY <2>1 DEF MeaningInv, NewNames
            <3> QED
                BY <1>1, <2>4, <2>8, <3>1 DEF NewNames
        <2>10. UnknownNames' /\ NewReferences'
            <3>1. \A t : Undefined(t)' <=> Undefined(t)
                BY <1>1 DEF Undefined, IsReference
            <3> QED
                BY <1>1, <2>3, <2>4, <3>1 DEF UnknownNames, NewReferences
        <2>11. (\A i \in DOMAIN batch : Declared(i))' /\ InOrder' /\ WalkInv'
            BY <1>1 DEF InOrder, WalkInv
        <2> QED
            BY <2>6, <2>9, <2>10, <2>11 DEF MeaningInv
    <1> QED
        BY <1>1, <1>2, <1>3 DEF NameInv

\* Between batches nothing is left open.
LEMMA NothingOpen ==
    ASSUME TypeInv, ResolveInv, NameInv, BetweenBatches
    PROVE  /\ ~ errors /\ \A x : ~ InBatch(x)
           /\ \A t \in Objects : ~ Undefined(t)
           /\ Objects \subseteq Back(types, Plain(types))
           /\ MeaningInv => \A x \in AllNames : ~ Waits(x)
    <1>1. pc = "declare" /\ batch = <<>> /\ unknown_types = <<>>
        BY DEF BetweenBatches, TypeInv, LoopInv
    <1>2. ~ errors /\ \A x : ~ InBatch(x)
        BY <1>1 DEF NameInv, ErrorsInv, Twice, InBatch
    <1>3. Unknown = {}
        BY <1>1 DEF Unknown
    <1>4. (\A t \in Objects : ~ Undefined(t)) /\ Objects \subseteq Back(types, Plain(types))
        BY <1>1, <1>3 DEF ResolveInv, Begun
    <1>5. ASSUME MeaningInv, NEW x \in AllNames, Waits(x)
          PROVE  FALSE
        <2>1. NamesMean
            BY <1>5 DEF MeaningInv, NamesMean
        <2>2. Undefined(typenames[Here][x]) /\ typenames[Here][x] \in Objects
            BY <1>5, <2>1, WaitingNames, HereIs DEF Waits
        <2> QED
            BY <1>4, <2>2
    <1> QED
        BY <1>2, <1>4, <1>5

LEMMA NameLayers ==
    ASSUME TypeInv, ResolveInv, NameInv, NewLayer \/ RemoveLayer
    PROVE  NameInv'
    <1>1. /\ UNCHANGED <<types, batch, pc, errors, rejected>> /\ pc = "declare" /\ batch = <<>> /\ BetweenBatches
        BY DEF NewLayer, RemoveLayer, BetweenBatches
    <1>2. ErrorsInv'
        BY <1>1, NothingOpen DEF ErrorsInv, Twice
    <1>3. ASSUME MeaningInv
          PROVE  MeaningInv'
        <2>1. /\ \A k \in 1 .. Here - 1 : DOMAIN typenames[k] \subseteq DOMAIN env[k]
              /\ \A x \in AllNames : ~ Waits(x)
              /\ \A t \in Objects : ~ Undefined(t)
              /\ Objects \subseteq Back(types, Plain(types))
              /\ OldNames
            BY <1>1, <1>3, NothingOpen DEF MeaningInv, NewNames
        <2>2. Here \in Nat \ {0} /\ Here = Len(typenames) /\ Here = Len(env)
              /\ typenames \in Maps /\ env \in Maps /\ \A x : ~ InBatch(x)
            BY <1>1, HereIs, NothingOpen
        <2>3. \A k \in 1 .. Here : DOMAIN typenames[k] \subseteq DOMAIN env[k]
            <3>1. DOMAIN typenames[Here] \subseteq DOMAIN env[Here]
                <4>1. DOMAIN typenames[Here] \subseteq AllNames
                    BY <2>2, HereIs
                <4> QED
                    BY <2>1, <2>2, <4>1 DEF Waits
            <3>2. \A k \in 1 .. Here : k = Here \/ k \in 1 .. Here - 1
                BY <2>2
            <3> QED
                BY <2>1, <3>1, <3>2
        <2>4. /\ Here' \in Nat \ {0} /\ Here' = Len(env')
              /\ \A k \in 1 .. Here' : \/ /\ k \in 1 .. Here
                                          /\ typenames'[k] = typenames[k] /\ env'[k] = env[k]
                                       \/ k = Here' /\ typenames'[k] = <<>> /\ env'[k] = <<>>
            <3>1. CASE NewLayer
                <4>1. typenames' = newLayer(typenames) /\ env' = newLayer(env)
                    BY <3>1 DEF NewLayer
                <4>2. /\ Len(typenames') = Here + 1 /\ Len(env') = Here + 1
                      /\ \A k \in 1 .. Here : typenames'[k] = typenames[k] /\ env'[k] = env[k]
                      /\ typenames'[Here + 1] = <<>> /\ env'[Here + 1] = <<>>
                    BY <2>2, <4>1, LayerAdded
                <4>3. \A k \in 1 .. Here + 1 : k \in 1 .. Here \/ k = Here + 1
                    BY <2>2
                <4>4. Here' = Here + 1
                    BY <4>2 DEF Here
                <4> QED
                    BY <2>2, <4>2, <4>3, <4>4
            <3>2. CASE RemoveLayer
                <4>1. typenames' = removeLastLayer(typenames) /\ env' = removeLastLayer(env) /\ Here > 1
                    BY <2>2, <3>2 DEF RemoveLayer
                <4>2. /\ Len(typenames') = Here - 1 /\ Len(env') = Here - 1
                      /\ \A k \in 1 .. Here - 1 : typenames'[k] = typenames[k] /\ env'[k] = env[k]
                    BY <2>2, <4>1, LayerRemoved
                <4>3. \A k \in 1 .. Here - 1 : k \in 1 .. Here
                    BY <2>2
                <4>4. Here' = Here - 1
                    BY <4>2 DEF Here
                <4>5. Here - 1 \in Nat \ {0}
                    BY <2>2, <4>1
                <4> QED
                    BY <4>2, <4>3, <4>4, <4>5
            <3> QED
                BY <3>1, <3>2
        <2>5. DOMAIN <<>> = {}
            BY EmptyLayer
        <2>6. OldNames'
            <3>1. \A k \in 1 .. Here' : \A x \in DOMAIN env'[k] :
                    /\ env'[k][x] \in Plain(types) /\ env'[k][x] # error_type
                    /\ x \in DOMAIN typenames'[k]
                    /\ typenames'[k][x] \in Back(types, {env'[k][x]})
                BY <2>1, <2>2, <2>4, <2>5 DEF OldNames
            <3> QED
                BY <1>1, <2>4, <3>1 DEF OldNames
        <2>7. \A k \in 1 .. Here' : DOMAIN typenames'[k] \subseteq DOMAIN env'[k]
            BY <2>3, <2>4, <2>5
        <2>8. \A x \in AllNames : ~ Waits(x)'
            <3>1. DOMAIN typenames'[Here'] \subseteq DOMAIN env'[Here']
                BY <2>4, <2>7
            <3> QED
                BY <3>1 DEF Waits
        <2>9. NewNames'
            <3>1. \A k \in 1 .. Here' - 1 : k \in 1 .. Here'
                BY <2>4
            <3> QED
                BY <2>7, <2>8, <3>1 DEF NewNames
        <2>10. UnknownNames' /\ NewReferences'
            <3>1. Objects' = Objects /\ types' = types /\ \A t : Undefined(t)' <=> Undefined(t)
                BY <1>1 DEF Undefined, IsReference, Objects
            <3> QED
                BY <2>1, <3>1 DEF UnknownNames, NewReferences
        <2>11. (\A i \in DOMAIN batch : Declared(i))' /\ InOrder' /\ WalkInv'
            BY <1>1 DEF InOrder, WalkInv
        <2> QED
            BY <2>6, <2>9, <2>10, <2>11 DEF MeaningInv
    <1> QED
        BY <1>1, <1>2, <1>3 DEF NameInv

LEMMA NameStutters ==
    ASSUME TypeInv, NameInv, UNCHANGED vars
    PROVE  NameInv'
    <1>1. /\ UNCHANGED <<types, typenames, batch, env, errors, rejected, pc, visited_types, current>>
        BY DEF vars
    <1>2. ErrorsInv'
        BY <1>1, WrongStays DEF NameInv, ErrorsInv
    <1>3. WalkInv => WalkInv'
        BY <1>1 DEF WalkInv, Objects, IsReference
    <1>4. MeaningInv => MeaningInv'
        BY <1>1, <1>3, MeaningKept DEF MeaningInv
    <1> QED
        BY <1>1, <1>2, <1>4 DEF NameInv

LEMMA NameNext ==
    TypeInv /\ ResolveInv /\ NameInv /\ [Next]_vars => NameInv'
    <1> SUFFICES ASSUME TypeInv, ResolveInv, NameInv, [Next]_vars PROVE NameInv'
        OBVIOUS
    <1>1. ASSUME NEW name \in TypeIds, NEW kind \in {"name", "complex"}, NEW part \in TypeIds \cup {IntName},
                 Declare(name, kind, part)
          PROVE  NameInv'
        BY <1>1, NameDeclare DEF AllNames
    <1>2. CASE BatchEnds
        BY <1>2, NameBatchEnds
    <1>3. CASE RejectUndefined
        BY <1>3, NameRejectUndefined
    <1>4. CASE StartWalk \/ WalkEnds
        BY <1>4, NameWalks
    <1>5. CASE WalkOn
        BY <1>5, NameWalkOn
    <1>6. CASE BatchDone
        BY <1>6, NameBatchDone
    <1>7. CASE NewLayer \/ RemoveLayer
        BY <1>7, NameLayers
    <1>8. CASE UNCHANGED vars
        BY <1>8, NameStutters
    <1> QED
        BY <1>1, <1>2, <1>3, <1>4, <1>5, <1>6, <1>7, <1>8 DEF Next

LEMMA AlwaysNamesMean ==
    Spec => [](TypeInv /\ ResolveInv /\ NameInv)
    <1>1. Init => TypeInv /\ ResolveInv /\ NameInv
        BY TypeInit, ResolveInit, NameInit
    <1>2. (TypeInv /\ ResolveInv /\ NameInv) /\ [Next]_vars => (TypeInv /\ ResolveInv /\ NameInv)'
        BY TypeNext, ResolveNext, NameNext
    <1> QED
        BY <1>1, <1>2, PTL DEF Spec

\* processTypeDeclarationBatch reports an error just when a name of the batch
\* is undefined, declared twice or defined by itself, for every sequence of
\* declarations and scopes.
THEOREM RejectsJustWrongBatches ==
    Spec => []RejectsExactly
    <1>1. TypeInv /\ ResolveInv /\ NameInv => RejectsExactly
        <2> SUFFICES ASSUME TypeInv, ResolveInv, NameInv, LoopsDone, ~ rejected
                     PROVE  errors <=> BatchIsWrong
            BY DEF RejectsExactly
        <2>1. errors => BatchIsWrong
            BY DEF NameInv, ErrorsInv
        <2>2. ASSUME ~ errors
              PROVE  ~ BatchIsWrong
            <3>1. NamesMean /\ InOrder /\ ~ Twice
                BY <2>2 DEF NameInv, ErrorsInv, MeaningInv, NamesMean
            <3>2. \A i \in DOMAIN batch :
                     Meaning(batch[i].name) # error_type /\ PartMeaning(i) # error_type
                BY <3>1, AllMean
            <3> QED
                BY <3>1, <3>2 DEF BatchIsWrong, Twice
        <2> QED
            BY <2>1, <2>2
    <1> QED
        BY <1>1, AlwaysNamesMean, PTL

\* In a program without errors every name leads, over the references that
\* getType made for it, to the first type declared under it in the innermost
\* scope that declares it, and the parts of arrays and records to what their
\* names meant: the type of the batch, unless the name was known further out
\* and the batch had not yet declared it.
THEOREM NamesLeadToTheirTypes ==
    Spec => []NamesMeanTheirDeclarations
    <1>1. ASSUME TypeInv, ResolveInv, NameInv, BetweenBatches, ~ rejected, NEW name \in TypeIds
          PROVE  Resolved(lookup(typenames, name, NULL)) = lookup(env, name, NULL)
        <2>1. /\ MeaningInv /\ NamesMean /\ name \in AllNames /\ ~ InBatch(name) /\ ~ Waits(name)
              /\ TypesInv
            BY <1>1, NothingOpen DEF NameInv, MeaningInv, NamesMean, AllNames, TypeInv
        <2>2. CASE lookup(typenames, name, NULL) # NULL
            <3>1. PICK k \in 1 .. Here : /\ Innermost(env, name, k) /\ name \in DOMAIN typenames[k]
                                         /\ lookup(typenames, name, NULL) = typenames[k][name]
                                         /\ lookup(env, name, NULL) = env[k][name]
                BY <1>1, <2>1, <2>2, FoundOutside DEF Declares
            <3>2. env[k][name] \in Plain(types) /\ typenames[k][name] \in Back(types, {env[k][name]})
                BY <2>1, <3>1 DEF NamesMean, OldNames, Innermost
            <3> QED
                BY <2>1, <3>1, <3>2, ResolvedBack
        <2>3. CASE lookup(typenames, name, NULL) = NULL
            <3>1. Len(types) \in Nat
                BY <2>1, ObjectsAre
            <3>2. Resolved(NULL) = NULL
                BY <2>1, <3>1, FollowingFacts DEF Resolved
            <3>3. \A k \in 1 .. Here : name \notin DOMAIN typenames[k]
                BY <1>1, <2>3, LookupCases, HereIs DEF Innermost
            <3>4. \A k \in 1 .. Len(env) : name \notin DOMAIN env[k]
                BY <1>1, <2>1, <3>3, HereIs DEF NamesMean, OldNames
            <3>5. lookup(env, name, NULL) = NULL
                BY <1>1, <3>4, LookupFindsNone, HereIs
            <3> QED
                BY <2>3, <3>2, <3>5
        <2> QED
            BY <2>2, <2>3
    <1>2. ASSUME TypeInv, ResolveInv, NameInv, LoopsDone, ~ errors, ~ rejected,
                 NEW i \in DOMAIN batch, batch[i].kind = "complex"
          PROVE  Resolved(types[batch[i].object].part_types[1]) = PartMeaning(i)
        <2> DEFINE p == batch[i].part
                   o == types[batch[i].object].part_types[1]
        <2>1. NamesMean /\ InOrder /\ ~ Twice /\ TypesInv
            BY <1>2 DEF NameInv, ErrorsInv, MeaningInv, NamesMean, TypeInv
        <2>2. PartMeaning(i) # error_type
            BY <1>2, <2>1, AllMean
        <2>3. PartFound(i) /\ PartObject(i) = o
            BY <1>2, <2>1 DEF NamesMean, Declared, PartObject
        <2>4. p \in AllNames /\ Len(batch) \in Nat
            BY <1>2, BatchType DEF TypeInv
        <2>5. PartMeaning(i) \in Plain(types) /\ o \in Back(types, {PartMeaning(i)})
            <3>1. CASE KnownBefore(i)
                <4>1. PartMeaning(i) = lookup(env, p, error_type) /\ lookup(env, p, NULL) # NULL
                    BY <3>1 DEF PartMeaning, KnownBefore
                <4>2. lookup(env, p, error_type) \in Plain(types)
                    BY <1>2, <2>1, <4>1, EnvFinds
                <4>3. o \in Back(types, {lookup(env, p, error_type)})
                    BY <2>3, <3>1 DEF PartFound
                <4> HIDE DEF o, p
                <4> QED
                    BY <4>1, <4>2, <4>3
            <3>2. CASE ~ KnownBefore(i)
                <4>1. PartMeaning(i) = Meaning(p)
                    BY <3>2 DEF PartMeaning
                <4>2. lookup(typenames, p, NULL) # NULL /\ o = lookup(typenames, p, NULL)
                    BY <2>3, <3>2 DEF PartFound
                <4> HIDE DEF o, p
                <4>3. Meaning(p) \in Plain(types) /\ lookup(typenames, p, NULL) \in Back(types, {Meaning(p)})
                    BY <1>2, <2>1, <2>2, <2>4, <4>1, <4>2, MeaningsLead DEF Meaning
                <4> QED
                    BY <4>1, <4>2, <4>3
            <3> QED
                BY <3>1, <3>2
        <2> HIDE DEF o
        <2>6. Resolved(o) = PartMeaning(i)
            BY <2>1, <2>5, ResolvedBack
        <2> QED
            BY <2>6 DEF o
    <1>3. TypeInv /\ ResolveInv /\ NameInv => NamesMeanTheirDeclarations
        BY <1>1, <1>2 DEF NamesMeanTheirDeclarations
    <1> QED
        BY <1>3, AlwaysNamesMean, PTL
==============================================================================
